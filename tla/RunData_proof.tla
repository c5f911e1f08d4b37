---------------------------- MODULE RunData_proof ----------------------------
(***************************************************************************)
(* Proofs about the run data, for any shifts, issues, pull requests and    *)
(* length of the file:                                                     *)
(*   RecTypeCorrect  every variable keeps its type                         *)
(*   ReportsAreTrue  what a report says is what happened                   *)
(* The invariant behind it: the lines of the file were true when they were *)
(* written and stay so, issue records are in the order of their times, and *)
(* a report's rows are what the file held when it was read.                *)
(***************************************************************************)
EXTENDS RunData, FiniteSetTheorems, SequenceTheorems, TLAPS

(* The run data as a behaviour of its own.                                 *)
RecSpec == RecInit /\ [][RecNext]_recVars

-----------------------------------------------------------------------------
(* Finite sets of numbers.                                                 *)

(* A finite set that is not empty has a largest element: a subset minimal  *)
(* among those without one would lose an element and still be without.     *)
LEMMA Largest ==
  ASSUME NEW S \in SUBSET Int, IsFiniteSet(S), S # {}
  PROVE  \E m \in S : \A x \in S : x <= m
  <1> DEFINE HasOne(s) == \E m \in s : \A x \in s : x <= m
             Without == {s \in SUBSET S : s # {} /\ ~HasOne(s)}
  <1>1. SUFFICES ASSUME Without # {} PROVE FALSE
    <2>1. S \notin Without => HasOne(S) OBVIOUS
    <2> QED BY <2>1
  <1>2. PICK s \in Without : \A t \in Without : ~(<<t, s>> \in StrictSubsetOrdering(S))
    <2>1. IsWellFoundedOn(StrictSubsetOrdering(S), SUBSET S)
      BY FS_StrictSubsetOrderingWellFounded, FS_FiniteSubsetsOfFinite
    <2>2. Without \subseteq SUBSET S OBVIOUS
    <2> HIDE DEF Without
    <2> QED BY <1>1, <2>1, <2>2, WFMin
  <1>3. PICK x \in s : TRUE OBVIOUS
  <1>4. s \ {x} \notin Without
    <2>1. <<s \ {x}, s>> \in StrictSubsetOrdering(S) BY DEF StrictSubsetOrdering
    <2> QED BY <1>2, <2>1
  <1>5. CASE s \ {x} = {}
    <2>1. s = {x} BY <1>5
    <2> QED BY <2>1
  <1>6. CASE s \ {x} # {}
    <2>1. PICK m \in s \ {x} : \A y \in s \ {x} : y <= m BY <1>4, <1>6
    <2>2. CASE x <= m BY <2>1, <2>2
    <2>3. CASE ~(x <= m) BY <2>1, <2>3
    <2> QED BY <2>2, <2>3
  <1> QED BY <1>5, <1>6

(* And a set of natural numbers a smallest one.                            *)
LEMMA Smallest ==
  ASSUME NEW S \in SUBSET Nat, S # {}
  PROVE  \E m \in S : \A x \in S : m <= x
  <1>1. PICK n \in S : TRUE OBVIOUS
  <1> DEFINE Below == {k \in 0..n : n - k \in S}
  <1>2. Below # {} /\ Below \in SUBSET Int /\ IsFiniteSet(Below)
    <2>1. IsFiniteSet(0..n) BY FS_Interval
    <2>2. Below \subseteq 0..n OBVIOUS
    <2>3. 0 \in Below OBVIOUS
    <2>4. IsFiniteSet(Below)
      <3> HIDE DEF Below
      <3> QED BY <2>1, <2>2, FS_Subset
    <2>5. Below \in SUBSET Int OBVIOUS
    <2> QED BY <2>3, <2>4, <2>5
  <1>3. PICK k \in Below : \A j \in Below : j <= k
    <2> HIDE DEF Below
    <2> QED BY <1>2, Largest
  <1>4. ASSUME NEW x \in S PROVE n - k <= x
    <2>1. CASE x <= n
      <3>1. n - x \in Below BY <2>1
      <3> QED BY <1>3, <3>1
    <2>2. CASE ~(x <= n) BY <2>2
    <2> QED BY <2>1, <2>2
  <1> QED BY <1>4

(* So the newest of some numbers is one of them, and so is the oldest.     *)
LEMMA NewestIsLast ==
  ASSUME NEW S \in SUBSET Nat, IsFiniteSet(S), S # {}
  PROVE  Newest(S) \in S /\ \A x \in S : x <= Newest(S)
  <1>1. \E m \in S : \A x \in S : x <= m
    <2>1. S \in SUBSET Int OBVIOUS
    <2> QED BY <2>1, Largest
  <1> QED BY <1>1 DEF Newest

LEMMA OldestIsFirst ==
  ASSUME NEW S \in SUBSET Nat, S # {}
  PROVE  Oldest(S) \in S /\ \A x \in S : Oldest(S) <= x
  BY Smallest DEF Oldest

-----------------------------------------------------------------------------
(* The invariant.                                                          *)

(* What a line says was so when it was written, and is still.              *)
LineHolds(rec) ==
    /\ rec.kind = "run" =>
          /\ rec.ts <= recNow /\ rec.end <= recNow
          /\ rec.pr <= Len(recGH[rec.issue].prs)
    /\ rec.kind = "issue" =>
          rec.ts <= recNow /\ (rec.outcome = "merged" => Merges(rec.issue) # {})
LinesHold == \A k \in DOMAIN recFile : LineHolds(recFile[k])

(* Issue records carry the time they were written at: they are in order.   *)
InOrder ==
    \A k, n \in DOMAIN recFile :
        n < k /\ recFile[n].kind = "issue" /\ recFile[k].kind = "issue" =>
            recFile[n].ts <= recFile[k].ts

(* A shift at work on an issue knows a pull request of it, or none.        *)
WorkInv ==
    \A s \in RecShifts : recWork[s].at \in {"run", "watch", "nothing"} =>
        /\ recWork[s].issue \in RecIssues /\ recWork[s].from <= recNow
        /\ recWork[s].pr <= Len(recGH[recWork[s].issue].prs)
        /\ recWork[s].at = "watch" => recWork[s].pr # 0

(* The rows of a report are the file, read for its shift; and with an      *)
(* answer, what GitHub says of them.                                       *)
Rows(shift) == RollUp(RecordsOf(shift))
Answers == {Resolved(row) : row \in Rows(0)}
AReport ==
    [at |-> recReport.at, shift |-> recReport.shift, rows |-> recReport.rows,
     upTo |-> recReport.upTo, answered |-> recReport.answered, parks |-> recReport.parks]
ReportInv ==
    /\ recReport = AReport
    /\ recReport.at # "none" => recReport.upTo = Len(recFile)
    /\ recReport.at = "read" => recReport.shift = 0 /\ recReport.rows = Rows(0)
    /\ recReport.at = "made" =>
          /\ recReport.shift # 0 => recReport.rows = Rows(recReport.shift)
          /\ recReport.shift = 0 =>
                recReport.rows = IF recReport.answered THEN Answers ELSE Rows(0)
    /\ recReport.at = "status" =>
          /\ recReport.shift = LastShift(RecordsOf(0))
          /\ recReport.rows = Rows(recReport.shift) /\ recReport.parks = ParkReasons

RecInv == RecTypeOK /\ LinesHold /\ InOrder /\ WorkInv /\ ReportInv

-----------------------------------------------------------------------------
(* The lines of the file.                                                  *)

(* A line is torn, spoiled, or a record with its fields.                   *)
LEMMA LineTypes ==
  ASSUME RecTypeOK
  PROVE  /\ Len(recFile) \in Nat /\ DOMAIN recFile = 1..Len(recFile)
         /\ \A k \in DOMAIN recFile :
               /\ recFile[k] \in LineType
               /\ recFile[k].kind = "run" =>
                     recFile[k] \in [kind : {"run"}, shift : RecShifts, issue : RecIssues,
                                     ts : Nat, end : Nat, pr : Nat]
               /\ recFile[k].kind = "issue" =>
                     recFile[k] \in [kind : {"issue"}, shift : RecShifts, issue : RecIssues,
                          ts : Nat,
                          outcome : {"merged", "closed_unmerged", "needs_human",
                                     "closed_no_change"}]
  <1>1. recFile \in Seq(LineType) BY DEF RecTypeOK
  <1>2. Len(recFile) \in Nat /\ DOMAIN recFile = 1..Len(recFile) BY <1>1
  <1>3. \A k \in DOMAIN recFile : recFile[k] \in LineType BY <1>1, <1>2
  <1> QED BY <1>2, <1>3 DEF LineType, Torn, Spoiled

(* What appending does: the lines there were stay, the last one may come   *)
(* to nothing, and one may come after it.                                  *)
LEMMA AppendsOne ==
  ASSUME RecTypeOK, NEW rec \in LineType, Appends(rec)
  PROVE  /\ recFile' \in Seq(LineType) /\ recLost' \in BOOLEAN
         /\ \A k \in DOMAIN recFile' :
               \/ k \in DOMAIN recFile /\ recFile'[k] = recFile[k]
               \/ recFile'[k] \in {Torn, Spoiled}
               \/ k = Len(recFile) + 1 /\ recFile'[k] = rec
  <1>1. recFile \in Seq(LineType) /\ Torn \in LineType /\ Spoiled \in LineType
    BY DEF RecTypeOK, LineType
  <1>2. recLost' \in BOOLEAN BY DEF Appends, RecTypeOK
  <1>3. ASSUME NEW line \in LineType, recFile' = Append(recFile, line)
        PROVE  /\ recFile' \in Seq(LineType)
               /\ \A k \in DOMAIN recFile' :
                     \/ k \in DOMAIN recFile /\ recFile'[k] = recFile[k]
                     \/ k = Len(recFile) + 1 /\ recFile'[k] = line
    BY <1>1, <1>3
  <1>4. CASE ~Swallows /\ recFile' = Append(recFile, rec) BY <1>2, <1>3, <1>4
  <1>5. CASE Swallows /\ recFile' = [recFile EXCEPT ![Len(recFile)] = Spoiled]
    <2>1. Len(recFile) \in DOMAIN recFile
      <3>1. Len(recFile) \in Nat /\ DOMAIN recFile = 1..Len(recFile) BY <1>1
      <3>2. recFile # <<>> BY <1>5 DEF Swallows
      <3> QED BY <1>1, <3>1, <3>2
    <2>2. recFile' \in Seq(LineType) /\ DOMAIN recFile' = DOMAIN recFile
      BY <1>1, <1>5, <2>1, ExceptSeq
    <2> QED BY <1>1, <1>2, <1>5, <2>1, <2>2
  <1>6. CASE recFile' = recFile BY <1>1, <1>2, <1>6
  <1>7. CASE recFile' = Append(recFile, Torn) BY <1>1, <1>2, <1>3, <1>7
  <1> QED BY <1>4, <1>5, <1>6, <1>7 DEF Appends

-----------------------------------------------------------------------------
(* What every step leaves standing.                                        *)

HubType == [queue : {"open", "done", "parked"}, prs : Seq(PRType)]

(* The clock runs on, and no pull request goes or stops being merged.      *)
Onward ==
    /\ recNow <= recNow'
    /\ \A i \in RecIssues :
          /\ Len(recGH[i].prs) <= Len(recGH'[i].prs)
          /\ Merges(i) # {} => Merges(i)' # {}

(* A step that moves one issue on GitHub, its pull requests kept.          *)
LEMMA OneIssueMoves ==
  ASSUME RecTypeOK, NEW i \in RecIssues, NEW new \in HubType, recNow' = recNow,
         recGH' = [recGH EXCEPT ![i] = new], Len(recGH[i].prs) <= Len(new.prs),
         \A n \in DOMAIN recGH[i].prs :
            recGH[i].prs[n].state = "MERGED" => new.prs[n].state = "MERGED"
  PROVE  recGH' \in [RecIssues -> HubType] /\ Onward
  <1>1. recGH \in [RecIssues -> HubType] /\ recNow \in Nat BY DEF RecTypeOK, HubType
  <1>2. recGH' \in [RecIssues -> HubType] BY <1>1
  <1>3. ASSUME NEW j \in RecIssues
        PROVE  /\ Len(recGH[j].prs) <= Len(recGH'[j].prs)
               /\ Merges(j) # {} => Merges(j)' # {}
    <2>1. CASE j = i
      <3>1. recGH'[j] = new BY <1>1, <2>1
      <3>2. recGH[j].prs \in Seq(PRType) /\ new.prs \in Seq(PRType) BY <1>1 DEF HubType
      <3>3. DOMAIN recGH[j].prs \subseteq DOMAIN new.prs BY <2>1, <3>2
      <3>4. \A n \in Merges(j) : n \in Merges(j)'
        BY <2>1, <3>1, <3>3 DEF Merges, PRsIn
      <3> QED BY <2>1, <3>1, <3>4
    <2>2. CASE j # i
      <3>1. recGH'[j] = recGH[j] BY <1>1, <2>2
      <3>2. Len(recGH[j].prs) \in Nat BY <1>1 DEF HubType
      <3> QED BY <3>1, <3>2 DEF Merges, PRsIn
    <2> QED BY <2>1, <2>2
  <1> QED BY <1>1, <1>2, <1>3 DEF Onward

(* What stays on GitHub as it is has not gone back.                        *)
LEMMA NothingMoves ==
  ASSUME RecTypeOK, UNCHANGED recGH, recNow <= recNow'
  PROVE  recGH' \in [RecIssues -> HubType] /\ Onward
  <1>1. \A i \in RecIssues : Len(recGH[i].prs) \in Nat BY DEF RecTypeOK
  <1> QED BY <1>1 DEF RecTypeOK, HubType, Onward, Merges, PRsIn

(* The lines stay true, and a true one may come after them.                *)
LEMMA FileKeeps ==
  ASSUME RecTypeOK, recNow' \in Nat, LinesHold, InOrder, Onward,
         \/ UNCHANGED recFile
         \/ \E rec \in LineType :
               /\ Appends(rec) /\ LineHolds(rec)'
               /\ rec.kind = "issue" => rec.ts = recNow,
         recGH' \in [RecIssues -> HubType]
  PROVE  LinesHold' /\ InOrder'
  <1>1. ASSUME NEW k \in DOMAIN recFile PROVE LineHolds(recFile[k])'
               \/ ~(recFile'[k] = recFile[k])
    <2>1. SUFFICES ASSUME recFile'[k] = recFile[k] PROVE LineHolds(recFile[k])' OBVIOUS
    <2>2. LineHolds(recFile[k]) BY DEF LinesHold
    <2>3. CASE recFile[k].kind = "run"
      <3>1. /\ recFile[k].issue \in RecIssues /\ recFile[k].ts \in Nat
            /\ recFile[k].end \in Nat /\ recFile[k].pr \in Nat
        BY <2>3, LineTypes
      <3>2. Len(recGH[recFile[k].issue].prs) <= Len(recGH'[recFile[k].issue].prs)
        BY <3>1 DEF Onward
      <3>3. /\ Len(recGH[recFile[k].issue].prs) \in Nat
            /\ Len(recGH'[recFile[k].issue].prs) \in Nat
        BY <3>1 DEF RecTypeOK, HubType
      <3>4. recNow \in Nat /\ recNow <= recNow' BY DEF RecTypeOK, Onward
      <3>5. /\ recFile[k].ts <= recNow' /\ recFile[k].end <= recNow'
            /\ recFile[k].pr <= Len(recGH'[recFile[k].issue].prs)
        BY <2>2, <2>3, <3>1, <3>2, <3>3, <3>4 DEF LineHolds
      <3> QED BY <2>1, <2>3, <3>5 DEF LineHolds
    <2>4. CASE recFile[k].kind = "issue"
      <3>1. recFile[k].issue \in RecIssues /\ recFile[k].ts \in Nat BY <2>4, LineTypes
      <3>2. recNow \in Nat /\ recNow <= recNow' BY DEF RecTypeOK, Onward
      <3>3. recFile[k].ts <= recNow' BY <2>2, <2>4, <3>1, <3>2 DEF LineHolds
      <3>4. Merges(recFile[k].issue) # {} =>
               {n \in DOMAIN recGH'[recFile[k].issue].prs :
                  recGH'[recFile[k].issue].prs[n].state = "MERGED"} # {}
        BY <3>1 DEF Onward, Merges, PRsIn
      <3>5. recFile[k].outcome = "merged" => Merges(recFile[k].issue) # {}
        BY <2>2, <2>4 DEF LineHolds
      <3> QED BY <2>1, <2>4, <3>3, <3>4, <3>5 DEF LineHolds, Merges, PRsIn
    <2>5. CASE recFile[k].kind \notin {"run", "issue"} BY <2>1, <2>5 DEF LineHolds
    <2> QED BY <2>3, <2>4, <2>5
  <1>2. CASE UNCHANGED recFile
    <2>1. LinesHold' BY <1>1, <1>2 DEF LinesHold, LineHolds
    <2> QED BY <1>2, <2>1 DEF InOrder
  <1>3. ASSUME NEW rec \in LineType, Appends(rec), LineHolds(rec)',
               rec.kind = "issue" => rec.ts = recNow
        PROVE  LinesHold' /\ InOrder'
    <2>1. \A k \in DOMAIN recFile' :
             \/ k \in DOMAIN recFile /\ recFile'[k] = recFile[k]
             \/ recFile'[k] \in {Torn, Spoiled}
             \/ k = Len(recFile) + 1 /\ recFile'[k] = rec
      BY <1>3, AppendsOne
    <2>2. ASSUME NEW k \in DOMAIN recFile' PROVE LineHolds(recFile[k])'
      <3>1. CASE k \in DOMAIN recFile /\ recFile'[k] = recFile[k]
        BY <1>1, <3>1 DEF LineHolds
      <3>2. CASE recFile'[k] \in {Torn, Spoiled} BY <3>2 DEF LineHolds, Torn, Spoiled
      <3>3. CASE recFile'[k] = rec BY <1>3, <3>3 DEF LineHolds
      <3> QED BY <2>1, <3>1, <3>2, <3>3
    <2>3. ASSUME NEW k \in DOMAIN recFile', NEW n \in DOMAIN recFile', n < k,
                 recFile'[n].kind = "issue", recFile'[k].kind = "issue"
          PROVE  recFile'[n].ts <= recFile'[k].ts
      <3>1. Len(recFile) \in Nat /\ DOMAIN recFile = 1..Len(recFile) BY LineTypes
      <3>2. recFile'[n] \notin {Torn, Spoiled} /\ recFile'[k] \notin {Torn, Spoiled}
        BY <2>3 DEF Torn, Spoiled
      <3>3. /\ \/ k \in DOMAIN recFile /\ recFile'[k] = recFile[k]
               \/ k = Len(recFile) + 1 /\ recFile'[k] = rec
            /\ \/ n \in DOMAIN recFile /\ recFile'[n] = recFile[n]
               \/ n = Len(recFile) + 1 /\ recFile'[n] = rec
        BY <2>1, <3>2
      <3>4. n \in DOMAIN recFile /\ recFile'[n] = recFile[n] BY <2>3, <3>1, <3>3
      <3>5. CASE k \in DOMAIN recFile /\ recFile'[k] = recFile[k]
        BY <2>3, <3>4, <3>5 DEF InOrder
      <3>6. CASE recFile'[k] = rec
        <4>1. recFile[n].ts <= recNow BY <2>3, <3>4 DEF LinesHold, LineHolds
        <4> QED BY <1>3, <2>3, <3>4, <3>6, <4>1
      <3> QED BY <3>3, <3>5, <3>6
    <2>4. LinesHold' BY <2>2 DEF LinesHold
    <2>5. InOrder' BY <2>3 DEF InOrder
    <2> QED BY <2>4, <2>5
  <1> QED BY <1>2, <1>3

-----------------------------------------------------------------------------
(* The steps of the shifts.                                                *)

(* PickPR is the number of a pull request of the branch, or 0.             *)
LEMMA PickedIsThere ==
  ASSUME RecTypeOK, NEW i \in RecIssues
  PROVE  PickPR(i) \in 0..Len(recGH[i].prs)
  <1>1. recGH[i].prs \in Seq(PRType) BY DEF RecTypeOK
  <1>2. Len(recGH[i].prs) \in Nat /\ DOMAIN recGH[i].prs = 1..Len(recGH[i].prs) BY <1>1
  <1>3. ASSUME NEW S \in SUBSET (1..Len(recGH[i].prs))
        PROVE  Newest(S) \in 0..Len(recGH[i].prs)
    <2>1. IsFiniteSet(1..Len(recGH[i].prs)) BY <1>2, FS_Interval
    <2>2. IsFiniteSet(S) BY <2>1, FS_Subset
    <2>3. CASE S # {}
      <3>1. S \in SUBSET Nat BY <1>2
      <3>2. Newest(S) \in S BY <2>2, <2>3, <3>1, NewestIsLast
      <3>3. Newest(S) \in 1..Len(recGH[i].prs) BY <3>2
      <3> QED BY <1>2, <3>3
    <2>4. CASE S = {}
      <3>1. Newest(S) = 0 BY <2>4 DEF Newest
      <3>2. 0 \in 0..Len(recGH[i].prs) BY <1>2
      <3> QED BY <3>1, <3>2
    <2> QED BY <2>3, <2>4
  <1>4. PRsIn(i, "OPEN") \subseteq 1..Len(recGH[i].prs)
        /\ PRsIn(i, "MERGED") \subseteq 1..Len(recGH[i].prs)
    BY <1>2 DEF PRsIn
  <1> QED BY <1>2, <1>3, <1>4 DEF PickPR

(* A step of a shift at work, in one lemma: GitHub goes on, at most one    *)
(* true line is written, and the shift works on or leaves.                 *)
ShiftStep(s) ==
    /\ recNow' = recNow /\ recLost' \in BOOLEAN /\ recFile' \in Seq(LineType)
    /\ recGH' \in [RecIssues -> HubType] /\ Onward /\ NotReported
    /\ recWork' = [recWork EXCEPT ![s] = recWork'[s]] /\ recWork'[s] \in WorkType
    /\ recWork'[s].at \in {"run", "watch", "nothing"} =>
          /\ recWork'[s].issue \in RecIssues /\ recWork'[s].from <= recNow
          /\ recWork'[s].pr <= Len(recGH'[recWork'[s].issue].prs)
          /\ recWork'[s].at = "watch" => recWork'[s].pr # 0
    /\ \/ UNCHANGED recFile
       \/ \E rec \in LineType :
             /\ Appends(rec) /\ LineHolds(rec)'
             /\ rec.kind = "issue" => rec.ts = recNow

LEMMA ShiftWorkKeeps ==
  ASSUME RecTypeOK, WorkInv, Onward, recNow' \in Nat, recGH' \in [RecIssues -> HubType],
         NEW s \in RecShifts, NEW new \in WorkType, recWork' = [recWork EXCEPT ![s] = new],
         new.at \in {"run", "watch", "nothing"} =>
            /\ new.issue \in RecIssues /\ new.from <= recNow'
            /\ new.pr <= Len(recGH'[new.issue].prs) /\ (new.at = "watch" => new.pr # 0)
  PROVE  WorkInv'
  <1> SUFFICES ASSUME NEW t \in RecShifts, recWork'[t].at \in {"run", "watch", "nothing"}
               PROVE  /\ recWork'[t].issue \in RecIssues /\ recWork'[t].from <= recNow'
                      /\ recWork'[t].pr <= Len(recGH'[recWork'[t].issue].prs)
                      /\ recWork'[t].at = "watch" => recWork'[t].pr # 0
    BY DEF WorkInv
  <1>0. recWork \in [RecShifts -> WorkType] BY DEF RecTypeOK
  <1>1. CASE t = s BY <1>0, <1>1
  <1>2. CASE t # s
    <2>1. recWork'[t] = recWork[t] BY <1>0, <1>2
    <2>2. /\ recWork[t].issue \in RecIssues /\ recWork[t].from <= recNow
          /\ recWork[t].pr <= Len(recGH[recWork[t].issue].prs)
          /\ recWork[t].at = "watch" => recWork[t].pr # 0
      BY <2>1 DEF WorkInv
    <2>3. recWork[t].from \in Nat /\ recWork[t].pr \in Nat BY <1>0 DEF WorkType
    <2>4. /\ Len(recGH[recWork[t].issue].prs) <= Len(recGH'[recWork[t].issue].prs)
          /\ recNow <= recNow'
      BY <2>2 DEF Onward
    <2>5. /\ Len(recGH[recWork[t].issue].prs) \in Nat
          /\ Len(recGH'[recWork[t].issue].prs) \in Nat /\ recNow \in Nat
      BY <2>2 DEF RecTypeOK, HubType
    <2>6. recWork[t].from <= recNow' BY <2>2, <2>3, <2>4, <2>5
    <2>7. recWork[t].pr <= Len(recGH'[recWork[t].issue].prs) BY <2>2, <2>3, <2>4, <2>5
    <2> QED BY <2>1, <2>2, <2>6, <2>7
  <1> QED BY <1>1, <1>2

LEMMA ShiftKeeps ==
  ASSUME RecInv, NEW s \in RecShifts, ShiftStep(s)
  PROVE  RecInv'
  <1>1. RecTypeOK'
    <2>1. recWork' \in [RecShifts -> WorkType]
      BY DEF ShiftStep, RecInv, RecTypeOK
    <2> QED BY <2>1 DEF ShiftStep, RecInv, RecTypeOK, HubType, NotReported
  <1>2. LinesHold' /\ InOrder'
    <2>1. recNow' \in Nat BY DEF ShiftStep, RecInv, RecTypeOK
    <2> QED BY <2>1, FileKeeps DEF ShiftStep, RecInv
  <1>3. WorkInv'
    <2>1. recNow' \in Nat /\ recNow' = recNow BY DEF ShiftStep, RecInv, RecTypeOK
    <2> QED BY <2>1, ShiftWorkKeeps DEF ShiftStep, RecInv
  <1>4. ReportInv' BY DEF RecInv, ShiftStep, NotReported, ReportInv, AReport
  <1> QED BY <1>1, <1>2, <1>3, <1>4 DEF RecInv

(* The records of a shift are lines that hold.                             *)
LEMMA RunLineHolds ==
  ASSUME RecInv, NEW s \in RecShifts, Busy(s, "run"), recNow' = recNow, Onward,
         recGH' \in [RecIssues -> HubType], NEW n \in 0..Len(recGH[recWork[s].issue].prs),
         Appends(RunRecord(s, n))
  PROVE  \E rec \in LineType :
            Appends(rec) /\ LineHolds(rec)' /\ (rec.kind = "issue" => rec.ts = recNow)
  <1>1. /\ recWork[s].issue \in RecIssues /\ recWork[s].from <= recNow
        /\ recWork[s].from \in Nat /\ recNow \in Nat
    BY DEF RecInv, WorkInv, RecTypeOK, WorkType, Busy
  <1>2. /\ Len(recGH[recWork[s].issue].prs) \in Nat
        /\ Len(recGH'[recWork[s].issue].prs) \in Nat
        /\ Len(recGH[recWork[s].issue].prs) <= Len(recGH'[recWork[s].issue].prs)
    BY <1>1 DEF RecInv, RecTypeOK, HubType, Onward
  <1>3. PICK rec : rec = RunRecord(s, n) OBVIOUS
  <1>4. n \in Nat /\ n <= Len(recGH'[recWork[s].issue].prs) BY <1>2
  <1>5. rec \in LineType BY <1>1, <1>3, <1>4 DEF RunRecord, LineType
  <1>6. /\ rec.kind = "run" /\ rec.ts <= recNow' /\ rec.end <= recNow'
        /\ rec.pr <= Len(recGH'[rec.issue].prs)
    BY <1>1, <1>3, <1>4 DEF RunRecord
  <1>7. LineHolds(rec)' BY <1>6 DEF LineHolds
  <1> QED BY <1>3, <1>5, <1>6, <1>7

Ended == {"merged", "closed_unmerged", "needs_human", "closed_no_change"}
LEMMA IssueLineHolds ==
  ASSUME RecInv, NEW s \in RecShifts, recWork[s].at \in {"run", "watch", "nothing"},
         recNow' = recNow, NEW outcome \in Ended, NEW i \in RecIssues, i = recWork[s].issue,
         outcome = "merged" => Merges(i)' # {}, Appends(IssueRecord(s, outcome))
  PROVE  \E rec \in LineType :
            Appends(rec) /\ LineHolds(rec)' /\ (rec.kind = "issue" => rec.ts = recNow)
  <1>1. recNow \in Nat BY DEF RecInv, RecTypeOK
  <1>2. PICK rec : rec = IssueRecord(s, outcome) OBVIOUS
  <1>3. rec \in LineType BY <1>1, <1>2 DEF IssueRecord, LineType, Ended
  <1>4. /\ rec.kind = "issue" /\ rec.ts <= recNow' /\ rec.ts = recNow
        /\ rec.outcome = outcome /\ rec.issue = i
    BY <1>1, <1>2 DEF IssueRecord
  <1>5. LineHolds(rec)' BY <1>4 DEF LineHolds
  <1> QED BY <1>2, <1>3, <1>4, <1>5

(* A shift that puts its issue down: nothing is asked of where it stands.  *)
LEMMA LeavesIt ==
  ASSUME RecInv, NEW s \in RecShifts, NEW at \in {"idle", "gone"}, Leaves(s, at)
  PROVE  /\ recWork' = [recWork EXCEPT ![s] = recWork'[s]] /\ recWork'[s] \in WorkType
         /\ recWork'[s].at \notin {"run", "watch", "nothing"}
  <1>1. recWork \in [RecShifts -> WorkType] BY DEF RecInv, RecTypeOK
  <1> QED BY <1>1 DEF Leaves, WorkType, NotStarted

(* Which pull request a shift at work stands on, as numbers.               *)
LEMMA AtWork ==
  ASSUME RecInv, NEW s \in RecShifts, recWork[s].at \in {"run", "watch", "nothing"}
  PROVE  /\ recWork[s] \in WorkType /\ recNow \in Nat
         /\ recWork[s].issue \in RecIssues /\ recWork[s].from <= recNow
         /\ recGH[recWork[s].issue] \in HubType
         /\ recWork[s].pr \in 0..Len(recGH[recWork[s].issue].prs)
         /\ recWork[s].at = "watch" => recWork[s].pr # 0
  BY DEF RecInv, RecTypeOK, WorkInv, WorkType, HubType

LEMMA PicksKeeps ==
  ASSUME RecInv, NEW s \in RecShifts, NEW i \in RecIssues, ShiftPicks(s, i)
  PROVE  ShiftStep(s)
  <1>1. recWork \in [RecShifts -> WorkType] /\ recNow \in Nat BY DEF RecInv, RecTypeOK
  <1>2. PickPR(i) \in 0..Len(recGH[i].prs) BY PickedIsThere DEF RecInv
  <1>3. Len(recGH[i].prs) \in Nat BY DEF RecInv, RecTypeOK
  <1>4. recNow <= recNow' BY <1>1 DEF ShiftPicks
  <1>5. recGH' \in [RecIssues -> HubType] /\ Onward
    BY <1>4, NothingMoves DEF ShiftPicks, RecInv
  <1>6. recWork'[s] = [at |-> IF PickPR(i) = 0 THEN "run" ELSE "watch", issue |-> i,
                       from |-> recNow, pr |-> PickPR(i)]
    BY <1>1 DEF ShiftPicks
  <1>7. recWork' = [recWork EXCEPT ![s] = recWork'[s]] BY <1>6 DEF ShiftPicks
  <1>8. recWork'[s] \in WorkType BY <1>1, <1>2, <1>3, <1>6 DEF WorkType
  <1>9. recWork'[s].pr <= Len(recGH'[recWork'[s].issue].prs)
    BY <1>2, <1>3, <1>6 DEF ShiftPicks
  <1>10. /\ recWork'[s].issue \in RecIssues /\ recWork'[s].from <= recNow
         /\ recWork'[s].at = "watch" => recWork'[s].pr # 0
    BY <1>1, <1>6
  <1>11. /\ recNow' = recNow /\ recLost' \in BOOLEAN /\ recFile' \in Seq(LineType)
         /\ NotReported /\ UNCHANGED recFile
    BY DEF ShiftPicks, RecInv, RecTypeOK
  <1> QED BY <1>5, <1>7, <1>8, <1>9, <1>10, <1>11 DEF ShiftStep

(* An issue with another queue, other pull requests, or one more of them.  *)
LEMMA HubChanges ==
  ASSUME NEW hub \in HubType, NEW prs \in Seq(PRType), NEW queue \in {"open", "done", "parked"}
  PROVE  /\ [hub EXCEPT !.prs = prs] = [queue |-> hub.queue, prs |-> prs]
         /\ [hub EXCEPT !.queue = queue] = [queue |-> queue, prs |-> hub.prs]
         /\ [queue |-> queue, prs |-> prs] \in HubType
         /\ hub.prs \in Seq(PRType) /\ Len(hub.prs) \in Nat
         /\ hub.queue \in {"open", "done", "parked"}
  <1>1. hub = [queue |-> hub.queue, prs |-> hub.prs] BY DEF HubType
  <1>2. [hub EXCEPT !.prs = prs] = [queue |-> hub.queue, prs |-> prs] BY <1>1
  <1>3. [hub EXCEPT !.queue = queue] = [queue |-> queue, prs |-> hub.prs] BY <1>1
  <1>5. [queue |-> queue, prs |-> prs] \in HubType BY DEF HubType
  <1>6. /\ hub.prs \in Seq(PRType) /\ Len(hub.prs) \in Nat
        /\ hub.queue \in {"open", "done", "parked"}
    BY DEF HubType
  <1> QED BY <1>2, <1>3, <1>5, <1>6

OpenPR == [state |-> "OPEN", ended |-> 0]
LEMMA OneMorePR ==
  ASSUME RecTypeOK, NEW i \in RecIssues, recNow' = recNow,
         recGH' = [recGH EXCEPT ![i].prs = Append(@, OpenPR)]
  PROVE  recGH' \in [RecIssues -> HubType] /\ Onward
  <1> DEFINE prs == Append(recGH[i].prs, OpenPR)
             new == [queue |-> recGH[i].queue, prs |-> prs]
  <1>1. recGH \in [RecIssues -> HubType] /\ recGH[i] \in HubType BY DEF RecTypeOK, HubType
  <1>2. /\ recGH[i].prs \in Seq(PRType) /\ Len(recGH[i].prs) \in Nat
        /\ recGH[i].queue \in {"open", "done", "parked"}
    BY <1>1 DEF HubType
  <1>3. OpenPR \in PRType BY DEF OpenPR, PRType
  <1>4. /\ prs \in Seq(PRType) /\ Len(prs) = Len(recGH[i].prs) + 1
        /\ \A n \in DOMAIN recGH[i].prs : prs[n] = recGH[i].prs[n]
    BY <1>2, <1>3
  <1>5. [recGH[i] EXCEPT !.prs = prs] = new /\ new \in HubType
    <2> HIDE DEF prs
    <2> QED BY <1>1, <1>2, <1>4, HubChanges
  <1>6. recGH' = [recGH EXCEPT ![i] = [recGH[i] EXCEPT !.prs = prs]] OBVIOUS
  <1>7. /\ new.prs = prs /\ Len(recGH[i].prs) <= Len(new.prs)
        /\ \A n \in DOMAIN recGH[i].prs : new.prs[n] = recGH[i].prs[n]
    <2> HIDE DEF prs
    <2> QED BY <1>2, <1>4
  <1> HIDE DEF prs, new
  <1>8. recGH' = [recGH EXCEPT ![i] = new] BY <1>5, <1>6
  <1>9. \A n \in DOMAIN recGH[i].prs :
           recGH[i].prs[n].state = "MERGED" => new.prs[n].state = "MERGED"
    BY <1>7
  <1> QED BY <1>5, <1>7, <1>8, <1>9, OneIssueMoves

LEMMA OpensKeeps ==
  ASSUME RecInv, NEW s \in RecShifts, RunOpensPR(s)
  PROVE  ShiftStep(s)
  <1> DEFINE i == recWork[s].issue
  <1>1. recWork[s].at = "run" BY DEF RunOpensPR, Busy
  <1>2. /\ recWork[s] \in WorkType /\ recNow \in Nat /\ i \in RecIssues
        /\ recWork[s].from <= recNow /\ recGH[i] \in HubType
        /\ recWork[s].pr \in 0..Len(recGH[i].prs)
    BY <1>1, AtWork
  <1>3. Len(recGH[i].prs) \in Nat BY <1>2 DEF HubType
  <1>7. recGH' \in [RecIssues -> HubType] /\ Onward
    BY <1>2, OneMorePR DEF RunOpensPR, RecInv, OpenPR
  <1>8. recWork' = recWork /\ recWork \in [RecShifts -> WorkType]
    BY DEF RunOpensPR, RecInv, RecTypeOK
  <1>9. recWork'[s].pr <= Len(recGH'[i].prs)
    <2>1. Len(recGH[i].prs) <= Len(recGH'[i].prs) /\ Len(recGH'[i].prs) \in Nat
      BY <1>2, <1>7 DEF Onward, HubType
    <2> QED BY <1>2, <1>3, <1>8, <2>1
  <1>10. /\ recNow' = recNow /\ recLost' \in BOOLEAN /\ recFile' \in Seq(LineType)
         /\ NotReported /\ UNCHANGED recFile
    BY DEF RunOpensPR, RecInv, RecTypeOK
  <1> QED BY <1>1, <1>2, <1>7, <1>8, <1>9, <1>10 DEF ShiftStep

LEMMA EndsKeeps ==
  ASSUME RecInv, NEW s \in RecShifts, RunEnds(s)
  PROVE  ShiftStep(s)
  <1> DEFINE i == recWork[s].issue
             found == PickPR(i)
             watched == IF recWork[s].pr # 0 THEN recWork[s].pr ELSE found
  <1>1. recWork[s].at = "run" BY DEF RunEnds, Busy
  <1>2. /\ recWork[s] \in WorkType /\ recNow \in Nat /\ i \in RecIssues
        /\ recWork[s].from <= recNow /\ recGH[i] \in HubType
        /\ recWork[s].pr \in 0..Len(recGH[i].prs)
    BY <1>1, AtWork
  <1>3. Len(recGH[i].prs) \in Nat BY <1>2 DEF HubType
  <1>4. watched \in 0..Len(recGH[i].prs)
    BY <1>2, PickedIsThere DEF RecInv
  <1>5. /\ recNow' = recNow /\ recGH' = recGH /\ NotReported BY DEF RunEnds
  <1>6. recGH' \in [RecIssues -> HubType] /\ Onward
    BY <1>2, <1>5, NothingMoves DEF RecInv
  <1>7. recWork \in [RecShifts -> WorkType] BY DEF RecInv, RecTypeOK
  <1>8. CASE /\ Appends(RunRecord(s, watched))
             /\ recWork' = [recWork EXCEPT ![s].at = IF watched = 0 THEN "nothing" ELSE "watch",
                                            ![s].pr = watched]
    <2> HIDE DEF watched
    <2>1. \E rec \in LineType :
             Appends(rec) /\ LineHolds(rec)' /\ (rec.kind = "issue" => rec.ts = recNow)
      BY <1>1, <1>4, <1>5, <1>6, <1>8, RunLineHolds DEF Busy
    <2>2. recFile' \in Seq(LineType) /\ recLost' \in BOOLEAN BY <2>1, AppendsOne DEF RecInv
    <2>3. recWork'[s] = [at |-> IF watched = 0 THEN "nothing" ELSE "watch",
                         issue |-> i, from |-> recWork[s].from, pr |-> watched]
      BY <1>2, <1>7, <1>8 DEF WorkType
    <2>4. recWork' = [recWork EXCEPT ![s] = recWork'[s]] BY <1>7, <1>8
    <2>5. recWork'[s] \in WorkType BY <1>2, <1>3, <1>4, <2>3 DEF WorkType
    <2>6. /\ recWork'[s].issue \in RecIssues /\ recWork'[s].from <= recNow
          /\ recWork'[s].pr <= Len(recGH'[recWork'[s].issue].prs)
          /\ recWork'[s].at = "watch" => recWork'[s].pr # 0
      BY <1>2, <1>3, <1>4, <1>5, <2>3
    <2> QED BY <1>5, <1>6, <2>1, <2>2, <2>4, <2>5, <2>6 DEF ShiftStep
  <1>9. CASE Appends(RunRecord(s, 0)) /\ Leaves(s, "gone")
    <2>1. 0 \in 0..Len(recGH[recWork[s].issue].prs) BY <1>3
    <2>2. \E rec \in LineType :
             Appends(rec) /\ LineHolds(rec)' /\ (rec.kind = "issue" => rec.ts = recNow)
      BY <1>1, <1>5, <1>6, <1>9, <2>1, RunLineHolds DEF Busy
    <2>3. recFile' \in Seq(LineType) /\ recLost' \in BOOLEAN BY <2>2, AppendsOne DEF RecInv
    <2>4. /\ recWork' = [recWork EXCEPT ![s] = recWork'[s]] /\ recWork'[s] \in WorkType
          /\ recWork'[s].at \notin {"run", "watch", "nothing"}
      BY <1>9, LeavesIt
    <2> QED BY <1>5, <1>6, <2>2, <2>3, <2>4 DEF ShiftStep
  <1> QED BY <1>8, <1>9 DEF RunEnds

(* A run is started again: on the pull request watched, or on none.        *)
LEMMA AgainKeeps ==
  ASSUME RecInv, NEW s \in RecShifts, Remediates(s) \/ RunsAgain(s)
  PROVE  ShiftStep(s)
  <1>1. recWork[s].at \in {"watch", "nothing"} BY DEF Remediates, RunsAgain, Busy
  <1>2. /\ recWork[s] \in WorkType /\ recNow \in Nat /\ recWork[s].issue \in RecIssues
        /\ recGH[recWork[s].issue] \in HubType
        /\ recWork[s].pr \in 0..Len(recGH[recWork[s].issue].prs)
    BY <1>1, AtWork
  <1>3. Len(recGH[recWork[s].issue].prs) \in Nat BY <1>2 DEF HubType
  <1>4. /\ recNow' = recNow /\ recGH' = recGH /\ recFile' = recFile /\ recLost' = recLost
        /\ recWork' = [recWork EXCEPT ![s].at = "run", ![s].from = recNow] /\ NotReported
    BY DEF Remediates, RunsAgain
  <1>5. recGH' \in [RecIssues -> HubType] /\ Onward
    BY <1>2, <1>4, NothingMoves DEF RecInv
  <1>6. recWork \in [RecShifts -> WorkType] BY DEF RecInv, RecTypeOK
  <1>7. recWork'[s] = [at |-> "run", issue |-> recWork[s].issue, from |-> recNow,
                       pr |-> recWork[s].pr]
    BY <1>2, <1>4, <1>6 DEF WorkType
  <1>8. recWork' = [recWork EXCEPT ![s] = recWork'[s]] BY <1>4, <1>6
  <1>9. recWork'[s] \in WorkType BY <1>2, <1>7 DEF WorkType
  <1>10. /\ recWork'[s].issue \in RecIssues /\ recWork'[s].from <= recNow
         /\ recWork'[s].pr <= Len(recGH'[recWork'[s].issue].prs)
         /\ recWork'[s].at = "watch" => recWork'[s].pr # 0
    BY <1>2, <1>3, <1>4, <1>7
  <1> QED BY <1>4, <1>5, <1>8, <1>9, <1>10 DEF ShiftStep, RecInv, RecTypeOK

(* An issue whose queue changes on GitHub.                                 *)
LEMMA Requeued ==
  ASSUME RecTypeOK, NEW i \in RecIssues, NEW queue \in {"open", "done", "parked"},
         recNow' = recNow, recGH' = [recGH EXCEPT ![i].queue = queue]
  PROVE  recGH' \in [RecIssues -> HubType] /\ Onward
  <1> DEFINE new == [queue |-> queue, prs |-> recGH[i].prs]
  <1>1. recGH[i] \in HubType BY DEF RecTypeOK, HubType
  <1>2. /\ [recGH[i] EXCEPT !.queue = queue] = new /\ new \in HubType
        /\ recGH[i].prs \in Seq(PRType) /\ Len(recGH[i].prs) \in Nat
    <2>1. recGH[i].prs \in Seq(PRType) BY <1>1 DEF HubType
    <2> QED BY <1>1, <2>1, HubChanges
  <1>3. recGH' = [recGH EXCEPT ![i] = [recGH[i] EXCEPT !.queue = queue]] OBVIOUS
  <1>4. new.prs = recGH[i].prs OBVIOUS
  <1> HIDE DEF new
  <1>5. recGH' = [recGH EXCEPT ![i] = new] BY <1>2, <1>3
  <1>6. /\ Len(recGH[i].prs) <= Len(new.prs)
        /\ \A n \in DOMAIN recGH[i].prs :
              recGH[i].prs[n].state = "MERGED" => new.prs[n].state = "MERGED"
    BY <1>2, <1>4
  <1> QED BY <1>2, <1>5, <1>6, OneIssueMoves

(* The issue ends, one way or another: the record, then GitHub.  A merge   *)
(* is recorded of a pull request that has merged.                          *)
LEMMA LastStepKeeps ==
  ASSUME RecInv, NEW s \in RecShifts, recWork[s].at \in {"run", "watch", "nothing"},
         recNow' = recNow, NotReported, NEW outcome \in Ended, Records(s, outcome),
         outcome = "merged" => Merges(recWork[s].issue) # {},
         NEW at \in {"idle", "gone"}, Leaves(s, at),
         \/ UNCHANGED recGH
         \/ \E queue \in {"open", "done", "parked"} :
               recGH' = [recGH EXCEPT ![recWork[s].issue].queue = queue]
  PROVE  ShiftStep(s)
  <1>1. PICK i \in RecIssues : i = recWork[s].issue BY AtWork
  <1>2. recGH' \in [RecIssues -> HubType] /\ Onward
    <2>1. recNow \in Nat BY DEF RecInv, RecTypeOK
    <2>2. CASE UNCHANGED recGH BY <2>1, <2>2, NothingMoves DEF RecInv
    <2>3. CASE \E queue \in {"open", "done", "parked"} :
                  recGH' = [recGH EXCEPT ![recWork[s].issue].queue = queue]
      BY <1>1, <2>3, Requeued DEF RecInv
    <2> QED BY <2>2, <2>3
  <1>3. outcome = "merged" => Merges(i)' # {}
    <2>1. Merges(i) # {} => Merges(i)' # {} BY <1>1, <1>2 DEF Onward
    <2> QED BY <1>1, <2>1
  <1>4. \E rec \in LineType :
           Appends(rec) /\ LineHolds(rec)' /\ (rec.kind = "issue" => rec.ts = recNow)
    BY <1>1, <1>3, IssueLineHolds DEF Records
  <1>5. recFile' \in Seq(LineType) /\ recLost' \in BOOLEAN BY <1>4, AppendsOne DEF RecInv
  <1>6. /\ recWork' = [recWork EXCEPT ![s] = recWork'[s]] /\ recWork'[s] \in WorkType
        /\ recWork'[s].at \notin {"run", "watch", "nothing"}
    BY LeavesIt
  <1> QED BY <1>2, <1>4, <1>5, <1>6 DEF ShiftStep

LEMMA SeesKeeps ==
  ASSUME RecInv, NEW s \in RecShifts, SeesTheEnd(s)
  PROVE  ShiftStep(s)
  <1> DEFINE i == recWork[s].issue
  <1>1. recWork[s].at = "watch" /\ recNow' = recNow /\ NotReported
    BY DEF SeesTheEnd, Busy
  <1>2. CASE /\ recGH[i].prs[recWork[s].pr].state = "MERGED" /\ Records(s, "merged")
             /\ recGH' = [recGH EXCEPT ![i].queue = "done"] /\ Leaves(s, "idle")
    <2>1. /\ i \in RecIssues /\ recGH[i] \in HubType
          /\ recWork[s].pr \in 0..Len(recGH[i].prs) /\ recWork[s].pr # 0
      BY <1>1, AtWork
    <2>2. recGH[i].prs \in Seq(PRType) BY <2>1 DEF HubType
    <2>3. recWork[s].pr \in Merges(i) BY <1>2, <2>1, <2>2 DEF Merges, PRsIn
    <2> QED BY <1>1, <1>2, <2>3, LastStepKeeps DEF Ended
  <1>3. CASE /\ Records(s, "closed_unmerged")
             /\ recGH' = [recGH EXCEPT ![i].queue = "parked"] /\ Leaves(s, "idle")
    BY <1>1, <1>3, LastStepKeeps DEF Ended
  <1> QED BY <1>2, <1>3 DEF SeesTheEnd

LEMMA ParksKeeps ==
  ASSUME RecInv, NEW s \in RecShifts, ParksIt(s)
  PROVE  ShiftStep(s)
  <1> DEFINE i == recWork[s].issue
             queue == IF recGH[i].queue = "open" THEN "parked" ELSE recGH[i].queue
  <1>1. /\ recWork[s].at \in {"run", "watch", "nothing"} /\ recNow' = recNow /\ NotReported
        /\ Records(s, "needs_human")
    BY DEF ParksIt
  <1>2. CASE recGH' = [recGH EXCEPT ![i].queue = queue] /\ Leaves(s, "idle")
    <2>1. recGH[i] \in HubType BY <1>1, AtWork
    <2>2. queue \in {"open", "done", "parked"} BY <2>1 DEF HubType
    <2> HIDE DEF queue
    <2> QED BY <1>1, <1>2, <2>2, LastStepKeeps DEF Ended
  <1>3. CASE UNCHANGED recGH /\ Leaves(s, "gone")
    BY <1>1, <1>3, LastStepKeeps DEF Ended
  <1> QED BY <1>2, <1>3 DEF ParksIt

LEMMA ClosesKeeps ==
  ASSUME RecInv, NEW s \in RecShifts, ClosesWithNoChange(s)
  PROVE  ShiftStep(s)
  <1>1. /\ recWork[s].at \in {"run", "watch", "nothing"} /\ recNow' = recNow /\ NotReported
        /\ Records(s, "closed_no_change") /\ Leaves(s, "idle")
        /\ recGH' = [recGH EXCEPT ![recWork[s].issue].queue = "done"]
    BY DEF ClosesWithNoChange, Busy
  <1> QED BY <1>1, LastStepKeeps DEF Ended

LEMMA ShiftKilledKeeps ==
  ASSUME RecInv, NEW s \in RecShifts, ShiftKilled(s)
  PROVE  ShiftStep(s)
  <1>1. /\ recWork' = [recWork EXCEPT ![s] = recWork'[s]] /\ recWork'[s] \in WorkType
        /\ recWork'[s].at \notin {"run", "watch", "nothing"}
    BY LeavesIt DEF ShiftKilled
  <1>2. recGH' \in [RecIssues -> HubType] /\ Onward
    <2>1. recNow \in Nat /\ recNow' = recNow BY DEF RecInv, RecTypeOK, ShiftKilled
    <2> QED BY <2>1, NothingMoves DEF RecInv, ShiftKilled
  <1> QED BY <1>1, <1>2 DEF ShiftStep, ShiftKilled, RecInv, RecTypeOK

-----------------------------------------------------------------------------
(* The steps of people, of the clock and of the reports.                   *)

LEMMA RecInitInv == RecInit => RecInv
  <1> SUFFICES ASSUME RecInit PROVE RecInv OBVIOUS
  <1> USE DEF RecInit, NotStarted, NoReport
  <1>1. RecTypeOK
    <2>1. \A S : <<>> \in Seq(S) OBVIOUS
    <2>2. recGH \in [RecIssues -> HubType] BY <2>1 DEF HubType
    <2>3. recWork \in [RecShifts -> WorkType] BY DEF WorkType
    <2>4. recFile \in Seq(LineType) BY <2>1
    <2>5. recNow \in Nat \ {0} /\ recReport.at = "none" OBVIOUS
    <2>6. recLost \in BOOLEAN BY Zenon
    <2> HIDE DEF RecInit, NotStarted, NoReport
    <2> QED BY <2>2, <2>3, <2>4, <2>5, <2>6 DEF RecTypeOK, HubType
  <1>2. LinesHold /\ InOrder BY DEF LinesHold, InOrder
  <1>3. WorkInv BY DEF WorkInv
  <1>4. ReportInv BY DEF ReportInv, AReport
  <1> QED BY <1>1, <1>2, <1>3, <1>4 DEF RecInv

(* What a report makes of the file stays as long as the file does, and     *)
(* what it makes of GitHub as long as that does too.                       *)
LEMMA SameFile ==
  ASSUME UNCHANGED recFile, NEW shift
  PROVE  /\ RecordsOf(shift)' = RecordsOf(shift) /\ Rows(shift)' = Rows(shift)
         /\ LastShift(RecordsOf(0))' = LastShift(RecordsOf(0)) /\ ParkReasons' = ParkReasons
  BY DEF Rows, RollUp, RecordsOf, Parses, SameShift, DedupeIssues, Terminal, Latest, Lines,
         FirstRun, LastPR, LastShift, Written, ParkReasons

LEMMA SameAnswers ==
  ASSUME UNCHANGED <<recFile, recGH>>
  PROVE  Answers' = Answers
  <1>1. Rows(0)' = Rows(0) BY SameFile
  <1>2. ASSUME NEW row PROVE Resolved(row)' = Resolved(row)
    BY DEF Resolved, Verdict, Speakers, Speaks
  <1> QED BY <1>1, <1>2 DEF Answers

(* What is done on GitHub alone, before its answer is in.                  *)
LEMMA HubKeeps ==
  ASSUME RecInv, UNCHANGED <<recNow, recFile, recWork, recLost, recReport>>,
         recReport.at \in {"none", "read"}, recGH' \in [RecIssues -> HubType], Onward
  PROVE  RecInv'
  <1>1. RecTypeOK' BY DEF RecInv, RecTypeOK, HubType
  <1>2. recNow' \in Nat BY DEF RecInv, RecTypeOK
  <1>3. LinesHold' /\ InOrder' BY <1>2, FileKeeps DEF RecInv
  <1>4. WorkInv'
    <2> SUFFICES ASSUME NEW s \in RecShifts, recWork[s].at \in {"run", "watch", "nothing"}
                 PROVE  /\ recWork[s].issue \in RecIssues /\ recWork[s].from <= recNow
                        /\ recWork[s].pr <= Len(recGH'[recWork[s].issue].prs)
                        /\ recWork[s].at = "watch" => recWork[s].pr # 0
      BY DEF WorkInv
    <2>1. /\ recWork[s].issue \in RecIssues /\ recGH[recWork[s].issue] \in HubType
          /\ recWork[s].pr \in 0..Len(recGH[recWork[s].issue].prs)
      BY AtWork
    <2>2. /\ Len(recGH[recWork[s].issue].prs) <= Len(recGH'[recWork[s].issue].prs)
          /\ Len(recGH[recWork[s].issue].prs) \in Nat
          /\ Len(recGH'[recWork[s].issue].prs) \in Nat
      BY <2>1, <1>1 DEF Onward, HubType
    <2>3. recWork[s].pr <= Len(recGH'[recWork[s].issue].prs) BY <2>1, <2>2
    <2> QED BY <2>1, <2>3, AtWork
  <1>5. ReportInv'
    <2>1. Rows(0)' = Rows(0) BY SameFile
    <2> QED BY <2>1 DEF RecInv, ReportInv, AReport
  <1> QED BY <1>1, <1>3, <1>4, <1>5 DEF RecInv

LEMMA PersonEndsKeeps ==
  ASSUME RecInv, PersonEndsPR
  PROVE  RecInv'
  <1>a. PICK i \in RecIssues : \E n \in PRsIn(i, "OPEN"), state \in {"MERGED", "CLOSED"} :
          recGH' = [recGH EXCEPT ![i] =
                      [queue |-> IF state = "MERGED" THEN "done" ELSE recGH[i].queue,
                       prs |-> [recGH[i].prs EXCEPT ![n] = [state |-> state, ended |-> recNow]]]]
    BY DEF PersonEndsPR
  <1>1. PICK n \in PRsIn(i, "OPEN"), state \in {"MERGED", "CLOSED"} :
          recGH' = [recGH EXCEPT ![i] =
                      [queue |-> IF state = "MERGED" THEN "done" ELSE recGH[i].queue,
                       prs |-> [recGH[i].prs EXCEPT ![n] = [state |-> state, ended |-> recNow]]]]
    BY <1>a
  <1> DEFINE end == [state |-> state, ended |-> recNow]
             prs == [recGH[i].prs EXCEPT ![n] = end]
             queue == IF state = "MERGED" THEN "done" ELSE recGH[i].queue
             new == [queue |-> queue, prs |-> prs]
  <1>2. /\ recGH[i].prs \in Seq(PRType) /\ Len(recGH[i].prs) \in Nat
        /\ recGH[i].queue \in {"open", "done", "parked"} /\ recNow \in Nat
        /\ DOMAIN recGH[i].prs = 1..Len(recGH[i].prs)
    BY DEF RecInv, RecTypeOK
  <1>3. n \in DOMAIN recGH[i].prs /\ recGH[i].prs[n].state = "OPEN" BY DEF PRsIn
  <1>4. end \in PRType BY <1>2 DEF PRType
  <1>5. prs \in Seq(PRType) /\ Len(prs) = Len(recGH[i].prs)
    <2> HIDE DEF end
    <2> QED BY <1>2, <1>3, <1>4, ExceptSeq
  <1>6. \A m \in DOMAIN recGH[i].prs :
           recGH[i].prs[m].state = "MERGED" => prs[m].state = "MERGED"
    BY <1>2, <1>3
  <1>7. new \in HubType /\ Len(recGH[i].prs) <= Len(new.prs) /\ new.prs = prs
    <2> HIDE DEF prs
    <2> QED BY <1>2, <1>5 DEF HubType
  <1>8. recGH' = [recGH EXCEPT ![i] = new] BY <1>1
  <1> HIDE DEF new, prs, end
  <1>9. recNow' = recNow BY DEF PersonEndsPR
  <1>10. recGH' \in [RecIssues -> HubType] /\ Onward
    BY <1>6, <1>7, <1>8, <1>9, OneIssueMoves DEF RecInv
  <1> QED BY <1>10, HubKeeps DEF PersonEndsPR

LEMMA PersonOpensKeeps ==
  ASSUME RecInv, PersonOpensPR
  PROVE  RecInv'
  <1>1. PICK i \in RecIssues : recGH' = [recGH EXCEPT ![i].prs = Append(@, OpenPR)]
    BY DEF PersonOpensPR, OpenPR
  <1>2. recGH' \in [RecIssues -> HubType] /\ Onward
    BY <1>1, OneMorePR DEF RecInv, PersonOpensPR
  <1> QED BY <1>2, HubKeeps DEF PersonOpensPR, NotReported

LEMMA PersonUnparksKeeps ==
  ASSUME RecInv, PersonUnparks
  PROVE  RecInv'
  <1>1. PICK i \in RecIssues : recGH' = [recGH EXCEPT ![i].queue = "open"]
    BY DEF PersonUnparks
  <1>2. recGH' \in [RecIssues -> HubType] /\ Onward
    BY <1>1, Requeued DEF RecInv, PersonUnparks
  <1> QED BY <1>2, HubKeeps DEF PersonUnparks, NotReported

LEMMA RecTickKeeps ==
  ASSUME RecInv, RecTick
  PROVE  RecInv'
  <1>1. recNow \in Nat \ {0} /\ recNow' = recNow + 1 BY DEF RecTick, RecInv, RecTypeOK
  <1>2. RecTypeOK' BY <1>1 DEF RecTick, RecInv, RecTypeOK, NotReported
  <1>3. recGH' \in [RecIssues -> HubType] /\ Onward
    BY <1>1, NothingMoves DEF RecInv, RecTick
  <1>4. LinesHold' /\ InOrder' BY <1>1, <1>3, FileKeeps DEF RecInv, RecTick
  <1>5. WorkInv'
    <2>1. recWork \in [RecShifts -> WorkType] BY DEF RecInv, RecTypeOK
    <2> QED BY <1>1, <2>1 DEF WorkInv, RecInv, RecTick, WorkType
  <1>6. ReportInv' BY DEF RecInv, RecTick, NotReported, ReportInv, AReport
  <1> QED BY <1>2, <1>4, <1>5, <1>6 DEF RecInv

(* Reading changes nothing that was read.                                  *)
LEMMA ReadingKeeps ==
  ASSUME RecInv, StatsReads \/ StatusReadsRunData \/ StatsAsks \/ UNCHANGED recVars
  PROVE  RecInv'
  <1>1. UNCHANGED <<recNow, recFile, recGH, recWork, recLost>>
    BY DEF StatsReads, StatusReadsRunData, StatsAsks, recVars
  <1>2. LinesHold' /\ InOrder' /\ WorkInv'
    <2>1. LinesHold' BY <1>1 DEF RecInv, LinesHold, LineHolds, Merges, PRsIn
    <2>2. InOrder' /\ WorkInv' BY <1>1 DEF RecInv, InOrder, WorkInv
    <2> QED BY <2>1, <2>2
  <1>3. /\ \A shift : Rows(shift)' = Rows(shift)
        /\ LastShift(RecordsOf(0))' = LastShift(RecordsOf(0)) /\ ParkReasons' = ParkReasons
        /\ Answers' = Answers
    BY <1>1, SameFile, SameAnswers
  <1>4. recReport'.at \in {"none", "read", "made", "status"} /\ ReportInv'
    <2>1. CASE StatsReads
      <3>1. PICK shift \in RecShifts \cup {0, LastShift(RecordsOf(0))} :
              recReport' = [NoReport EXCEPT !.at = IF shift = 0 THEN "read" ELSE "made",
                   !.shift = shift, !.rows = Rows(shift), !.upTo = Len(recFile)]
        BY <2>1 DEF StatsReads, Rows
      <3>2. recReport' = [at |-> IF shift = 0 THEN "read" ELSE "made", shift |-> shift,
                          rows |-> Rows(shift), upTo |-> Len(recFile), answered |-> FALSE,
                          parks |-> {}]
        BY <3>1 DEF NoReport
      <3>3. Rows(shift)' = Rows(shift) BY <1>3
      <3> QED BY <1>1, <1>3, <3>2, <3>3 DEF ReportInv, AReport
    <2>2. CASE StatusReadsRunData
      <3> DEFINE shift == LastShift(RecordsOf(0))
      <3>1. recReport' = [NoReport EXCEPT !.at = "status", !.shift = shift,
                   !.rows = Rows(shift), !.upTo = Len(recFile), !.parks = ParkReasons]
        BY <2>2 DEF StatusReadsRunData, Rows
      <3>2. recReport' = [at |-> "status", shift |-> shift, rows |-> Rows(shift),
                          upTo |-> Len(recFile), answered |-> FALSE, parks |-> ParkReasons]
        BY <3>1 DEF NoReport
      <3>3. PICK last : last = shift OBVIOUS
      <3>4. Rows(last)' = Rows(last) BY <1>3
      <3>5. recReport'.rows = Rows(last) /\ recReport'.shift = last BY <3>2, <3>3
      <3>6. recReport'.rows = Rows(recReport.shift)' BY <3>4, <3>5
      <3> QED BY <1>1, <1>3, <3>2, <3>6 DEF ReportInv, AReport
    <2>3. CASE StatsAsks
      <3>1. PICK answered \in BOOLEAN :
              recReport' = [recReport EXCEPT !.at = "made", !.answered = answered,
                 !.rows = IF answered THEN {Resolved(row) : row \in recReport.rows}
                          ELSE recReport.rows]
        BY <2>3 DEF StatsAsks
      <3>2. recReport.at = "read" BY <2>3 DEF StatsAsks
      <3>3. recReport.shift = 0 /\ recReport.rows = Rows(0) /\ recReport.upTo = Len(recFile)
            /\ recReport = AReport
        BY <3>2 DEF RecInv, ReportInv
      <3>4. recReport' = [at |-> "made", shift |-> 0, upTo |-> Len(recFile),
                          rows |-> IF answered THEN Answers ELSE Rows(0),
                          answered |-> answered, parks |-> recReport.parks]
        BY <3>1, <3>3 DEF AReport, Answers
      <3> QED BY <1>1, <1>3, <3>4 DEF ReportInv, AReport
    <2>4. CASE UNCHANGED recVars
      <3>1. recReport' = recReport /\ Rows(recReport.shift)' = Rows(recReport.shift)
        <4>1. PICK shift : shift = recReport.shift OBVIOUS
        <4>2. Rows(shift)' = Rows(shift) BY <1>3
        <4>3. recReport' = recReport BY <2>4 DEF recVars
        <4> QED BY <4>1, <4>2, <4>3
      <3> QED BY <1>1, <1>3, <3>1 DEF recVars, RecInv, ReportInv, RecTypeOK, AReport
    <2> QED BY <2>1, <2>2, <2>3, <2>4
  <1>5. RecTypeOK' BY <1>1, <1>4 DEF RecInv, RecTypeOK
  <1> QED BY <1>2, <1>4, <1>5 DEF RecInv

LEMMA RecNextInv ==
  ASSUME RecInv, [RecNext]_recVars
  PROVE  RecInv'
  <1>1. ASSUME NEW s \in RecShifts,
               \/ \E i \in RecIssues : ShiftPicks(s, i)
               \/ RunOpensPR(s) \/ RunEnds(s) \/ Remediates(s) \/ SeesTheEnd(s)
               \/ ParksIt(s) \/ ClosesWithNoChange(s) \/ RunsAgain(s) \/ ShiftKilled(s)
        PROVE  RecInv'
    <2>1. ShiftStep(s)
      BY <1>1, PicksKeeps, OpensKeeps, EndsKeeps, AgainKeeps, SeesKeeps, ParksKeeps,
         ClosesKeeps, ShiftKilledKeeps
    <2> QED BY <2>1, ShiftKeeps
  <1>2. CASE PersonEndsPR BY <1>2, PersonEndsKeeps
  <1>3. CASE PersonOpensPR BY <1>3, PersonOpensKeeps
  <1>4. CASE PersonUnparks BY <1>4, PersonUnparksKeeps
  <1>5. CASE RecTick BY <1>5, RecTickKeeps
  <1>6. CASE StatsReads \/ StatusReadsRunData \/ StatsAsks \/ UNCHANGED recVars
    BY <1>6, ReadingKeeps
  <1> QED BY <1>1, <1>2, <1>3, <1>4, <1>5, <1>6 DEF RecNext

THEOREM RecInductive == RecSpec => []RecInv
  <1>1. RecInv /\ [RecNext]_recVars => RecInv' BY RecNextInv
  <1> QED BY <1>1, RecInitInv, PTL DEF RecSpec

(* Every variable of the run data keeps its type, whatever is lost of the  *)
(* file and whoever ends a pull request when no shift looks.               *)
THEOREM RecTypeCorrect == RecSpec => []RecTypeOK
  <1>1. RecInv => RecTypeOK BY DEF RecInv
  <1> QED BY <1>1, RecInductive, PTL

-----------------------------------------------------------------------------
(* What the file says, read for some shift.                                *)

LEMMA SomeLines ==
  ASSUME RecTypeOK, NEW ks \in SUBSET DOMAIN recFile
  PROVE  ks \in SUBSET Nat /\ IsFiniteSet(ks)
  <1>1. Len(recFile) \in Nat /\ DOMAIN recFile = 1..Len(recFile) BY LineTypes
  <1>2. IsFiniteSet(1..Len(recFile)) BY <1>1, FS_Interval
  <1> QED BY <1>1, <1>2, FS_Subset

(* Of the lines with the latest time, the last written: issue records      *)
(* being in order, it is the last of them all.                             *)
LEMMA LatestIsNewest ==
  ASSUME RecInv, NEW ks \in SUBSET DOMAIN recFile, NEW i \in RecIssues
  PROVE  LET ends == Lines(ks, "issue", i)
         IN  /\ DedupeIssues(ks, i) = Terminal(Newest(ends))
             /\ ends # {} => Newest(ends) \in ends /\ \A k \in ends : k <= Newest(ends)
  <1> DEFINE ends == Lines(ks, "issue", i)
  <1>1. ends \in SUBSET DOMAIN recFile /\ \A k \in ends : recFile[k].kind = "issue"
    BY DEF Lines
  <1>2. ends \in SUBSET Nat /\ IsFiniteSet(ends) BY <1>1, SomeLines DEF RecInv
  <1>3. CASE ends = {}
    <2>1. Latest(ends) = {} BY <1>3 DEF Latest
    <2> HIDE DEF ends
    <2> QED BY <1>3, <2>1 DEF DedupeIssues, ends
  <1>4. CASE ends # {}
    <2>1. PICK m : m = Newest(ends) OBVIOUS
    <2>2. m \in ends /\ \A k \in ends : k <= m
      <3> HIDE DEF ends
      <3> QED BY <1>2, <1>4, <2>1, NewestIsLast
    <2>3. \A k \in ends : recFile[k].ts \in Nat
      BY <1>1, LineTypes DEF RecInv
    <2>4. \A k \in ends : recFile[k].ts <= recFile[m].ts
      <3> SUFFICES ASSUME NEW k \in ends PROVE recFile[k].ts <= recFile[m].ts OBVIOUS
      <3>1. k \in Nat /\ m \in Nat /\ k <= m BY <1>2, <2>2
      <3>2. CASE k = m BY <2>3, <3>2
      <3>3. CASE k < m BY <1>1, <2>2, <3>3 DEF RecInv, InOrder
      <3> QED BY <3>1, <3>2, <3>3
    <2>5. m \in Latest(ends) /\ Latest(ends) \subseteq ends BY <2>2, <2>4 DEF Latest
    <2>6. Newest(Latest(ends)) = m
      <3> HIDE DEF ends
      <3>1. Latest(ends) \in SUBSET Nat /\ IsFiniteSet(Latest(ends)) /\ Latest(ends) # {}
        BY <1>2, <2>5, FS_Subset
      <3>2. /\ Newest(Latest(ends)) \in Latest(ends)
            /\ \A k \in Latest(ends) : k <= Newest(Latest(ends))
        BY <3>1, NewestIsLast
      <3>3. Newest(Latest(ends)) <= m /\ m <= Newest(Latest(ends)) BY <2>2, <2>5, <3>2
      <3> QED BY <3>1, <3>2, <3>3, <1>2, <2>2
    <2> HIDE DEF ends
    <2> QED BY <2>1, <2>2, <2>6 DEF DedupeIssues, ends
  <1> QED BY <1>3, <1>4

(* Some line is as late as any other, by whatever time a line has.         *)
LEMMA LatestOf ==
  ASSUME RecTypeOK, NEW ks \in SUBSET DOMAIN recFile, ks # {}, NEW time \in [ks -> Nat]
  PROVE  \E k \in ks : \A n \in ks : time[n] <= time[k]
  <1>1. IsFiniteSet(ks) BY SomeLines
  <1> DEFINE times == {time[k] : k \in ks}
  <1>2. IsFiniteSet(times)
    <2>1. time \in Surjection(ks, times) BY DEF Surjection
    <2> HIDE DEF times
    <2> QED BY <1>1, <2>1, FS_Surjection
  <1>3. times \in SUBSET Int /\ times # {} OBVIOUS
  <1>4. PICK t \in times : \A u \in times : u <= t
    <2> HIDE DEF times
    <2> QED BY <1>2, <1>3, Largest
  <1> QED BY <1>4

(* The last pull request is one a run recorded, if any did.                *)
LEMMA LastPRIsRecorded ==
  ASSUME RecTypeOK, NEW ks \in SUBSET DOMAIN recFile, NEW i
  PROVE  LET found == {k \in Lines(ks, "run", i) : recFile[k].pr # 0}
         IN  IF found = {} THEN LastPR(ks, i) = 0
             ELSE \E k \in found : LastPR(ks, i) = recFile[k].pr
  <1> DEFINE found == {k \in Lines(ks, "run", i) : recFile[k].pr # 0}
  <1>1. found \in SUBSET DOMAIN recFile /\ \A k \in found : recFile[k].kind = "run"
    BY DEF Lines
  <1>2. \A k \in found : recFile[k].ts \in Nat BY <1>1, LineTypes
  <1>3. CASE found # {}
    <2>1. \E k \in found : \A n \in found : recFile[n].ts <= recFile[k].ts
      <3> DEFINE time == [k \in found |-> recFile[k].ts]
      <3>1. time \in [found -> Nat] /\ \A k \in found : time[k] = recFile[k].ts BY <1>2
      <3> HIDE DEF found, time
      <3>2. \E k \in found : \A n \in found : time[n] <= time[k]
        BY <1>1, <1>3, <3>1, LatestOf
      <3> QED BY <3>1, <3>2
    <2>2. Latest(found) # {} /\ Latest(found) \subseteq found BY <2>1 DEF Latest
    <2>3. Newest(Latest(found)) \in found
      <3> HIDE DEF found
      <3>1. Latest(found) \in SUBSET Nat /\ IsFiniteSet(Latest(found))
        BY <1>1, <2>2, SomeLines, FS_Subset
      <3> QED BY <2>2, <3>1, NewestIsLast
    <2> QED BY <1>3, <2>3 DEF LastPR
  <1>4. CASE found = {} BY <1>4 DEF LastPR
  <1> QED BY <1>3, <1>4

(* No run of the issue started before the first.                           *)
LEMMA FirstIsFirst ==
  ASSUME RecTypeOK, NEW ks \in SUBSET DOMAIN recFile, NEW i, NEW k \in Lines(ks, "run", i)
  PROVE  FirstRun(ks, i) \in Nat /\ FirstRun(ks, i) <= recFile[k].ts
  <1> DEFINE times == {recFile[n].ts : n \in Lines(ks, "run", i)}
  <1>1. \A n \in Lines(ks, "run", i) : n \in DOMAIN recFile /\ recFile[n].kind = "run"
    BY DEF Lines
  <1>2. times \in SUBSET Nat /\ recFile[k].ts \in times BY <1>1, LineTypes
  <1>3. Oldest(times) \in times /\ \A t \in times : Oldest(times) <= t
    <2> HIDE DEF times
    <2> QED BY <1>2, OldestIsFirst
  <1>4. FirstRun(ks, i) = Oldest(times) BY DEF FirstRun
  <1> HIDE DEF times
  <1> QED BY <1>2, <1>3, <1>4

(* A row, from the lines it sums up.                                       *)
LEMMA RowIs ==
  ASSUME RecInv, NEW shift, NEW row \in Rows(shift)
  PROVE  LET ks == RecordsOf(shift)
             i == row.issue
         IN  /\ i \in RecIssues /\ ks \in SUBSET DOMAIN recFile
             /\ row.end = Terminal(Newest(Lines(ks, "issue", i)))
             /\ row.first = FirstRun(ks, i) /\ row.last = LastPR(ks, i)
             /\ row = [issue |-> i, end |-> row.end, first |-> row.first,
                       last |-> row.last, resolved |-> FALSE]
             /\ row.end = [ts |-> row.end.ts, outcome |-> row.end.outcome]
             /\ \E k \in ks : recFile[k].issue = i
  <1> DEFINE ks == RecordsOf(shift)
  <1>1. PICK k \in ks : row = [issue |-> recFile[k].issue,
             end |-> DedupeIssues(ks, recFile[k].issue),
             first |-> FirstRun(ks, recFile[k].issue), last |-> LastPR(ks, recFile[k].issue),
             resolved |-> FALSE]
    BY DEF Rows, RollUp
  <1>2. ks \in SUBSET DOMAIN recFile BY DEF RecordsOf
  <1>3. recFile[k].issue \in RecIssues
    <2>1. recFile[k].kind \in {"run", "issue"} BY DEF RecordsOf, Parses
    <2> QED BY <1>2, <2>1, LineTypes DEF RecInv
  <1>4. DedupeIssues(ks, recFile[k].issue)
           = Terminal(Newest(Lines(ks, "issue", recFile[k].issue)))
    BY <1>2, <1>3, LatestIsNewest
  <1>5. \A n : Terminal(n) = [ts |-> Terminal(n).ts, outcome |-> Terminal(n).outcome]
    <2> SUFFICES ASSUME NEW n
                 PROVE  Terminal(n) = [ts |-> Terminal(n).ts, outcome |-> Terminal(n).outcome]
      OBVIOUS
    <2>1. CASE n = 0 BY <2>1 DEF Terminal, NoRecord
    <2>2. CASE n # 0 BY <2>2 DEF Terminal
    <2> QED BY <2>1, <2>2
  <1> HIDE DEF ks
  <1> QED BY <1>1, <1>2, <1>3, <1>4, <1>5 DEF ks

-----------------------------------------------------------------------------
(* What a report says.                                                     *)

(* The number of the last pull request is that of one there is, or 0.      *)
LEMMA LastPRIsThere ==
  ASSUME RecInv, NEW row \in Rows(0)
  PROVE  row.last \in 0..Len(recGH[row.issue].prs)
  <1> DEFINE ks == RecordsOf(0)
             i == row.issue
             found == {k \in Lines(ks, "run", i) : recFile[k].pr # 0}
  <1>1. i \in RecIssues /\ ks \in SUBSET DOMAIN recFile /\ row.last = LastPR(ks, i)
    BY RowIs
  <1>2. Len(recGH[i].prs) \in Nat BY <1>1 DEF RecInv, RecTypeOK
  <1>3. IF found = {} THEN LastPR(ks, i) = 0
        ELSE \E k \in found : LastPR(ks, i) = recFile[k].pr
    <2> HIDE DEF ks, i
    <2> QED BY <1>1, LastPRIsRecorded DEF RecInv
  <1>4. ASSUME NEW k \in found PROVE recFile[k].pr \in 0..Len(recGH[i].prs)
    <2>1. k \in DOMAIN recFile /\ recFile[k].kind = "run" /\ recFile[k].issue = i
      BY <1>1 DEF Lines
    <2>2. recFile[k].pr \in Nat BY <2>1, LineTypes DEF RecInv
    <2>3. LineHolds(recFile[k]) BY <2>1 DEF RecInv, LinesHold
    <2> QED BY <1>2, <2>1, <2>2, <2>3 DEF LineHolds
  <1> HIDE DEF found, ks, i
  <1>5. row.last \in 0..Len(recGH[i].prs) BY <1>1, <1>2, <1>3, <1>4
  <1> QED BY <1>5 DEF i

(* How an issue ended, if it did, is in a line about it.                   *)
LEMMA EndIsRecorded ==
  ASSUME RecInv, NEW shift, NEW row \in Rows(shift)
  PROVE  LET ends == Lines(RecordsOf(shift), "issue", row.issue)
             end == Newest(ends)
         IN  /\ IF ends = {} THEN row.end = NoRecord
                ELSE /\ end \in ends /\ \A k \in ends : k <= end
                     /\ row.end = [ts |-> recFile[end].ts, outcome |-> recFile[end].outcome]
             /\ row.end.outcome = IF ends = {} THEN "in flight" ELSE recFile[end].outcome
  <1> DEFINE ks == RecordsOf(shift)
             i == row.issue
             ends == Lines(ks, "issue", i)
  <1>1. i \in RecIssues /\ ks \in SUBSET DOMAIN recFile /\ row.end = Terminal(Newest(ends))
    BY RowIs
  <1>2. ends # {} => Newest(ends) \in ends /\ \A k \in ends : k <= Newest(ends)
    <2> HIDE DEF ks, i
    <2> QED BY <1>1, LatestIsNewest
  <1>3. \A k \in ends : k # 0
    <2>1. 0 \notin DOMAIN recFile BY LineTypes DEF RecInv
    <2> QED BY <1>1, <2>1 DEF Lines
  <1>4. ends = {} => Newest(ends) = 0 BY DEF Newest
  <1>5. NoRecord.outcome = "in flight" BY DEF NoRecord
  <1> DEFINE end == Newest(ends)
  <1>6. CASE ends = {}
    <2>1. row.end = NoRecord BY <1>1, <1>4, <1>6 DEF Terminal
    <2>2. row.end.outcome = "in flight" BY <1>5, <2>1
    <2> HIDE DEF ends, end
    <2>3. row.end.outcome = IF ends = {} THEN "in flight" ELSE recFile[end].outcome
      BY <1>6, <2>2, Zenon
    <2> QED BY <1>6, <2>1, <2>3, Zenon DEF ends, end
  <1>7. CASE ends # {}
    <2>1. end \in ends /\ (\A k \in ends : k <= end) /\ end # 0 BY <1>2, <1>3, <1>7
    <2> HIDE DEF ends
    <2>2. row.end = [ts |-> recFile[end].ts, outcome |-> recFile[end].outcome]
      BY <1>1, <2>1 DEF Terminal
    <2>3. row.end.outcome = recFile[end].outcome BY <2>2
    <2> HIDE DEF end
    <2>4. row.end.outcome = IF ends = {} THEN "in flight" ELSE recFile[end].outcome
      BY <1>7, <2>3, Zenon
    <2> QED BY <1>7, <2>1, <2>2, <2>4, Zenon DEF ends, end
  <1> QED BY <1>6, <1>7

(* What has merged on GitHub speaks for the row, unless it merged before   *)
(* the end the row has, or another pull request hides it.                  *)
LEMMA MergeSpeaks ==
  ASSUME RecInv, NEW row \in Rows(0), NEW n \in Merges(row.issue),
         n \in {row.last, Len(recGH[row.issue].prs)},
         recGH[row.issue].prs[n].ended > SettledSince(row)
  PROVE  Verdict(row) = "merged"
  <1>1. row.issue \in RecIssues BY RowIs
  <1>2. n \in DOMAIN recGH[row.issue].prs /\ recGH[row.issue].prs[n].state = "MERGED"
    BY DEF Merges, PRsIn
  <1>3. n # 0
    <2>1. recGH[row.issue].prs \in Seq(PRType) BY <1>1 DEF RecInv, RecTypeOK
    <2> QED BY <1>2, <2>1
  <1>4. n \in Speakers(row) BY <1>3 DEF Speakers, Speaks
  <1> QED BY <1>2, <1>4 DEF Verdict

(* A verdict of merged is of a pull request that has.                      *)
LEMMA VerdictIsOfAMerge ==
  ASSUME RecInv, NEW row \in Rows(0), Verdict(row) = "merged"
  PROVE  Merges(row.issue) # {}
  <1>1. row.issue \in RecIssues /\ row.last \in 0..Len(recGH[row.issue].prs)
    BY RowIs, LastPRIsThere
  <1>2. PICK n \in Speakers(row) : recGH[row.issue].prs[n].state = "MERGED"
    BY DEF Verdict
  <1>3. recGH[row.issue].prs \in Seq(PRType) BY <1>1 DEF RecInv, RecTypeOK
  <1>4. n \in DOMAIN recGH[row.issue].prs
    <2>1. n \in {row.last, Len(recGH[row.issue].prs)} /\ n # 0
      BY <1>2 DEF Speakers, Speaks
    <2> QED BY <1>1, <1>3, <2>1
  <1> QED BY <1>2, <1>4 DEF Merges, PRsIn

LEMMA MergesEnded ==
  ASSUME RecTypeOK, NEW i \in RecIssues, NEW n \in Merges(i)
  PROVE  recGH[i].prs[n].ended \in Nat
  <1>1. recGH[i].prs \in Seq(PRType) /\ n \in DOMAIN recGH[i].prs
    BY DEF RecTypeOK, Merges, PRsIn
  <1>2. recGH[i].prs[n] \in PRType BY <1>1
  <1> QED BY <1>2 DEF PRType

(* A row that GitHub was asked about and that still has no end, or a park, *)
(* is the row as it was read, and nothing GitHub has said merged.          *)
LEMMA StaysUnsettled ==
  ASSUME RecInv, NEW old \in Rows(0), Unsettled(Resolved(old))
  PROVE  Resolved(old) = old /\ Verdict(old) # "merged" /\ Unsettled(old)
  <1>1. CASE ~(Unsettled(old) /\ Verdict(old) # "none")
    BY <1>1 DEF Resolved, Verdict
  <1>2. CASE Unsettled(old) /\ Verdict(old) # "none"
    <2>1. Resolved(old).end.outcome = Verdict(old)
      <3>1. PICK verdict : verdict = Verdict(old) OBVIOUS
      <3>2. old = [issue |-> old.issue, end |-> old.end, first |-> old.first,
                   last |-> old.last, resolved |-> FALSE]
        BY RowIs
      <3>3. old.end = [ts |-> old.end.ts, outcome |-> old.end.outcome] BY RowIs
      <3>4. Resolved(old) = [old EXCEPT !.end.outcome = verdict, !.resolved = TRUE]
        BY <1>2, <3>1 DEF Resolved
      <3>5. [old EXCEPT !.end.outcome = verdict].end.outcome = verdict BY <3>2, <3>3
      <3> QED BY <3>1, <3>2, <3>3, <3>4, <3>5
    <2>2. Verdict(old) \in {"merged", "closed_unmerged"} BY <1>2 DEF Verdict
    <2> QED BY <2>1, <2>2 DEF Unsettled
  <1> QED BY <1>1, <1>2

LEMMA LinesOnAre ==
  ASSUME RecInv, recReport.at # "none", NEW i, NEW kind \in {"run", "issue"}
  PROVE  LinesOn(i, kind) = {recFile[k] : k \in Lines(RecordsOf(0), kind, i)}
  <1>1. recReport.upTo = Len(recFile) BY DEF RecInv, ReportInv
  <1>2. DOMAIN recFile = 1..Len(recFile) BY LineTypes DEF RecInv
  <1> QED BY <1>1, <1>2 DEF LinesOn, Lines, RecordsOf, Parses, SameShift

(* A merge that a newer pull request hides, and what the runs recorded.    *)
HiddenIn(i, n) ==
    n < Len(recGH[i].prs) /\ {run.pr : run \in LinesOn(i, "run")} \ {0} # {n}

(* A merge that neither a newer pull request nor what the runs recorded    *)
(* hides is the one asked about.                                           *)
LEMMA NotHidden ==
  ASSUME RecInv, recReport.at # "none", NEW row \in Rows(0), NEW n \in Merges(row.issue),
         ~HiddenIn(row.issue, n)
  PROVE  n \in {row.last, Len(recGH[row.issue].prs)}
  <1> DEFINE i == row.issue
             ks == RecordsOf(0)
             found == {k \in Lines(ks, "run", i) : recFile[k].pr # 0}
  <1>1. i \in RecIssues /\ ks \in SUBSET DOMAIN recFile /\ row.last = LastPR(ks, i)
    BY RowIs
  <1>2. n \in 1..Len(recGH[i].prs) /\ Len(recGH[i].prs) \in Nat
    <2>1. recGH[i].prs \in Seq(PRType) BY <1>1 DEF RecInv, RecTypeOK
    <2> QED BY <2>1 DEF Merges, PRsIn
  <1>3. CASE n = Len(recGH[i].prs) BY <1>3
  <1>4. CASE {run.pr : run \in LinesOn(i, "run")} \ {0} = {n}
    <2>1. LinesOn(i, "run") = {recFile[k] : k \in Lines(ks, "run", i)} BY LinesOnAre
    <2>2. {recFile[k].pr : k \in found} = {n}
      <3>1. {run.pr : run \in LinesOn(i, "run")} = {recFile[k].pr : k \in Lines(ks, "run", i)}
        BY <2>1
      <3> QED BY <1>4, <3>1
    <2>3. IF found = {} THEN LastPR(ks, i) = 0
          ELSE \E k \in found : LastPR(ks, i) = recFile[k].pr
      <3> HIDE DEF ks, i
      <3> QED BY <1>1, LastPRIsRecorded DEF RecInv
    <2>4. LastPR(ks, i) = n
      <3> HIDE DEF found
      <3> QED BY <2>2, <2>3
    <2> QED BY <1>1, <2>4
  <1>5. \/ ~(n < Len(recGH[i].prs))
        \/ {run.pr : run \in LinesOn(i, "run")} \ {0} = {n}
    BY DEF HiddenIn
  <1>6. n < Len(recGH[i].prs) \/ n = Len(recGH[i].prs) BY <1>2
  <1> QED BY <1>3, <1>4, <1>5, <1>6

(* The row an issue has in a report of all the shifts.                     *)
LEMMA WholeRow ==
  ASSUME RecInv, Whole, NEW row \in recReport.rows
  PROVE  \E old \in Rows(0) :
            row = IF recReport.answered THEN Resolved(old) ELSE old
  BY DEF RecInv, ReportInv, Whole, Answers

(* What a report calls merged has merged.                                  *)
LEMMA MergedIsMerged ==
  ASSUME RecInv, Whole, NEW row \in recReport.rows, row.end.outcome = "merged"
  PROVE  Merges(row.issue) # {}
  <1>1. PICK old \in Rows(0) : row = IF recReport.answered THEN Resolved(old) ELSE old
    BY WholeRow
  <1> DEFINE ends == Lines(RecordsOf(0), "issue", old.issue)
             end == Newest(ends)
  <1>2. CASE row = old
    <2>1. IF ends = {} THEN old.end = NoRecord
          ELSE end \in ends /\ old.end = [ts |-> recFile[end].ts, outcome |-> recFile[end].outcome]
      BY EndIsRecorded
    <2>2. end \in ends /\ recFile[end].outcome = "merged"
      <3>1. old.end.outcome = "merged" BY <1>2
      <3>2. NoRecord.outcome # "merged" BY DEF NoRecord
      <3> HIDE DEF ends, end
      <3> QED BY <2>1, <3>1, <3>2
    <2>3. /\ end \in DOMAIN recFile /\ recFile[end].kind = "issue"
          /\ recFile[end].issue = old.issue
      BY <2>2 DEF Lines, RecordsOf
    <2>4. LineHolds(recFile[end]) BY <2>3 DEF RecInv, LinesHold
    <2> HIDE DEF end, ends
    <2> QED BY <1>2, <2>2, <2>3, <2>4 DEF LineHolds
  <1>3. CASE row # old
    <2>1. row = [old EXCEPT !.end.outcome = Verdict(old), !.resolved = TRUE]
      BY <1>1, <1>3 DEF Resolved
    <2>2. PICK verdict : verdict = Verdict(old) OBVIOUS
    <2>3. old = [issue |-> old.issue, end |-> old.end, first |-> old.first,
                 last |-> old.last, resolved |-> FALSE]
      BY RowIs
    <2>4. old.end = [ts |-> old.end.ts, outcome |-> old.end.outcome] BY RowIs
    <2>5. /\ [old EXCEPT !.end.outcome = verdict].end.outcome = verdict
          /\ row.issue = old.issue
      BY <2>1, <2>2, <2>3, <2>4
    <2>6. row.end.outcome = verdict BY <2>1, <2>2, <2>3, <2>4, <2>5
    <2> QED BY <2>2, <2>5, <2>6, VerdictIsOfAMerge
  <1> QED BY <1>2, <1>3

LEMMA NumbersFollow == \A a, b, c \in Nat : a <= b /\ b < c => c > a
  OBVIOUS

(* An issue that GitHub was asked about and that a report still calls in   *)
(* flight has no merge that counts.                                        *)
LEMMA InFlightIsNotMerged ==
  ASSUME RecInv, Whole, recReport.answered, NEW row \in recReport.rows,
         row.end.outcome = "in flight", NEW n \in Merges(row.issue),
         NEW run \in LinesOn(row.issue, "run"),
         run.ts < recGH[row.issue].prs[n].ended,
         ~HiddenIn(row.issue, n)
  PROVE  FALSE
  <1>1. PICK old \in Rows(0) : row = Resolved(old) BY WholeRow
  <1>2. row = old /\ Verdict(old) # "merged"
    BY <1>1, StaysUnsettled DEF Unsettled
  <1>3. recReport.at # "none" BY DEF Whole
  <1>4. n \in {row.last, Len(recGH[row.issue].prs)} BY <1>1, <1>2, <1>3, NotHidden
  <1>5. PICK k \in Lines(RecordsOf(0), "run", row.issue) : run = recFile[k]
    <2>1. LinesOn(row.issue, "run") = {recFile[k] : k \in Lines(RecordsOf(0), "run", row.issue)}
      BY <1>3, LinesOnAre
    <2> QED BY <2>1
  <1>6. RecordsOf(0) \in SUBSET DOMAIN recFile BY DEF RecordsOf
  <1>7. row.first \in Nat /\ row.first <= run.ts
    <2>1. old.first = FirstRun(RecordsOf(0), old.issue) BY RowIs
    <2>2. row.first = FirstRun(RecordsOf(0), row.issue) BY <1>1, <1>2, <2>1
    <2>3. /\ FirstRun(RecordsOf(0), row.issue) \in Nat
          /\ FirstRun(RecordsOf(0), row.issue) <= recFile[k].ts
      BY <1>6, FirstIsFirst DEF RecInv
    <2> QED BY <1>5, <2>2, <2>3
  <1>8. run.ts \in Nat
    <2>1. k \in DOMAIN recFile /\ recFile[k].kind = "run" BY <1>6 DEF Lines
    <2> QED BY <1>5, <2>1, LineTypes DEF RecInv
  <1>9. recGH[row.issue].prs[n].ended \in Nat
    BY <1>1, <1>2, RowIs, MergesEnded DEF RecInv
  <1>10. recGH[row.issue].prs[n].ended > SettledSince(row)
    <2>1. SettledSince(row) = row.first BY DEF SettledSince
    <2> QED BY <1>7, <1>8, <1>9, <2>1, NumbersFollow, Zenon
  <1> QED BY <1>1, <1>2, <1>4, <1>10, MergeSpeaks

(* Nor has one that it still calls parked, since it was parked.            *)
LEMMA ParkedIsNotMerged ==
  ASSUME RecInv, Whole, recReport.answered, NEW row \in recReport.rows,
         row.end.outcome = "needs_human", NEW n \in Merges(row.issue),
         \A line \in LinesOn(row.issue, "issue") :
            ~(line.ts >= recGH[row.issue].prs[n].ended),
         ~HiddenIn(row.issue, n)
  PROVE  FALSE
  <1>1. PICK old \in Rows(0) : row = Resolved(old) BY WholeRow
  <1>2. row = old /\ Verdict(old) # "merged"
    BY <1>1, StaysUnsettled DEF Unsettled
  <1>3. recReport.at # "none" BY DEF Whole
  <1>4. n \in {row.last, Len(recGH[row.issue].prs)} BY <1>1, <1>2, <1>3, NotHidden
  <1> DEFINE ends == Lines(RecordsOf(0), "issue", row.issue)
             end == Newest(ends)
  <1>5. end \in ends /\ row.end.ts = recFile[end].ts
    <2>1. IF ends = {} THEN row.end = NoRecord
          ELSE end \in ends /\ row.end = [ts |-> recFile[end].ts, outcome |-> recFile[end].outcome]
      BY <1>1, <1>2, EndIsRecorded
    <2>2. NoRecord.outcome # "needs_human" BY DEF NoRecord
    <2> HIDE DEF end, ends
    <2> QED BY <2>1, <2>2
  <1>6. recFile[end] \in LinesOn(row.issue, "issue") BY <1>3, <1>5, LinesOnAre
  <1>7. recFile[end].ts \in Nat
    <2>1. end \in DOMAIN recFile /\ recFile[end].kind = "issue"
      BY <1>5 DEF Lines, RecordsOf
    <2> QED BY <2>1, LineTypes DEF RecInv
  <1>8. recGH[row.issue].prs[n].ended \in Nat
    BY <1>1, <1>2, RowIs, MergesEnded DEF RecInv
  <1>9. recGH[row.issue].prs[n].ended > SettledSince(row)
    <2> HIDE DEF end, ends
    <2>1. ~(recFile[end].ts >= recGH[row.issue].prs[n].ended) BY <1>6
    <2> QED BY <1>5, <1>7, <1>8, <2>1 DEF SettledSince
  <1> QED BY <1>1, <1>2, <1>4, <1>9, MergeSpeaks

LEMMA WholeReportHolds == RecInv => ReportIsTrue
  <1> SUFFICES ASSUME RecInv, Whole, NEW row \in recReport.rows
               PROVE  LET i == row.issue
                          Before(n) == \E run \in LinesOn(i, "run") :
                                          run.ts < recGH[i].prs[n].ended
                          Hidden(n) ==
                             /\ n < Len(recGH[i].prs)
                             /\ {run.pr : run \in LinesOn(i, "run")} \ {0} # {n}
                          ParkedLater(n) == \E end \in LinesOn(i, "issue") :
                                               end.ts >= recGH[i].prs[n].ended
                      IN  /\ row.end.outcome = "merged" => Merges(i) # {}
                          /\ (recReport.answered /\ row.end.outcome = "in flight") =>
                                \A n \in Merges(i) : ~Before(n) \/ Hidden(n)
                          /\ (recReport.answered /\ row.end.outcome = "needs_human") =>
                                \A n \in Merges(i) : ParkedLater(n) \/ Hidden(n)
    BY DEF ReportIsTrue
  <1>1. row.end.outcome = "merged" => Merges(row.issue) # {} BY MergedIsMerged
  <1>2. ASSUME recReport.answered, row.end.outcome = "in flight", NEW n \in Merges(row.issue)
        PROVE  \/ ~(\E run \in LinesOn(row.issue, "run") :
                      run.ts < recGH[row.issue].prs[n].ended)
               \/ HiddenIn(row.issue, n)
    BY <1>2, InFlightIsNotMerged
  <1>3. ASSUME recReport.answered, row.end.outcome = "needs_human", NEW n \in Merges(row.issue)
        PROVE  \/ \E end \in LinesOn(row.issue, "issue") :
                     end.ts >= recGH[row.issue].prs[n].ended
               \/ HiddenIn(row.issue, n)
    BY <1>3, ParkedIsNotMerged
  <1> QED BY <1>1, <1>2, <1>3 DEF HiddenIn

(* The rows of a report about one shift, for polako stats or status.       *)
LEMMA OneShiftRows ==
  ASSUME RecInv, recReport.at # "none", recReport.shift # 0
  PROVE  /\ recReport.rows = Rows(recReport.shift) /\ recReport.upTo = Len(recFile)
         /\ DOMAIN recFile = 1..Len(recFile)
         /\ \A i \in RecIssues :
              /\ ByShift({"run", "issue"}, i) =
                    {k \in RecordsOf(recReport.shift) : recFile[k].issue = i}
              /\ ByShift({"issue"}, i) = Lines(RecordsOf(recReport.shift), "issue", i)
  <1>1. recReport.rows = Rows(recReport.shift) /\ recReport.upTo = Len(recFile)
    BY DEF RecInv, RecTypeOK, ReportInv
  <1>2. DOMAIN recFile = 1..Len(recFile) BY LineTypes DEF RecInv
  <1> QED BY <1>1, <1>2 DEF ByShift, Read, Lines, RecordsOf, Parses, SameShift

(* Each issue ends in it as the shift last recorded it.                    *)
LEMMA OneShiftsIssue ==
  ASSUME RecInv, recReport.at # "none", recReport.shift # 0, NEW i \in RecIssues
  PROVE  IF ByShift({"run", "issue"}, i) = {} THEN \A row \in recReport.rows : row.issue # i
         ELSE \E row \in recReport.rows :
            /\ row.issue = i
            /\ row.end.outcome = IF ByShift({"issue"}, i) = {} THEN "in flight"
                                 ELSE recFile[Newest(ByShift({"issue"}, i))].outcome
  <1> DEFINE ks == RecordsOf(recReport.shift)
             about == {k \in ks : recFile[k].issue = i}
  <1>1. /\ recReport.rows = Rows(recReport.shift)
        /\ ByShift({"run", "issue"}, i) = about
        /\ ByShift({"issue"}, i) = Lines(ks, "issue", i)
    BY OneShiftRows
  <1>2. CASE about = {}
    <2>1. ASSUME NEW row \in Rows(recReport.shift) PROVE row.issue # i
      <3>1. \E k \in ks : recFile[k].issue = row.issue BY RowIs
      <3> QED BY <1>2, <3>1
    <2> HIDE DEF about
    <2> QED BY <1>1, <1>2, <2>1
  <1>3. CASE about # {}
    <2>1. PICK row \in Rows(recReport.shift) : row.issue = i
      <3>1. i \in {recFile[k].issue : k \in ks} BY <1>3
      <3>2. Rows(recReport.shift) =
               {[issue |-> j, end |-> DedupeIssues(ks, j), first |-> FirstRun(ks, j),
                 last |-> LastPR(ks, j), resolved |-> FALSE] :
                   j \in {recFile[k].issue : k \in ks}}
        BY DEF Rows, RollUp
      <3> DEFINE new == [issue |-> i, end |-> DedupeIssues(ks, i), first |-> FirstRun(ks, i),
                         last |-> LastPR(ks, i), resolved |-> FALSE]
      <3> HIDE DEF about, ks
      <3>3. new \in Rows(recReport.shift) /\ new.issue = i BY <3>1, <3>2
      <3> QED BY <3>3
    <2>2. row.end.outcome = IF Lines(ks, "issue", i) = {} THEN "in flight"
                            ELSE recFile[Newest(Lines(ks, "issue", i))].outcome
      BY <2>1, EndIsRecorded
    <2> HIDE DEF about, ks
    <2> QED BY <1>1, <1>3, <2>1, <2>2
  <1> QED BY <1>2, <1>3

(* The shift status shows wrote a record no other is later than.           *)
LEMMA LastShiftIsLast ==
  ASSUME RecInv, NEW k \in RecordsOf(0)
  PROVE  \E n \in RecordsOf(0) :
            /\ recFile[n].shift = LastShift(RecordsOf(0))
            /\ \A m \in RecordsOf(0) : Written(recFile[m]) <= Written(recFile[n])
  <1> DEFINE ks == RecordsOf(0)
             last == {n \in ks : \A m \in ks : Written(recFile[m]) <= Written(recFile[n])}
             runs == {n \in last : recFile[n].kind = "run"}
             time == [n \in ks |-> Written(recFile[n])]
  <1>1. ks \in SUBSET DOMAIN recFile /\ ks # {} BY DEF RecordsOf
  <1>2. time \in [ks -> Nat]
    <2> SUFFICES ASSUME NEW n \in ks PROVE Written(recFile[n]) \in Nat OBVIOUS
    <2>1. recFile[n].kind \in {"run", "issue"} /\ n \in DOMAIN recFile
      BY DEF RecordsOf, Parses
    <2> QED BY <2>1, LineTypes DEF RecInv, Written
  <1>3. last # {}
    <2>1. \A n \in ks : time[n] = Written(recFile[n]) OBVIOUS
    <2>2. \E n \in ks : \A m \in ks : time[m] <= time[n]
      <3> HIDE DEF ks, time
      <3> QED BY <1>1, <1>2, LatestOf DEF RecInv
    <2> HIDE DEF time
    <2> QED BY <2>1, <2>2
  <1>4. last \in SUBSET Nat /\ runs \in SUBSET Nat
    <2>1. ks \in SUBSET Nat
      <3> HIDE DEF ks
      <3> QED BY <1>1, SomeLines DEF RecInv
    <2> QED BY <2>1
  <1>5. \E n \in last : LastShift(ks) = recFile[n].shift
    <2>1. LastShift(ks) = recFile[Oldest(IF runs # {} THEN runs ELSE last)].shift
      BY <1>3 DEF LastShift
    <2>2. runs \subseteq last OBVIOUS
    <2> HIDE DEF last, runs
    <2>3. Oldest(IF runs # {} THEN runs ELSE last) \in last
      BY <1>3, <1>4, <2>2, OldestIsFirst
    <2> QED BY <2>1, <2>3
  <1> QED BY <1>5

LEMMA ShiftReportHolds == RecInv => ShiftReportIsItsOwn
  <1> SUFFICES ASSUME RecInv, recReport.at # "none", recReport.shift # 0
               PROVE  ShiftReportIsItsOwn
    BY DEF ShiftReportIsItsOwn
  <1>1. /\ recReport.upTo = Len(recFile) /\ DOMAIN recFile = 1..Len(recFile)
    BY OneShiftRows
  <1>2. Read({"run", "issue"}) = RecordsOf(0)
    BY <1>1 DEF Read, RecordsOf, Parses, SameShift
  <1>3. ASSUME recReport.at = "status", NEW k \in Read({"run", "issue"})
        PROVE  \E n \in Read({"run", "issue"}) :
                  /\ recFile[n].shift = recReport.shift
                  /\ Written(recFile[n]) >= Written(recFile[k])
    <2>1. recReport.shift = LastShift(RecordsOf(0)) BY <1>3 DEF RecInv, ReportInv
    <2>2. PICK n \in RecordsOf(0) :
             /\ recFile[n].shift = LastShift(RecordsOf(0))
             /\ \A m \in RecordsOf(0) : Written(recFile[m]) <= Written(recFile[n])
      BY <1>2, LastShiftIsLast
    <2>3. Written(recFile[k]) <= Written(recFile[n]) BY <1>2, <2>2
    <2> QED BY <1>2, <2>1, <2>2, <2>3
  <1>4. ASSUME recReport.at = "status", NEW i \in recReport.parks
        PROVE  \E k \in Read({"issue"}) :
                  /\ recFile[k].outcome = "needs_human" /\ recFile[k].issue = i
                  /\ \A n \in Read({"issue"}) : recFile[n].issue = i => n <= k
    <2>1. PICK row \in Rows(0) : row.issue = i /\ row.end.outcome = "needs_human"
      BY <1>4 DEF RecInv, ReportInv, ParkReasons, Rows
    <2> DEFINE ends == Lines(RecordsOf(0), "issue", row.issue)
               end == Newest(ends)
    <2>2. IF ends = {} THEN row.end = NoRecord
          ELSE /\ end \in ends /\ \A k \in ends : k <= end
               /\ row.end = [ts |-> recFile[end].ts, outcome |-> recFile[end].outcome]
      BY EndIsRecorded
    <2>3. /\ end \in ends /\ \A k \in ends : k <= end
          /\ recFile[end].outcome = "needs_human"
      <3>1. NoRecord.outcome # "needs_human" BY DEF NoRecord
      <3> HIDE DEF end, ends
      <3> QED BY <2>1, <2>2, <3>1
    <2>4. /\ ends \subseteq Read({"issue"})
          /\ \A n \in Read({"issue"}) : recFile[n].issue = i => n \in ends
          /\ \A k \in ends : recFile[k].issue = i
      BY <1>1, <2>1 DEF Read, Lines, RecordsOf, Parses, SameShift
    <2> HIDE DEF end, ends
    <2> QED BY <2>3, <2>4
  <1> QED BY <1>3, <1>4, OneShiftsIssue DEF ShiftReportIsItsOwn

(* What a report says is what happened, of all the shifts or of one, for   *)
(* any shifts, issues, pull requests and length of the file: no torn line, *)
(* missing line or merge at any time makes it say otherwise.               *)
THEOREM ReportsAreTrue == RecSpec => []ReportsHold
  <1>1. RecInv => ReportsHold BY WholeReportHolds, ShiftReportHolds DEF ReportsHold
  <1> QED BY <1>1, RecInductive, PTL
=============================================================================
