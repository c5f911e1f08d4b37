----------------------------- MODULE Drain_proof -----------------------------
(***************************************************************************)
(* Theorems of module Drain, for every backlog and every setting:          *)
(* TypeCorrect, BooksKept (nothing a run cost is lost or counted twice),   *)
(* StopsSafe (a shift stops where its flags and the remote say, and names  *)
(* whom it left waiting), StaysDown (what it parked, or put down without a *)
(* reply, is not worked again) and LegsKept (every issue goes from leg to  *)
(* leg as module IssueLegs says).                                          *)
(***************************************************************************)
EXTENDS Drain, FiniteSetTheorems, TLAPS

-----------------------------------------------------------------------------
(* What the issues cost together.  SessionSpend sums with a fold, which is *)
(* a recursive function over the subsets of Issues; the lemmas below show  *)
(* that it exists and what a change to one issue does to it.               *)
PickOf(s) == CHOOSE x \in s : TRUE
Step(g, st, s) == IF s = {} THEN 0 ELSE st[PickOf(s)].cost + g[s \ {PickOf(s)}]
Costs(st) == CHOOSE g : g = [s \in SUBSET Issues |-> Step(g, st, s)]
TotalCost(st) == Costs(st)[Issues]

(* The fold of the model is this one.                                      *)
LEMMA SpendIsTotal == SessionSpend = booked + TotalCost(states)
  BY DEF SessionSpend, MapThenSumSet, MapThenFoldSet, TotalCost, Costs, Step, PickOf

(* An element picked from a set leaves a smaller one.                      *)
LEMMA PickSmaller ==
    ASSUME NEW s \in SUBSET Issues, s # {}
    PROVE  /\ PickOf(s) \in s /\ s \ {PickOf(s)} \in SUBSET Issues
           /\ Cardinality(s) \in Nat /\ Cardinality(s \ {PickOf(s)}) = Cardinality(s) - 1
           /\ <<s \ {PickOf(s)}, s>> \in StrictSubsetOrdering(Issues)
  <1>1. PickOf(s) \in s BY DEF PickOf
  <1>2. IsFiniteSet(s) BY IssuesAssumption, FS_Subset
  <1>3. Cardinality(s) \in Nat BY <1>2, FS_CardinalityType
  <1>4. Cardinality(s \ {PickOf(s)}) = Cardinality(s) - 1 BY <1>1, <1>2, FS_RemoveElement
  <1>5. <<s \ {PickOf(s)}, s>> \in StrictSubsetOrdering(Issues)
    BY <1>1 DEF StrictSubsetOrdering
  <1> QED BY <1>1, <1>3, <1>4, <1>5

(* A property of sets of issues that fails has a smallest counterexample.  *)
LEMMA SmallestBad ==
    ASSUME NEW Bad \in SUBSET (SUBSET Issues), Bad # {}
    PROVE  \E s \in Bad : s # {} => s \ {PickOf(s)} \notin Bad
  <1>1. IsWellFoundedOn(StrictSubsetOrdering(Issues), SUBSET Issues)
    BY IssuesAssumption, FS_StrictSubsetOrderingWellFounded, FS_FiniteSubsetsOfFinite
  <1>2. PICK s \in Bad : \A t \in Bad : ~(<<t, s>> \in StrictSubsetOrdering(Issues))
    BY <1>1, WFMin
  <1>3. s # {} => <<s \ {PickOf(s)}, s>> \in StrictSubsetOrdering(Issues)
    BY PickSmaller
  <1> QED BY <1>2, <1>3

UpTo(n) == {s \in SUBSET Issues : Cardinality(s) <= n}
SumsUpTo(n, st) == \E g : g = [s \in UpTo(n) |-> Step(g, st, s)]

(* A fold over the sets of n issues extends to those of one more.          *)
LEMMA FoldExtends ==
    ASSUME NEW st, NEW n \in Nat, SumsUpTo(n, st)
    PROVE  SumsUpTo(n + 1, st)
  <1>1. PICK g : g = [s \in UpTo(n) |-> Step(g, st, s)] BY DEF SumsUpTo
  <1> DEFINE h == [s \in UpTo(n + 1) |-> Step(g, st, s)]
  <1>2. \A s \in SUBSET Issues : Cardinality(s) \in Nat
    BY IssuesAssumption, FS_Subset, FS_CardinalityType
  <1>3. UpTo(n) \subseteq UpTo(n + 1)
    <2> SUFFICES ASSUME NEW s \in UpTo(n) PROVE s \in UpTo(n + 1) OBVIOUS
    <2>1. s \in SUBSET Issues /\ Cardinality(s) \in Nat /\ Cardinality(s) <= n BY <1>2 DEF UpTo
    <2>2. Cardinality(s) <= n + 1 BY <2>1
    <2> QED BY <2>1, <2>2 DEF UpTo
  <1>4. \A s \in UpTo(n) : h[s] = g[s] BY <1>1, <1>3
  <1>5. ASSUME NEW s \in UpTo(n + 1) PROVE Step(h, st, s) = Step(g, st, s)
    <2>1. CASE s = {} BY <2>1 DEF Step
    <2>2. CASE s # {}
      <3>0. s \in SUBSET Issues /\ Cardinality(s) <= n + 1 BY DEF UpTo
      <3>1. s \ {PickOf(s)} \in UpTo(n)
        <4>1. /\ s \ {PickOf(s)} \in SUBSET Issues /\ Cardinality(s) \in Nat
              /\ Cardinality(s \ {PickOf(s)}) = Cardinality(s) - 1
          BY <2>2, <3>0, PickSmaller
        <4>2. Cardinality(s \ {PickOf(s)}) <= n BY <3>0, <4>1
        <4> QED BY <4>1, <4>2 DEF UpTo
      <3>2. h[s \ {PickOf(s)}] = g[s \ {PickOf(s)}] BY <1>4, <3>1
      <3> HIDE DEF h
      <3> QED BY <3>2 DEF Step
    <2> QED BY <2>1, <2>2
  <1>6. h = [s \in UpTo(n + 1) |-> Step(h, st, s)]
    <2>1. h = [s \in UpTo(n + 1) |-> Step(g, st, s)] OBVIOUS
    <2> HIDE DEF h
    <2> QED BY <1>5, <2>1
  <1> HIDE DEF h
  <1> QED BY <1>6 DEF SumsUpTo

(* So there is one over all of them, and its equation may be used.         *)
LEMMA FoldExists ==
    ASSUME NEW st
    PROVE  Costs(st) = [s \in SUBSET Issues |-> Step(Costs(st), st, s)]
  <1>1. \A n \in Nat : SumsUpTo(n, st)
    <2> DEFINE Bad == {n \in Nat : ~SumsUpTo(n, st)}
    <2>1. SUFFICES ASSUME Bad # {} PROVE FALSE OBVIOUS
    <2>2. PICK n \in Bad : \A m \in Bad : ~(<<m, n>> \in OpToRel(<, Nat))
      <3>1. Bad \subseteq Nat OBVIOUS
      <3> HIDE DEF Bad
      <3> QED BY <2>1, <3>1, NatLessThanWellFounded, WFMin
    <2>3. CASE n = 0
      <3>1. UpTo(0) = {{}}
        <4>1. \A s \in SUBSET Issues : IsFiniteSet(s) /\ Cardinality(s) \in Nat
          BY IssuesAssumption, FS_Subset, FS_CardinalityType
        <4>2. \A s \in SUBSET Issues : Cardinality(s) <= 0 <=> s = {}
          BY <4>1, FS_EmptySet
        <4> QED BY <4>2 DEF UpTo
      <3> DEFINE g == [s \in UpTo(0) |-> 0]
      <3>2. \A s \in UpTo(0) : Step(g, st, s) = 0 BY <3>1 DEF Step
      <3>3. g = [s \in UpTo(0) |-> Step(g, st, s)]
        <4>1. g = [s \in UpTo(0) |-> 0] OBVIOUS
        <4> HIDE DEF g
        <4> QED BY <3>2, <4>1
      <3> HIDE DEF g
      <3>4. SumsUpTo(0, st) BY <3>3 DEF SumsUpTo
      <3> QED BY <2>3, <3>4
    <2>4. CASE n # 0
      <3>1. n - 1 \in Nat /\ n - 1 + 1 = n BY <2>4
      <3>2. <<n - 1, n>> \in OpToRel(<, Nat) BY <3>1 DEF OpToRel
      <3>3. SumsUpTo(n - 1, st) BY <2>2, <3>1, <3>2
      <3>4. SumsUpTo(n - 1 + 1, st) BY <3>1, <3>3, FoldExtends
      <3> QED BY <3>1, <3>4
    <2> QED BY <2>3, <2>4
  <1>2. Cardinality(Issues) \in Nat BY IssuesAssumption, FS_CardinalityType
  <1>3. UpTo(Cardinality(Issues)) = SUBSET Issues
    BY IssuesAssumption, FS_Subset DEF UpTo
  <1>4. PICK g : g = [s \in SUBSET Issues |-> Step(g, st, s)]
    <2>1. SumsUpTo(Cardinality(Issues), st) BY <1>1, <1>2
    <2> QED BY <1>3, <2>1 DEF SumsUpTo
  <1> QED BY <1>4 DEF Costs

LEMMA FoldStep ==
    ASSUME NEW st, NEW s \in SUBSET Issues
    PROVE  Costs(st)[s] = IF s = {} THEN 0 ELSE st[PickOf(s)].cost + Costs(st)[s \ {PickOf(s)}]
  <1> DEFINE g == Costs(st)
  <1>1. g = [t \in SUBSET Issues |-> Step(g, st, t)] BY FoldExists
  <1> HIDE DEF g
  <1>2. g[s] = Step(g, st, s) BY <1>1
  <1> QED BY <1>2 DEF Step, g

(* What is spent on some issues is a number ...                            *)
LEMMA CostsType ==
    ASSUME NEW st \in [Issues -> StateType]
    PROVE  \A s \in SUBSET Issues : Costs(st)[s] \in Nat
  <1> DEFINE Bad == {s \in SUBSET Issues : Costs(st)[s] \notin Nat}
  <1>1. SUFFICES ASSUME Bad # {} PROVE FALSE OBVIOUS
  <1>2. PICK s \in Bad : s # {} => s \ {PickOf(s)} \notin Bad
    <2>1. Bad \in SUBSET (SUBSET Issues) OBVIOUS
    <2> HIDE DEF Bad
    <2> QED BY <1>1, <2>1, SmallestBad
  <1>3. s # {} BY FoldStep
  <1>4. PickOf(s) \in Issues /\ s \ {PickOf(s)} \in SUBSET Issues BY <1>3, PickSmaller
  <1>5. st[PickOf(s)].cost \in Nat BY <1>4 DEF StateType
  <1>6. Costs(st)[s \ {PickOf(s)}] \in Nat BY <1>2, <1>3, <1>4
  <1>7. Costs(st)[s] = st[PickOf(s)].cost + Costs(st)[s \ {PickOf(s)}] BY <1>3, FoldStep
  <1> QED BY <1>5, <1>6, <1>7

(* ... and changes by what the cost of one issue changes by.               *)
LEMMA CostsChange ==
    ASSUME NEW st \in [Issues -> StateType], NEW new \in [Issues -> StateType],
           NEW c \in Issues, \A i \in Issues \ {c} : new[i].cost = st[i].cost
    PROVE  \A s \in SUBSET Issues :
             Costs(new)[s] = IF c \in s THEN Costs(st)[s] - st[c].cost + new[c].cost
                             ELSE Costs(st)[s]
  <1> DEFINE Changed(s) == IF c \in s THEN Costs(st)[s] - st[c].cost + new[c].cost
                           ELSE Costs(st)[s]
             Bad == {s \in SUBSET Issues : Costs(new)[s] # Changed(s)}
  <1>1. SUFFICES ASSUME Bad # {} PROVE FALSE OBVIOUS
  <1>2. PICK s \in Bad : s # {} => s \ {PickOf(s)} \notin Bad
    <2>1. Bad \in SUBSET (SUBSET Issues) OBVIOUS
    <2> HIDE DEF Bad
    <2> QED BY <1>1, <2>1, SmallestBad
  <1>3. s # {} BY FoldStep
  <1> DEFINE x == PickOf(s)
             t == s \ {x}
  <1>4. x \in s /\ x \in Issues /\ t \in SUBSET Issues /\ s \in SUBSET Issues
    BY <1>3, PickSmaller
  <1>5. Costs(new)[t] = Changed(t) BY <1>2, <1>3, <1>4
  <1>6. /\ Costs(st)[s] = st[x].cost + Costs(st)[t]
        /\ Costs(new)[s] = new[x].cost + Costs(new)[t]
    BY <1>3, <1>4, FoldStep
  <1>7. /\ st[x].cost \in Nat /\ new[x].cost \in Nat /\ st[c].cost \in Nat /\ new[c].cost \in Nat
        /\ Costs(st)[t] \in Nat
    BY <1>4, CostsType DEF StateType
  <1>8. c \in s <=> (x = c \/ c \in t) BY <1>4
  <1>9. x = c => c \notin t OBVIOUS
  <1>10. x # c => new[x].cost = st[x].cost BY <1>4
  <1>11. Costs(new)[s] # Changed(s) OBVIOUS
  <1> HIDE DEF x, t, Bad
  <1> QED BY <1>5, <1>6, <1>7, <1>8, <1>9, <1>10, <1>11

(* The same two facts of all issues, and a shift that starts owes nothing. *)
LEMMA Totals ==
    ASSUME NEW st \in [Issues -> StateType]
    PROVE  /\ TotalCost(st) \in Nat
           /\ \A new \in [Issues -> StateType], c \in Issues :
                (\A i \in Issues \ {c} : new[i].cost = st[i].cost) =>
                  TotalCost(new) = TotalCost(st) - st[c].cost + new[c].cost
  BY CostsType, CostsChange DEF TotalCost

LEMMA TotalOfNothing == TotalCost([i \in Issues |-> Unknown]) = 0
  <1> DEFINE st == [i \in Issues |-> Unknown]
             Bad == {s \in SUBSET Issues : Costs(st)[s] # 0}
  <1>1. SUFFICES ASSUME Bad # {} PROVE FALSE BY DEF TotalCost
  <1>2. PICK s \in Bad : s # {} => s \ {PickOf(s)} \notin Bad
    <2>1. Bad \in SUBSET (SUBSET Issues) OBVIOUS
    <2> HIDE DEF Bad
    <2> QED BY <1>1, <2>1, SmallestBad
  <1>3. s # {} /\ s \in SUBSET Issues BY FoldStep
  <1>4. PickOf(s) \in Issues /\ s \ {PickOf(s)} \in SUBSET Issues BY <1>3, PickSmaller
  <1>5. st[PickOf(s)].cost = 0 BY <1>4 DEF Unknown
  <1>6. Costs(st)[s \ {PickOf(s)}] = 0 BY <1>2, <1>3, <1>4
  <1>7. Costs(st)[s] = st[PickOf(s)].cost + Costs(st)[s \ {PickOf(s)}]
    <2> HIDE DEF st
    <2> QED BY <1>3, FoldStep
  <1> QED BY <1>5, <1>6, <1>7

(* The lowest of the issues that can be picked is one of them.             *)
LEMMA LowestIssue ==
    ASSUME NEW S \in SUBSET Issues, S # {}
    PROVE  Min(S) \in S
  <1>1. PICK n \in S : \A m \in S : ~(<<m, n>> \in OpToRel(<, Nat))
    BY IssuesAssumption, NatLessThanWellFounded, WFMin
  <1>2. ASSUME NEW m \in S PROVE n <= m
    <2>1. m \in Nat /\ n \in Nat BY IssuesAssumption
    <2>2. m < n => <<m, n>> \in OpToRel(<, Nat) BY <2>1 DEF OpToRel
    <2>3. ~(m < n) BY <1>1, <2>2
    <2> QED BY <2>1, <2>3
  <1> QED BY <1>2 DEF Min

-----------------------------------------------------------------------------
(* The history keeps its shape.                                            *)
LEMMA HistOps ==
    ASSUME NEW h \in HistType, NEW c \in Nat, NEW b \in BOOLEAN, cur \in Issues
    PROVE  /\ NoHist \in HistType
           /\ PickedUp(h, b) \in HistType /\ HeldUp(h) \in HistType
           /\ Ended(h, c) \in HistType /\ PutDown(h, c) \in HistType
           /\ ParkEnded(h, c) \in HistType
  <1>0. AuthHoldLimit \in Nat BY LimitAssumption
  <1>1. NoHist \in HistType BY DEF NoHist, HistType
  <1>2. h.dry + 1 \in Nat /\ h.outcomes + 1 \in Nat /\ h.spent + c \in Nat BY DEF HistType
  <1>3. Capped(h.dry, AuthHoldLimit) \in Nat /\ Capped(h.outcomes, 2) \in Nat
    BY <1>0, <1>2 DEF Capped, HistType
  <1>4. (IF b THEN Capped(h.dry, AuthHoldLimit) ELSE 0) \in Nat BY <1>3
  <1>5. PickedUp(h, b) \in HistType BY <1>4 DEF HistType, PickedUp
  <1>6. HeldUp(h) \in HistType BY <1>3 DEF HistType, HeldUp
  <1>7. Ended(h, c) \in HistType BY <1>2, <1>3 DEF HistType, Ended
  <1>8. PutDown(h, c) \in HistType BY <1>7 DEF HistType, PutDown
  <1>9. ParkEnded(h, c) \in HistType BY <1>7 DEF HistType, ParkEnded
  <1> QED BY <1>1, <1>5, <1>6, <1>7, <1>8, <1>9

LEMMA HistOutside ==
    ASSUME NEW h \in HistType
    PROVE  Touched(h) \in HistType /\ ShiftStarts(h) \in HistType
  <1>1. h.touches + 1 \in Nat /\ h.shifts + 1 \in Nat BY DEF HistType
  <1> QED BY <1>1 DEF HistType, Touched, ShiftStarts, NoHist

(* What the backlog shows of an issue is what the issue is.                *)
LEMMA WritesType ==
    ASSUME TypeOK, NEW i \in Issues, NEW r \in RowType, Writes(i, r)
    PROVE  row' \in [Issues -> RowType] /\ index' \in [Issues -> ListedType]
  <1>1. Listed(r) \in ListedType BY DEF Listed, RowType, ListedType
  <1> QED BY <1>1 DEF Writes, TypeOK

(* An issue is picked from the backlog.                                    *)
LEMMA Picks == TypeOK =>
    /\ Workable \subseteq Issues /\ Waiting \subseteq Issues
    /\ Workable # {} => Min(Workable) \in Workable
    /\ \A S \in SUBSET Issues : S # {} => Min(S) \in S
  <1>1. Workable \subseteq Issues /\ Waiting \subseteq Issues BY DEF Workable, Waiting, Queued
  <1> QED BY <1>1, LowestIssue

-----------------------------------------------------------------------------
(* A step by what it does to the shift: nothing, another stage of a pass,  *)
(* a leg that ends, a pickup, or a new process.                            *)
Outsiders ==
    \/ People \/ (\E i \in Issues : CatchesUp(i)) \/ UNCHANGED vars

PassSteps ==
    \/ CostGate \/ Lists \/ PickLowest \/ NothingLeft \/ PickFlagged \/ AwaitsAnswer
    \/ (\E i \in Issues : Answered(i)) \/ QueueMoved \/ ListFails \/ LegFails

Pickups == (\E refused \in BOOLEAN : Begin(refused)) \/ Held \/ DeadRemote

LEMMA NextClasses ==
    [Next]_vars => \/ Outsiders
                   \/ UNCHANGED setup /\ (PassSteps \/ Pickups \/ LegEnds \/ NewShift)
  BY DEF Next, Pass, People, Troubles, Outsiders, PassSteps, Pickups

(* People and GitHub act on the backlog only, and comments only add up.    *)
LEMMA OutsiderSteps ==
    ASSUME TypeOK, Outsiders
    PROVE  /\ UNCHANGED <<setup, seen, pc, cur, memory, said>>
           /\ row' \in [Issues -> RowType] /\ index' \in [Issues -> ListedType]
           /\ replies' \in [Issues -> Nat] /\ \A i \in Issues : replies'[i] >= replies[i]
           /\ hist' \in HistType /\ hist' = [hist EXCEPT !.touches = hist'.touches]
  <1>1. CASE People
    <2>1. UNCHANGED <<setup, seen, pc, cur, memory, said>> /\ hist' = Touched(hist)
      BY <1>1 DEF People, PersonReplies, PersonClosesOrReopens, PersonRelabels, PersonEndsPR, Touch
    <2>2. hist' \in HistType /\ hist' = [hist EXCEPT !.touches = hist'.touches]
      BY <2>1, HistOutside DEF TypeOK, Touched, HistType
    <2>3. PICK i \in Issues :
              \/ PersonReplies(i) \/ PersonClosesOrReopens(i)
              \/ \E l \in setup.relabels : PersonRelabels(i, l)
              \/ \E end \in {"merged", "closed"} : PersonEndsPR(i, end)
      BY <1>1 DEF People
    <2>4. CASE PersonReplies(i)
      BY <2>1, <2>2, <2>4 DEF PersonReplies, TypeOK
    <2>5. CASE PersonClosesOrReopens(i)
      <3>1. [row[i] EXCEPT !.open = ~@] \in RowType BY DEF TypeOK, RowType
      <3>2. replies' = replies /\ Writes(i, [row[i] EXCEPT !.open = ~@])
        BY <2>5 DEF PersonClosesOrReopens
      <3> QED BY <2>1, <2>2, <3>1, <3>2, WritesType DEF TypeOK
    <2>6. CASE \E l \in setup.relabels : PersonRelabels(i, l)
      <3>1. PICK l \in setup.relabels : PersonRelabels(i, l) BY <2>6
      <3>2. setup.relabels \subseteq Labels BY SetupAssumption DEF TypeOK, SetupType
      <3> DEFINE r == [row[i] EXCEPT !.labels = IF l \in @ THEN @ \ {l} ELSE @ \cup {l}]
      <3>3. r \in RowType BY <3>1, <3>2 DEF TypeOK, RowType
      <3>4. replies' = replies /\ Writes(i, r) BY <3>1 DEF PersonRelabels
      <3> HIDE DEF r
      <3> QED BY <2>1, <2>2, <3>3, <3>4, WritesType DEF TypeOK
    <2>7. CASE \E end \in {"merged", "closed"} : PersonEndsPR(i, end)
      <3>1. PICK end \in {"merged", "closed"} : PersonEndsPR(i, end) BY <2>7
      <3> DEFINE r == [row[i] EXCEPT !.pr = end]
      <3>2. r \in RowType BY DEF TypeOK, RowType, PRStates
      <3>3. replies' = replies /\ Writes(i, r) BY <3>1 DEF PersonEndsPR
      <3> HIDE DEF r
      <3> QED BY <2>1, <2>2, <3>2, <3>3, WritesType DEF TypeOK
    <2> QED BY <2>3, <2>4, <2>5, <2>6, <2>7
  <1>2. CASE \E i \in Issues : CatchesUp(i)
    <2>1. PICK i \in Issues : CatchesUp(i) BY <1>2
    <2>2. Listed(row[i]) \in ListedType BY DEF Listed, RowType, ListedType, TypeOK
    <2>3. index' \in [Issues -> ListedType] BY <2>1, <2>2 DEF CatchesUp, TypeOK
    <2>4. hist' = [hist EXCEPT !.touches = hist'.touches] BY <2>1 DEF CatchesUp, TypeOK, HistType
    <2> QED BY <2>1, <2>3, <2>4 DEF CatchesUp, TypeOK
  <1>3. CASE UNCHANGED vars
    <2>1. hist' = hist /\ replies' = replies /\ row' = row /\ index' = index
          /\ UNCHANGED <<setup, seen, pc, cur, memory, said>>
      BY <1>3 DEF vars, github
    <2>2. hist' = [hist EXCEPT !.touches = hist'.touches] BY <2>1 DEF TypeOK, HistType
    <2> QED BY <2>1, <2>2 DEF TypeOK
  <1> QED BY <1>1, <1>2, <1>3, Outsiders DEF Outsiders

(* What a leg's end does to the shift's own state: an issue put down, and  *)
(* one that came to an ending.                                             *)
PutDownEnd(cost) ==
    /\ pc = "leg" /\ ~StrictOrder /\ NextPass
    /\ states' = [states EXCEPT ![cur].awaiting = TRUE,
                                ![cur].baseline = replies[cur],
                                ![cur].cost = @ + cost]
    /\ hist' = PutDown(hist, cost) /\ skip' = skip
    /\ UNCHANGED <<replies, results, booked, streak>>

FiledEnd(cost) ==
    /\ pc = "leg" /\ NextPass
    /\ booked' = booked + states[cur].cost + cost
    /\ states' = [states EXCEPT ![cur] = Unknown]
    /\ \/ hist' = Ended(hist, cost) /\ skip' = skip
       \/ hist' = ParkEnded(hist, cost) /\ skip' = skip \cup {cur}
    /\ UNCHANGED <<replies, streak>>

(* Every leg's end is one of the two, for what the leg cost.               *)
LEMMA LegEndSteps ==
    ASSUME TypeOK, LegEnds
    PROVE  /\ \E cost \in Nat : /\ MaxSession > 0 => cost \in LegCosts
                                /\ PutDownEnd(cost) \/ FiledEnd(cost)
           /\ cur \in Issues
           /\ row' \in [Issues -> RowType] /\ index' \in [Issues -> ListedType]
           /\ results' \in [Issues -> SUBSET Endings]
  <1>1. PICK cost \in IF MaxSession > 0 THEN LegCosts ELSE {0} :
            Defers(cost) \/ Parks(cost) \/ Merges(cost) \/ ClosesNoChange(cost)
    BY DEF LegEnds
  <1>2. cost \in Nat /\ (MaxSession > 0 => cost \in LegCosts)
    BY CostAssumption
  <1>3. pc = "leg" /\ cur \in Issues
    BY <1>1 DEF Defers, Parks, Merges, ClosesNoChange, TypeOK
  <1>4. /\ "awaiting-answer" \in Labels /\ "needs-human" \in Labels /\ row[cur] \in RowType
        /\ "parked" \in Endings /\ "merged" \in Endings /\ "closedNoChange" \in Endings
    BY <1>3 DEF Labels, Endings, TypeOK
  <1>5. CASE Defers(cost)
    <2> DEFINE r == [row[cur] EXCEPT !.labels = @ \cup {"awaiting-answer"}]
    <2>1. r \in RowType BY <1>4 DEF RowType
    <2>2. Writes(cur, r) /\ results' = results BY <1>5 DEF Defers
    <2>3. PutDownEnd(cost) BY <1>5 DEF Defers, PutDownEnd
    <2> HIDE DEF r
    <2>4. row' \in [Issues -> RowType] /\ index' \in [Issues -> ListedType]
      BY <1>3, <2>1, <2>2, WritesType
    <2> QED BY <1>2, <1>3, <2>2, <2>3, <2>4 DEF TypeOK
  <1>6. CASE Parks(cost)
    <2>1. PICK labelled \in {{}, {"needs-human"}}, unflagged \in {{}, {"awaiting-answer"}} :
              Writes(cur, [row[cur] EXCEPT !.labels = (@ \cup labelled) \ unflagged])
      BY <1>6 DEF Parks, ParkIssue
    <2> DEFINE r == [row[cur] EXCEPT !.labels = (@ \cup labelled) \ unflagged]
    <2>2. r \in RowType BY <1>4 DEF RowType
    <2>3. Writes(cur, r) BY <2>1
    <2>4. results' = [results EXCEPT ![cur] = @ \cup {"parked"}] BY <1>6 DEF Parks, Files
    <2>5. FiledEnd(cost) BY <1>6 DEF Parks, Files, FiledEnd
    <2> HIDE DEF r
    <2>6. row' \in [Issues -> RowType] /\ index' \in [Issues -> ListedType]
      BY <1>3, <2>2, <2>3, WritesType
    <2> QED BY <1>2, <1>3, <1>4, <2>4, <2>5, <2>6 DEF TypeOK
  <1>7. CASE Merges(cost)
    <2> DEFINE r == [row[cur] EXCEPT !.open = FALSE, !.pr = "merged"]
    <2>1. r \in RowType BY <1>4 DEF RowType, PRStates
    <2>2. Writes(cur, r) BY <1>7 DEF Merges
    <2>3. results' = [results EXCEPT ![cur] = @ \cup {"merged"}] BY <1>7 DEF Merges, Files
    <2>4. FiledEnd(cost) BY <1>7 DEF Merges, Files, FiledEnd
    <2> HIDE DEF r
    <2>5. row' \in [Issues -> RowType] /\ index' \in [Issues -> ListedType]
      BY <1>3, <2>1, <2>2, WritesType
    <2> QED BY <1>2, <1>3, <1>4, <2>3, <2>4, <2>5 DEF TypeOK
  <1>8. CASE ClosesNoChange(cost)
    <2> DEFINE r == [row[cur] EXCEPT !.open = FALSE]
    <2>1. r \in RowType BY <1>4 DEF RowType
    <2>2. Writes(cur, r) BY <1>8 DEF ClosesNoChange
    <2>3. results' = [results EXCEPT ![cur] = @ \cup {"closedNoChange"}]
      BY <1>8 DEF ClosesNoChange, Files
    <2>4. FiledEnd(cost) BY <1>8 DEF ClosesNoChange, Files, FiledEnd
    <2> HIDE DEF r
    <2>5. row' \in [Issues -> RowType] /\ index' \in [Issues -> ListedType]
      BY <1>3, <2>1, <2>2, WritesType
    <2> QED BY <1>2, <1>3, <1>4, <2>3, <2>4, <2>5 DEF TypeOK
  <1> QED BY <1>1, <1>5, <1>6, <1>7, <1>8

(* Where a pass goes from the end of a leg.                                *)
LEMMA NextPassSteps ==
    ASSUME NextPass
    PROVE  /\ cur' = 0 /\ seen' = NoListing
           /\ \/ Once /\ pc' = "down" /\ said' = "once"
              \/ ~Once /\ pc' = "top" /\ said' = said
  BY DEF NextPass, Stops, Loops

(* What is remembered of the issue at hand: as it is picked up, put down,  *)
(* and forgotten.                                                          *)
PickedUpStates == [states EXCEPT ![cur].awaiting = FALSE]
PutDownStates(cost) ==
    [states EXCEPT ![cur].awaiting = TRUE, ![cur].baseline = replies[cur], ![cur].cost = @ + cost]
FiledStates == [states EXCEPT ![cur] = Unknown]

LEMMA StateOps ==
    ASSUME TypeOK, cur \in Issues, NEW cost \in Nat
    PROVE  /\ states[cur].cost \in Nat /\ replies[cur] \in Nat
           /\ PickedUpStates \in [Issues -> StateType]
           /\ PickedUpStates = [states EXCEPT ![cur] = PickedUpStates[cur]]
           /\ PickedUpStates[cur].cost = states[cur].cost
           /\ PickedUpStates[cur].baseline = states[cur].baseline
           /\ PutDownStates(cost) \in [Issues -> StateType]
           /\ PutDownStates(cost) = [states EXCEPT ![cur] = PutDownStates(cost)[cur]]
           /\ PutDownStates(cost)[cur].awaiting
           /\ PutDownStates(cost)[cur].cost = states[cur].cost + cost
           /\ FiledStates \in [Issues -> StateType] /\ FiledStates[cur].cost = 0
  <1> DEFINE up == [states[cur] EXCEPT !.awaiting = FALSE]
             down == [states[cur] EXCEPT !.awaiting = TRUE, !.baseline = replies[cur],
                                         !.cost = @ + cost]
  <1>1. /\ states \in [Issues -> StateType] /\ states[cur] \in StateType
        /\ states[cur].cost \in Nat /\ replies[cur] \in Nat
    BY DEF TypeOK, StateType
  <1>2. states[cur].cost + cost \in Nat BY <1>1
  <1>3. up \in StateType /\ up.cost = states[cur].cost /\ up.baseline = states[cur].baseline
    BY <1>1 DEF StateType
  <1>4. down \in StateType /\ down.awaiting /\ down.cost = states[cur].cost + cost
    BY <1>1, <1>2 DEF StateType
  <1>5. Unknown \in StateType /\ Unknown.cost = 0 BY DEF Unknown, StateType
  <1>6. PickedUpStates = [states EXCEPT ![cur] = up] BY <1>1 DEF PickedUpStates
  <1>7. PutDownStates(cost) = [states EXCEPT ![cur] = down] BY <1>1 DEF PutDownStates
  <1> HIDE DEF up, down
  <1>8. PickedUpStates[cur] = up /\ PutDownStates(cost)[cur] = down
    BY <1>1, <1>6, <1>7
  <1>9. PickedUpStates \in [Issues -> StateType] /\ PutDownStates(cost) \in [Issues -> StateType]
    BY <1>1, <1>3, <1>4, <1>6, <1>7
  <1>10. FiledStates \in [Issues -> StateType] /\ FiledStates[cur].cost = 0
    BY <1>1, <1>5 DEF FiledStates
  <1> QED BY <1>1, <1>3, <1>4, <1>6, <1>7, <1>8, <1>9, <1>10

-----------------------------------------------------------------------------
(* Every variable stays in its range, whatever the constants are.          *)
THEOREM TypeCorrect == Spec => []TypeOK
<1>n. NoListing \in [Issues -> ListedType] /\ Unknown \in StateType
  BY DEF NoListing, ListedType, Labels, Unknown, StateType
<1>1. Init => TypeOK
  <2> SUFFICES ASSUME Init PROVE TypeOK OBVIOUS
  <2>1. row \in [Issues -> RowType] BY SetupAssumption DEF Init, SetupType
  <2>2. index \in [Issues -> ListedType] BY <2>1 DEF Init, Listed, RowType, ListedType
  <2>3. NoHist \in HistType BY DEF NoHist, HistType
  <2> QED BY <1>n, <2>1, <2>2, <2>3, SkipAssumption DEF Init, TypeOK, Exits
<1>2. TypeOK /\ [Next]_vars => TypeOK'
  <2> SUFFICES ASSUME TypeOK, [Next]_vars PROVE TypeOK' OBVIOUS
  <2>1. CASE Outsiders
    BY <2>1, OutsiderSteps DEF TypeOK, memory
  <2>2. CASE UNCHANGED setup /\ PassSteps
    <3> USE <1>n, <2>2 DEF TypeOK, github, memory, Exits
    <3>1. CASE CostGate \/ ListFails \/ LegFails
      BY <3>1 DEF CostGate, ListFails, LegFails, Stops
    <3>2. CASE Lists
      BY <3>2 DEF Lists
    <3>3. CASE PickLowest
      BY <3>3, Picks DEF PickLowest, Takes
    <3>4. CASE NothingLeft
      BY <3>4 DEF NothingLeft, Stops
    <3>5. CASE PickFlagged
      <4> DEFINE unasked == {i \in Waiting : ~states[i].awaiting}
      <4>1. unasked # {} /\ cur' = Min(unasked) /\ unasked \in SUBSET Issues
        BY <3>5, Picks DEF PickFlagged, Takes
      <4>2. cur' \in Issues
        <5> HIDE DEF unasked
        <5> QED BY <4>1, Picks
      <4> QED BY <3>5, <4>2 DEF PickFlagged, Takes
    <3>6. CASE AwaitsAnswer
      BY <3>6 DEF AwaitsAnswer
    <3>7. CASE \E i \in Issues : Answered(i)
      BY <3>7 DEF Answered, Takes
    <3>8. CASE QueueMoved
      BY <3>8 DEF QueueMoved, Loops
    <3> QED BY <3>1, <3>2, <3>3, <3>4, <3>5, <3>6, <3>7, <3>8 DEF PassSteps
  <2>3. CASE UNCHANGED setup /\ Pickups
    <3>1. pc = "begin" /\ cur \in Issues
      BY <2>3 DEF Pickups, Begin, Held, DeadRemote, TypeOK
    <3>2. PickedUpStates \in [Issues -> StateType] /\ streak + 1 \in Nat
      BY <3>1, StateOps DEF TypeOK
    <3>3. HeldUp(hist) \in HistType /\ \A b \in BOOLEAN : PickedUp(hist, b) \in HistType
      BY <3>1, HistOps DEF TypeOK
    <3> USE <1>n, <2>3 DEF TypeOK, github, Exits, PickedUpStates
    <3>4. CASE \E refused \in BOOLEAN : Begin(refused)
      BY <3>1, <3>2, <3>3, <3>4 DEF Begin
    <3>5. CASE Held
      BY <3>1, <3>2, <3>3, <3>5 DEF Held, Stops, Loops
    <3>6. CASE DeadRemote
      BY <3>1, <3>2, <3>3, <3>6 DEF DeadRemote, Stops
    <3> QED BY <3>4, <3>5, <3>6 DEF Pickups
  <2>4. CASE UNCHANGED setup /\ LegEnds
    <3>1. PICK cost \in Nat : PutDownEnd(cost) \/ FiledEnd(cost) BY <2>4, LegEndSteps
    <3>2. /\ cur \in Issues
          /\ row' \in [Issues -> RowType] /\ index' \in [Issues -> ListedType]
          /\ results' \in [Issues -> SUBSET Endings]
      BY <2>4, LegEndSteps
    <3>3. PutDown(hist, cost) \in HistType /\ Ended(hist, cost) \in HistType
          /\ ParkEnded(hist, cost) \in HistType
      BY <3>2, HistOps DEF TypeOK
    <3>4. NextPass BY <3>1 DEF PutDownEnd, FiledEnd
    <3>5. /\ pc' \in {"top", "down"} /\ cur' = 0 /\ seen' \in [Issues -> ListedType]
          /\ said' \in Exits
      BY <1>n, <3>4, NextPassSteps DEF TypeOK, Exits
    <3>6. /\ states[cur].cost \in Nat /\ PutDownStates(cost) \in [Issues -> StateType]
          /\ FiledStates \in [Issues -> StateType]
      BY <3>2, StateOps
    <3>7. states' \in [Issues -> StateType] /\ booked' \in Nat
      <4>1. CASE PutDownEnd(cost)
        BY <3>6, <4>1 DEF PutDownEnd, PutDownStates, TypeOK
      <4>2. CASE FiledEnd(cost)
        BY <3>6, <4>2 DEF FiledEnd, FiledStates, TypeOK
      <4> QED BY <3>1, <4>1, <4>2
    <3>8. hist' \in HistType /\ skip' \in SUBSET Issues /\ UNCHANGED <<setup, replies, streak>>
      BY <2>4, <3>1, <3>2, <3>3 DEF PutDownEnd, FiledEnd, TypeOK
    <3> QED BY <3>2, <3>5, <3>7, <3>8 DEF TypeOK
  <2>5. CASE UNCHANGED setup /\ NewShift
    <3>1. ShiftStarts(hist) \in HistType BY HistOutside DEF TypeOK
    <3> QED BY <1>n, <2>5, <3>1, SkipAssumption DEF NewShift, FreshShift, TypeOK, github, Exits
  <2> QED BY <2>1, <2>2, <2>3, <2>4, <2>5, NextClasses
<1> QED BY <1>1, <1>2, PTL DEF Spec

-----------------------------------------------------------------------------
(* What the history's entries are after a step.                            *)
LEMMA HistFields ==
    ASSUME NEW h \in HistType, NEW c \in Nat, NEW b \in BOOLEAN
    PROVE  /\ PickedUp(h, b).asked = h.asked \ {cur} /\ PickedUp(h, b).parked = h.parked
           /\ PickedUp(h, b).spent = h.spent /\ PickedUp(h, b).outcomes = h.outcomes
           /\ PickedUp(h, b).dry = IF b THEN Capped(h.dry, AuthHoldLimit) ELSE 0
           /\ HeldUp(h).asked = h.asked /\ HeldUp(h).parked = h.parked
           /\ HeldUp(h).spent = h.spent /\ HeldUp(h).outcomes = h.outcomes
           /\ HeldUp(h).dry = Capped(h.dry, AuthHoldLimit)
           /\ Ended(h, c).asked = h.asked /\ Ended(h, c).parked = h.parked
           /\ ParkEnded(h, c).asked = h.asked /\ ParkEnded(h, c).parked = h.parked \cup {cur}
           /\ PutDown(h, c).asked = h.asked \cup {cur} /\ PutDown(h, c).parked = h.parked
           /\ Ended(h, c).spent = h.spent + c /\ Ended(h, c).dry = h.dry
           /\ Ended(h, c).outcomes = Capped(h.outcomes, 2)
           /\ ParkEnded(h, c).spent = h.spent + c /\ ParkEnded(h, c).dry = h.dry
           /\ ParkEnded(h, c).outcomes = Capped(h.outcomes, 2)
           /\ PutDown(h, c).spent = h.spent + c /\ PutDown(h, c).dry = h.dry
           /\ PutDown(h, c).outcomes = Capped(h.outcomes, 2)
  BY DEF HistType, PickedUp, HeldUp, Ended, ParkEnded, PutDown

(* A pickup: the fetch was refused or not, was refused with no pull        *)
(* request to wait on, or failed; none of them ends anything.              *)
LEMMA PickupHist ==
    ASSUME TypeOK, Pickups
    PROVE  /\ pc = "begin" /\ cur \in Issues /\ UNCHANGED <<skip, booked, replies>>
           /\ hist'.spent = hist.spent /\ hist'.outcomes = hist.outcomes
           /\ hist'.parked = hist.parked
           /\ \/ /\ states' = PickedUpStates /\ hist'.asked = hist.asked \ {cur}
                 /\ \/ pc' = "down" /\ said' = "fatal"
                    \/ /\ pc' = "leg" /\ said' = said /\ cur' = cur
                       /\ \/ streak' = 0 /\ hist'.dry = 0
                          \/ streak' = streak /\ hist'.dry = Capped(hist.dry, AuthHoldLimit)
              \/ /\ Held /\ states' = states /\ hist'.asked = hist.asked
                 /\ hist'.dry = Capped(hist.dry, AuthHoldLimit)
  <1>1. hist \in HistType /\ 0 \in Nat BY DEF TypeOK
  <1>2. CASE \E refused \in BOOLEAN : Begin(refused)
    <2>1. PICK refused \in BOOLEAN : Begin(refused) BY <1>2
    <2>2. /\ pc = "begin" /\ pc' = "leg" /\ hist' = PickedUp(hist, refused)
          /\ streak' = (IF refused THEN streak ELSE 0) /\ states' = PickedUpStates
          /\ UNCHANGED <<cur, skip, booked, replies, said>>
      BY <2>1 DEF Begin, PickedUpStates, github
    <2>3. /\ hist'.asked = hist.asked \ {cur} /\ hist'.parked = hist.parked
          /\ hist'.spent = hist.spent /\ hist'.outcomes = hist.outcomes
          /\ hist'.dry = IF refused THEN Capped(hist.dry, AuthHoldLimit) ELSE 0
      BY <1>1, <2>2, HistFields
    <2> QED BY <2>2, <2>3 DEF TypeOK
  <1>3. CASE Held
    <2>1. /\ pc = "begin" /\ hist' = HeldUp(hist) /\ UNCHANGED <<skip, booked, replies, states>>
      BY <1>3 DEF Held, github
    <2>2. /\ hist'.asked = hist.asked /\ hist'.parked = hist.parked
          /\ hist'.spent = hist.spent /\ hist'.outcomes = hist.outcomes
          /\ hist'.dry = Capped(hist.dry, AuthHoldLimit)
      BY <1>1, <2>1, HistFields
    <2> QED BY <1>3, <2>1, <2>2 DEF TypeOK
  <1>4. CASE DeadRemote
    <2>1. /\ pc = "begin" /\ hist' = PickedUp(hist, FALSE) /\ pc' = "down" /\ said' = "fatal"
          /\ UNCHANGED <<skip, booked, replies>> /\ states' = PickedUpStates
      BY <1>4 DEF DeadRemote, Stops, PickedUpStates, github
    <2>2. /\ hist'.asked = hist.asked \ {cur} /\ hist'.parked = hist.parked
          /\ hist'.spent = hist.spent /\ hist'.outcomes = hist.outcomes
      BY <1>1, <2>1, HistFields
    <2> QED BY <2>1, <2>2 DEF TypeOK
  <1> QED BY <1>2, <1>3, <1>4 DEF Pickups

(* The end of a leg: its cost is one outcome's.                            *)
LEMMA LegHist ==
    ASSUME TypeOK, NEW cost \in Nat, PutDownEnd(cost) \/ FiledEnd(cost)
    PROVE  /\ pc = "leg" /\ cur \in Issues /\ NextPass /\ streak' = streak
           /\ hist'.spent = hist.spent + cost /\ hist'.dry = hist.dry
           /\ hist'.outcomes = Capped(hist.outcomes, 2)
           /\ \/ /\ ~StrictOrder /\ states' = PutDownStates(cost) /\ booked' = booked
                 /\ hist'.asked = hist.asked \cup {cur} /\ hist'.parked = hist.parked
                 /\ skip' = skip
              \/ /\ states' = FiledStates /\ booked' = booked + states[cur].cost + cost
                 /\ hist'.asked = hist.asked
                 /\ \/ hist'.parked = hist.parked /\ skip' = skip
                    \/ hist'.parked = hist.parked \cup {cur} /\ skip' = skip \cup {cur}
  <1>1. hist \in HistType BY DEF TypeOK
  <1>2. pc = "leg" /\ cur \in Issues BY DEF PutDownEnd, FiledEnd, TypeOK
  <1>3. /\ Ended(hist, cost).spent = hist.spent + cost /\ Ended(hist, cost).dry = hist.dry
        /\ Ended(hist, cost).outcomes = Capped(hist.outcomes, 2)
        /\ Ended(hist, cost).asked = hist.asked /\ Ended(hist, cost).parked = hist.parked
    BY <1>1, HistFields
  <1>4. /\ ParkEnded(hist, cost).spent = hist.spent + cost
        /\ ParkEnded(hist, cost).dry = hist.dry
        /\ ParkEnded(hist, cost).outcomes = Capped(hist.outcomes, 2)
        /\ ParkEnded(hist, cost).asked = hist.asked
        /\ ParkEnded(hist, cost).parked = hist.parked \cup {cur}
    BY <1>1, HistFields
  <1>5. /\ PutDown(hist, cost).spent = hist.spent + cost /\ PutDown(hist, cost).dry = hist.dry
        /\ PutDown(hist, cost).outcomes = Capped(hist.outcomes, 2)
        /\ PutDown(hist, cost).asked = hist.asked \cup {cur}
        /\ PutDown(hist, cost).parked = hist.parked
    BY <1>1, HistFields
  <1>6. CASE PutDownEnd(cost)
    <2>1. /\ NextPass /\ ~StrictOrder /\ UNCHANGED <<booked, streak, skip>>
          /\ hist' = PutDown(hist, cost) /\ states' = PutDownStates(cost)
      BY <1>6 DEF PutDownEnd, PutDownStates
    <2> QED BY <1>2, <1>5, <2>1
  <1>7. CASE FiledEnd(cost)
    <2>1. /\ NextPass /\ streak' = streak /\ states' = FiledStates
          /\ booked' = booked + states[cur].cost + cost
          /\ \/ hist' = Ended(hist, cost) /\ skip' = skip
             \/ hist' = ParkEnded(hist, cost) /\ skip' = skip \cup {cur}
      BY <1>7 DEF FiledEnd, FiledStates
    <2> QED BY <1>2, <1>3, <1>4, <2>1
  <1> QED BY <1>6, <1>7

LEMMA ShiftHist ==
    ASSUME TypeOK, NewShift
    PROVE  /\ pc' = "top" /\ said' = "none" /\ skip' = Skip /\ streak' = 0 /\ booked' = 0
           /\ states' = [i \in Issues |-> Unknown]
           /\ hist'.asked = {} /\ hist'.parked = {} /\ hist'.spent = 0
           /\ hist'.outcomes = 0 /\ hist'.dry = 0
  <1>1. hist \in HistType /\ hist' = ShiftStarts(hist) BY DEF TypeOK, NewShift
  <1>2. /\ hist'.asked = {} /\ hist'.parked = {} /\ hist'.spent = 0
        /\ hist'.outcomes = 0 /\ hist'.dry = 0
    BY <1>1 DEF ShiftStarts, NoHist
  <1> QED BY <1>2 DEF NewShift, FreshShift

(* A step of a pass leaves the history alone, and the issues it remembers  *)
(* until there is nothing left to work.                                    *)
LEMMA PassHist ==
    ASSUME PassSteps
    PROVE  /\ UNCHANGED <<hist, skip, booked, streak, replies>>
           /\ states' = states \/ NothingLeft
  BY DEF PassSteps, CostGate, Lists, PickLowest, NothingLeft, PickFlagged, AwaitsAnswer,
         Answered, QueueMoved, ListFails, LegFails, memory, github

(* People and GitHub touch neither what is remembered nor the history's    *)
(* other entries.                                                          *)
LEMMA OutsiderHist ==
    ASSUME TypeOK, Outsiders
    PROVE  /\ UNCHANGED <<setup, seen, pc, cur, skip, states, booked, streak, said>>
           /\ hist'.asked = hist.asked /\ hist'.parked = hist.parked /\ hist'.spent = hist.spent
           /\ hist'.outcomes = hist.outcomes /\ hist'.dry = hist.dry
  <1>1. /\ UNCHANGED <<setup, seen, pc, cur, memory, said>> /\ hist \in HistType
        /\ hist' = [hist EXCEPT !.touches = hist'.touches]
    BY OutsiderSteps DEF TypeOK
  <1> DEFINE n == hist'.touches
  <1>2. hist' = [hist EXCEPT !.touches = n] BY <1>1
  <1> HIDE DEF n
  <1>3. hist'.asked = hist.asked /\ hist'.parked = hist.parked /\ hist'.spent = hist.spent
        /\ hist'.outcomes = hist.outcomes /\ hist'.dry = hist.dry
    BY <1>1, <1>2 DEF HistType
  <1> QED BY <1>1, <1>3 DEF memory

-----------------------------------------------------------------------------
(* The books balance as long as the shift is up: nothing a run cost is     *)
(* lost or counted twice between what was booked and what is remembered.   *)
LEMMA SpendOf ==
    /\ SessionSpend = booked + TotalCost(states)
    /\ SessionSpend' = booked' + TotalCost(states')
<1>1. SessionSpend' = booked' + TotalCost(states')
  BY DEF SessionSpend, MapThenSumSet, MapThenFoldSet, TotalCost, Costs, Step, PickOf
<1> QED BY <1>1, SpendIsTotal

THEOREM BooksKept == Spec => []BooksBalance
<1>1. Init => BooksBalance
  BY TotalOfNothing, SpendOf DEF Init, BooksBalance, NoHist
<1>2. TypeOK /\ BooksBalance /\ [Next]_vars => BooksBalance'
  <2> SUFFICES ASSUME TypeOK, BooksBalance, [Next]_vars PROVE BooksBalance' OBVIOUS
  <2>t. /\ states \in [Issues -> StateType] /\ booked \in Nat /\ hist \in HistType
        /\ hist.spent \in Nat /\ TotalCost(states) \in Nat
    BY Totals DEF TypeOK, HistType
  <2>1. CASE Outsiders
    BY <2>1, OutsiderHist, SpendOf DEF BooksBalance
  <2>2. CASE PassSteps
    <3>1. CASE NothingLeft BY <3>1 DEF NothingLeft, Stops, BooksBalance
    <3>2. CASE ~NothingLeft
      <4>1. pc = "down" => pc' = "down"
        BY <2>2 DEF PassSteps, CostGate, Lists, PickLowest, NothingLeft, PickFlagged, AwaitsAnswer,
                    Answered, QueueMoved, ListFails, LegFails, Stops
      <4> QED BY <2>2, <3>2, <4>1, PassHist, SpendOf DEF BooksBalance
    <3> QED BY <3>1, <3>2
  <2>3. CASE Pickups
    <3>1. /\ pc = "begin" /\ cur \in Issues /\ hist'.spent = hist.spent
          /\ booked' = booked /\ (states' = states \/ states' = PickedUpStates)
      BY <2>3, PickupHist
    <3>3. TotalCost(PickedUpStates) = TotalCost(states)
      <4>1. /\ PickedUpStates \in [Issues -> StateType]
            /\ PickedUpStates[cur].cost = states[cur].cost /\ states[cur].cost \in Nat
        BY <3>1, StateOps
      <4>2. \A i \in Issues \ {cur} : PickedUpStates[i].cost = states[i].cost
        BY <2>t DEF PickedUpStates
      <4>3. TotalCost(PickedUpStates)
              = TotalCost(states) - states[cur].cost + PickedUpStates[cur].cost
        BY <2>t, <3>1, <4>1, <4>2, Totals
      <4> QED BY <2>t, <4>1, <4>3
    <3> QED BY <3>1, <3>3, SpendOf DEF BooksBalance
  <2>4. CASE LegEnds
    <3>1. PICK cost \in Nat : PutDownEnd(cost) \/ FiledEnd(cost) BY <2>4, LegEndSteps
    <3>2. pc = "leg" /\ cur \in Issues /\ hist'.spent = hist.spent + cost BY <3>1, LegHist
    <3>3. booked + TotalCost(states) = hist.spent BY <3>2, SpendOf DEF BooksBalance
    <3>5. states[cur].cost \in Nat BY <3>2, StateOps
    <3>6. CASE PutDownEnd(cost)
      <4>1. /\ PutDownStates(cost) \in [Issues -> StateType]
            /\ PutDownStates(cost)[cur].cost = states[cur].cost + cost
        BY <3>2, StateOps
      <4>2. \A i \in Issues \ {cur} : PutDownStates(cost)[i].cost = states[i].cost
        BY <2>t DEF PutDownStates
      <4>3. TotalCost(PutDownStates(cost))
              = TotalCost(states) - states[cur].cost + PutDownStates(cost)[cur].cost
        BY <2>t, <3>2, <4>1, <4>2, Totals
      <4>4. booked' = booked /\ states' = PutDownStates(cost)
        BY <3>6 DEF PutDownEnd, PutDownStates
      <4> QED BY <2>t, <3>2, <3>3, <3>5, <4>1, <4>3, <4>4, SpendOf DEF BooksBalance
    <3>7. CASE FiledEnd(cost)
      <4>1. FiledStates \in [Issues -> StateType] /\ FiledStates[cur].cost = 0
        BY <3>2, StateOps
      <4>2. \A i \in Issues \ {cur} : FiledStates[i].cost = states[i].cost
        BY <2>t DEF FiledStates
      <4>3. TotalCost(FiledStates) = TotalCost(states) - states[cur].cost + FiledStates[cur].cost
        BY <2>t, <3>2, <4>1, <4>2, Totals
      <4>4. booked' = booked + states[cur].cost + cost /\ states' = FiledStates
        BY <3>7 DEF FiledEnd, FiledStates
      <4> QED BY <2>t, <3>2, <3>3, <3>5, <4>1, <4>3, <4>4, SpendOf DEF BooksBalance
    <3> QED BY <3>1, <3>6, <3>7
  <2>5. CASE NewShift
    BY <2>5, TotalOfNothing, SpendOf, ShiftHist DEF BooksBalance
  <2> QED BY <2>1, <2>2, <2>3, <2>4, <2>5, NextClasses
<1> QED BY <1>1, <1>2, TypeCorrect, PTL DEF Spec
-----------------------------------------------------------------------------
(* Where a shift stops.                                                    *)

(* A leg is only begun on a budget that is not spent; a shift says how it  *)
(* stopped when it does; -once stops at its first outcome; the streak      *)
(* counts no more pickups than were refused in a row; and what was put     *)
(* down is remembered until the listing shows nothing left.                *)
GateInv ==
    /\ MaxSession > 0 /\ pc \in {"pick", "wait", "begin", "leg"} => hist.spent < MaxSession
    /\ SessionBounded
SaidInv == pc # "down" => said = "none"
OutcomeInv == OnceIsOneOutcome /\ (Once /\ pc # "down" => hist.outcomes = 0)
StreakInv ==
    /\ AuthStopsInARow
    /\ pc # "down" => streak <= hist.dry \/ hist.dry >= AuthHoldLimit
AskedInv ==
    /\ WaitingIsNamed
    /\ pc # "down" => \A i \in hist.asked : states[i].awaiting
    /\ pc = "leg" => cur \notin hist.asked
StopInv == GateInv /\ SaidInv /\ OutcomeInv /\ StreakInv /\ AskedInv

(* Where a pass goes: on from stage to stage, or down.                     *)
LEMMA PassMoves ==
    ASSUME TypeOK, PassSteps
    PROVE  \/ pc' = "down" /\ said' \in {"budget", "fatal", "stuck", "cleared"}
              /\ (NothingLeft => said' \in {"stuck", "cleared"}) /\ pc # "down"
           \/ /\ ~NothingLeft /\ said' = said /\ pc # "down"
              /\ \/ Lists /\ pc' = "pick"
                 \/ pc \in {"pick", "wait"} /\ pc' \in {"top", "wait", "begin"}
  BY DEF PassSteps, CostGate, Lists, PickLowest, NothingLeft, PickFlagged, AwaitsAnswer,
         Answered, QueueMoved, ListFails, LegFails, Stops, Loops, Takes

LEMMA HeldMoves ==
    ASSUME TypeOK, Held
    PROVE  /\ streak' = streak + 1 /\ pc = "begin"
           /\ \/ streak' >= AuthHoldLimit /\ pc' = "down" /\ said' = "auth"
              \/ pc' = "top" /\ said' = said
  BY DEF Held, Stops, Loops

(* What a leg cost can take the shift past its budget by one leg, no more. *)
LEMMA GateSteps ==
    ASSUME TypeOK, BooksBalance, GateInv, [Next]_vars
    PROVE  GateInv'
  <1>t. setup \in SetupType /\ MaxSession \in Nat /\ hist.spent \in Nat /\ LegCosts \subseteq Nat
    BY SetupAssumption, CostAssumption DEF TypeOK, SetupType, MaxSession, HistType
  <1>1. CASE Outsiders
    BY <1>1, OutsiderHist DEF GateInv, SessionBounded, MaxSession
  <1>2. CASE UNCHANGED setup /\ PassSteps
    <2>1. Lists /\ MaxSession > 0 => hist.spent < MaxSession
      <3>1. Lists /\ MaxSession > 0 => SessionSpend = hist.spent /\ ~(SessionSpend >= MaxSession)
        BY DEF Lists, BooksBalance
      <3> QED BY <1>t, <3>1
    <2> QED BY <1>2, <2>1, PassMoves, PassHist DEF GateInv, SessionBounded, MaxSession
  <1>3. CASE UNCHANGED setup /\ Pickups
    BY <1>3, PickupHist, HeldMoves DEF GateInv, SessionBounded, MaxSession
  <1>4. CASE UNCHANGED setup /\ LegEnds
    <2>1. PICK cost \in Nat : /\ MaxSession > 0 => cost \in LegCosts
                              /\ PutDownEnd(cost) \/ FiledEnd(cost)
      BY <1>4, LegEndSteps
    <2>2. pc = "leg" /\ hist'.spent = hist.spent + cost /\ NextPass BY <2>1, LegHist
    <2>3. MaxSession' = MaxSession BY <1>4 DEF MaxSession
    <2>4. SessionBounded'
      <3> SUFFICES ASSUME MaxSession > 0, NEW c \in LegCosts, \A d \in LegCosts : d <= c
                   PROVE  hist'.spent < MaxSession + c
        BY <2>3 DEF SessionBounded
      <3>1. hist.spent < MaxSession BY <2>2 DEF GateInv
      <3>2. cost <= c BY <2>1
      <3> QED BY <1>t, <2>2, <3>1, <3>2
    <2>5. pc' \in {"top", "down"} BY <2>2, NextPassSteps
    <2> QED BY <2>4, <2>5 DEF GateInv
  <1>5. CASE UNCHANGED setup /\ NewShift
    <2>1. pc' = "top" /\ hist'.spent = 0 BY <1>5, ShiftHist
    <2>2. SessionBounded' BY <1>t, <1>5, <2>1 DEF SessionBounded, MaxSession
    <2> QED BY <2>1, <2>2 DEF GateInv
  <1> QED BY <1>1, <1>2, <1>3, <1>4, <1>5, NextClasses

LEMMA SaidSteps ==
    ASSUME TypeOK, SaidInv, [Next]_vars
    PROVE  SaidInv'
  <1>1. CASE Outsiders BY <1>1, OutsiderHist DEF SaidInv
  <1>2. CASE PassSteps BY <1>2, PassMoves DEF SaidInv
  <1>3. CASE Pickups BY <1>3, PickupHist, HeldMoves DEF SaidInv
  <1>4. CASE LegEnds
    <2>1. pc = "leg" /\ NextPass BY <1>4, LegEndSteps, LegHist
    <2> QED BY <2>1, NextPassSteps DEF SaidInv
  <1>5. CASE NewShift BY <1>5, ShiftHist DEF SaidInv
  <1> QED BY <1>1, <1>2, <1>3, <1>4, <1>5, NextClasses

LEMMA OutcomeSteps ==
    ASSUME TypeOK, SaidInv, OutcomeInv, [Next]_vars
    PROVE  OutcomeInv'
  <1>1. CASE Outsiders
    BY <1>1, OutsiderHist DEF OutcomeInv, OnceIsOneOutcome, Once
  <1>2. CASE UNCHANGED setup /\ PassSteps
    BY <1>2, PassMoves, PassHist DEF OutcomeInv, OnceIsOneOutcome, Once, SaidInv
  <1>3. CASE UNCHANGED setup /\ Pickups
    <2>1. pc # "down" /\ said = "none" /\ hist'.outcomes = hist.outcomes
      BY <1>3, PickupHist DEF SaidInv
    <2>2. said' # "once" BY <1>3, <2>1, PickupHist, HeldMoves
    <2> QED BY <1>3, <2>1, <2>2 DEF OutcomeInv, OnceIsOneOutcome, Once
  <1>4. CASE UNCHANGED setup /\ LegEnds
    <2>1. pc = "leg" /\ NextPass /\ hist'.outcomes = Capped(hist.outcomes, 2)
      BY <1>4, LegEndSteps, LegHist
    <2>2. Once' = Once BY <1>4 DEF Once
    <2>3. CASE Once
      <3>1. hist.outcomes = 0 BY <2>1, <2>3 DEF OutcomeInv
      <3>2. hist'.outcomes = 1 BY <2>1, <3>1 DEF Capped
      <3>3. pc' = "down" BY <2>1, <2>3, NextPassSteps
      <3> QED BY <3>2, <3>3 DEF OutcomeInv, OnceIsOneOutcome
    <2>4. CASE ~Once
      <3>1. said' = "none" BY <2>1, <2>4, NextPassSteps DEF SaidInv
      <3> QED BY <2>2, <2>4, <3>1 DEF OutcomeInv, OnceIsOneOutcome
    <2> QED BY <2>3, <2>4
  <1>5. CASE UNCHANGED setup /\ NewShift
    <2>1. hist'.outcomes = 0 /\ said' = "none" BY <1>5, ShiftHist
    <2> QED BY <2>1 DEF OutcomeInv, OnceIsOneOutcome
  <1> QED BY <1>1, <1>2, <1>3, <1>4, <1>5, NextClasses

LEMMA StreakSteps ==
    ASSUME TypeOK, SaidInv, StreakInv, [Next]_vars
    PROVE  StreakInv'
  <1>t. streak \in Nat /\ hist.dry \in Nat /\ AuthHoldLimit \in Nat \ {0}
    BY LimitAssumption DEF TypeOK, HistType
  <1>1. CASE Outsiders
    BY <1>1, OutsiderHist DEF StreakInv, AuthStopsInARow
  <1>2. CASE PassSteps
    BY <1>2, PassMoves, PassHist DEF StreakInv, AuthStopsInARow, SaidInv
  <1>3. CASE Pickups
    <2>1. pc = "begin" /\ said = "none" BY <1>3, PickupHist DEF SaidInv
    <2>2. streak <= hist.dry \/ hist.dry >= AuthHoldLimit BY <2>1 DEF StreakInv
    <2>3. CASE /\ pc' = "leg" /\ said' = said
               /\ \/ streak' = 0 /\ hist'.dry = 0
                  \/ streak' = streak /\ hist'.dry = Capped(hist.dry, AuthHoldLimit)
      BY <1>t, <2>1, <2>2, <2>3 DEF StreakInv, AuthStopsInARow, Capped
    <2>4. CASE pc' = "down" /\ said' = "fatal"
      BY <2>4 DEF StreakInv, AuthStopsInARow
    <2>5. CASE Held /\ hist'.dry = Capped(hist.dry, AuthHoldLimit)
      <3>1. /\ streak' = streak + 1
            /\ \/ streak' >= AuthHoldLimit /\ pc' = "down" /\ said' = "auth"
               \/ pc' = "top" /\ said' = "none"
        BY <2>1, <2>5, HeldMoves
      <3>2. hist'.dry >= AuthHoldLimit \/ streak' <= hist'.dry
        BY <1>t, <2>2, <2>5, <3>1 DEF Capped
      <3>3. hist'.dry \in Nat BY <1>t, <2>5 DEF Capped
      <3> QED BY <1>t, <3>1, <3>2, <3>3 DEF StreakInv, AuthStopsInARow
    <2> QED BY <1>3, <2>3, <2>4, <2>5, PickupHist
  <1>4. CASE LegEnds
    <2>1. pc = "leg" /\ NextPass /\ streak' = streak /\ hist'.dry = hist.dry
      BY <1>4, LegEndSteps, LegHist
    <2>2. said' # "auth" BY <2>1, NextPassSteps DEF SaidInv
    <2> QED BY <2>1, <2>2 DEF StreakInv, AuthStopsInARow
  <1>5. CASE NewShift
    <2>1. streak' = 0 /\ hist'.dry = 0 /\ said' = "none" BY <1>5, ShiftHist
    <2> QED BY <2>1 DEF StreakInv, AuthStopsInARow
  <1> QED BY <1>1, <1>2, <1>3, <1>4, <1>5, NextClasses

LEMMA AskedSteps ==
    ASSUME TypeOK, SaidInv, AskedInv, [Next]_vars
    PROVE  AskedInv'
  <1>t. hist.asked \subseteq Issues /\ states \in [Issues -> StateType]
    BY DEF TypeOK, HistType
  <1>1. CASE Outsiders
    BY <1>1, OutsiderHist DEF AskedInv, WaitingIsNamed
  <1>2. CASE PassSteps
    <2>1. CASE NothingLeft
      <3>1. pc' = "down" /\ said' \in {"stuck", "cleared"} BY <1>2, <2>1, PassMoves
      <3> QED BY <3>1 DEF AskedInv, WaitingIsNamed
    <2>2. CASE ~NothingLeft
      <3>1. hist' = hist /\ states' = states /\ pc # "down" /\ pc' # "leg"
        BY <1>2, <2>2, PassMoves, PassHist
      <3> QED BY <3>1 DEF AskedInv, WaitingIsNamed
    <2> QED BY <2>1, <2>2
  <1>3. CASE Pickups
    <2>1. /\ pc = "begin" /\ cur \in Issues
          /\ \/ /\ states' = PickedUpStates /\ hist'.asked = hist.asked \ {cur}
                /\ pc' = "down" \/ cur' = cur
             \/ states' = states /\ hist'.asked = hist.asked /\ pc' # "leg"
      BY <1>3, PickupHist, HeldMoves
    <2>2. \A i \in hist.asked : states[i].awaiting BY <2>1 DEF AskedInv
    <2>3. \A i \in hist'.asked : states'[i].awaiting
      BY <1>t, <2>1, <2>2 DEF PickedUpStates
    <2>4. pc' = "leg" => cur' \notin hist'.asked BY <2>1
    <2> QED BY <2>3, <2>4 DEF AskedInv, WaitingIsNamed
  <1>4. CASE LegEnds
    <2>1. PICK cost \in Nat : PutDownEnd(cost) \/ FiledEnd(cost) BY <1>4, LegEndSteps
    <2>2. pc = "leg" /\ cur \in Issues /\ NextPass BY <2>1, LegHist
    <2>3. (\A i \in hist.asked : states[i].awaiting) /\ cur \notin hist.asked
      BY <2>2 DEF AskedInv
    <2>4. \A i \in hist'.asked : states'[i].awaiting
      <3>1. CASE states' = PutDownStates(cost) /\ hist'.asked = hist.asked \cup {cur}
        <4>1. PutDownStates(cost)[cur].awaiting BY <2>2, StateOps
        <4>2. \A i \in hist.asked : PutDownStates(cost)[i] = states[i]
          BY <1>t, <2>3 DEF PutDownStates
        <4> QED BY <2>3, <3>1, <4>1, <4>2
      <3>2. CASE states' = FiledStates /\ hist'.asked = hist.asked
        BY <1>t, <2>3, <3>2 DEF FiledStates
      <3> QED BY <2>1, <3>1, <3>2, LegHist
    <2>5. pc' # "leg" BY <2>2, NextPassSteps
    <2> QED BY <2>4, <2>5 DEF AskedInv, WaitingIsNamed
  <1>5. CASE NewShift
    <2>1. hist'.asked = {} /\ pc' = "top" BY <1>5, ShiftHist
    <2> QED BY <2>1 DEF AskedInv, WaitingIsNamed
  <1> QED BY <1>1, <1>2, <1>3, <1>4, <1>5, NextClasses

(* A shift stops where its flags and the remote say, and names whom it     *)
(* left waiting.                                                           *)
THEOREM StopsSafe == Spec => []StopsWhereItShould
<1>1. Init => StopInv
  <2> SUFFICES ASSUME Init PROVE StopInv OBVIOUS
  <2>1. /\ pc = "top" /\ said = "none" /\ streak = 0 /\ hist.spent = 0 /\ hist.dry = 0
        /\ hist.outcomes = 0 /\ hist.asked = {}
    BY DEF Init, NoHist
  <2>2. MaxSession \in Nat /\ LegCosts \subseteq Nat /\ AuthHoldLimit \in Nat
    BY SetupAssumption, CostAssumption, LimitAssumption DEF Init, SetupType, MaxSession
  <2>3. GateInv BY <2>1, <2>2 DEF GateInv, SessionBounded
  <2>4. SaidInv /\ OutcomeInv /\ StreakInv /\ AskedInv
    BY <2>1, <2>2 DEF SaidInv, OutcomeInv, OnceIsOneOutcome, StreakInv, AuthStopsInARow,
                      AskedInv, WaitingIsNamed
  <2> QED BY <2>3, <2>4 DEF StopInv
<1>2. TypeOK /\ BooksBalance /\ StopInv /\ [Next]_vars => StopInv'
  BY GateSteps, SaidSteps, OutcomeSteps, StreakSteps, AskedSteps DEF StopInv
<1>3. StopInv => StopsWhereItShould
  BY DEF StopInv, GateInv, OutcomeInv, StreakInv, AskedInv, StopsWhereItShould
<1> QED BY <1>1, <1>2, <1>3, TypeCorrect, BooksKept, PTL DEF Spec
-----------------------------------------------------------------------------
(* What a shift put down stays down.                                       *)

(* What is parked is skipped, and what is about to be worked is not; an    *)
(* issue put down here and still found flagged has a reply.  Only          *)
(* -strict-order finds a flagged issue workable, and it puts none down.    *)
DownInv ==
    /\ hist.parked \cup Skip \subseteq skip
    /\ StrictOrder => hist.asked = {}
    /\ pc = "begin" => cur \notin skip
    /\ pc = "begin" /\ cur \in hist.asked /\ QueueOf(cur, seen) = "blocked" => Replied(cur)

LEMMA TakenSteps ==
    ASSUME TypeOK, SaidInv, AskedInv, DownInv, PassSteps, UNCHANGED setup, pc' = "begin"
    PROVE  /\ cur' \notin skip /\ seen' = seen
           /\ cur' \in hist.asked /\ QueueOf(cur', seen) = "blocked" =>
                 replies[cur'] > states[cur'].baseline
  <1>1. CASE PickLowest
    <2>1. cur' = Min(Workable) /\ Workable # {} /\ seen' = seen BY <1>1 DEF PickLowest, Takes
    <2>2. cur' \in Workable BY <2>1, Picks
    <2>3. cur' \notin skip /\ (~StrictOrder => QueueOf(cur', seen) = "ready")
      BY <2>2 DEF Workable, Queued
    <2> QED BY <2>1, <2>3 DEF DownInv
  <1>2. CASE PickFlagged
    <2> DEFINE unasked == {i \in Waiting : ~states[i].awaiting}
    <2>1. /\ unasked # {} /\ cur' = Min(unasked) /\ unasked \in SUBSET Issues
          /\ pc = "pick" /\ seen' = seen
      BY <1>2, Picks DEF PickFlagged, Takes
    <2>2. cur' \in unasked
      <3> HIDE DEF unasked
      <3> QED BY <2>1, Picks
    <2>3. cur' \in Waiting /\ ~states[cur'].awaiting BY <2>2
    <2>4. cur' \notin skip BY <2>3 DEF Waiting
    <2>5. cur' \notin hist.asked BY <2>1, <2>3 DEF AskedInv
    <2> QED BY <2>1, <2>4, <2>5
  <1>3. CASE \E i \in Issues : Answered(i)
    <2>1. PICK i \in Issues : Answered(i) BY <1>3
    <2>2. cur' = i /\ i \in Waiting /\ Replied(i) /\ seen' = seen BY <2>1 DEF Answered, Takes
    <2>3. cur' \notin skip BY <2>2 DEF Waiting
    <2> QED BY <2>2, <2>3 DEF Replied
  <1> QED BY <1>1, <1>2, <1>3
       DEF PassSteps, CostGate, Lists, NothingLeft, AwaitsAnswer, QueueMoved, ListFails,
           LegFails, Stops, Loops

LEMMA DownSteps ==
    ASSUME TypeOK, SaidInv, AskedInv, DownInv, [Next]_vars
    PROVE  DownInv'
  <1>1. CASE Outsiders
    <2>1. /\ UNCHANGED <<setup, seen, pc, cur, skip, states>>
          /\ hist'.asked = hist.asked /\ hist'.parked = hist.parked
      BY <1>1, OutsiderHist
    <2>2. \A i \in Issues : replies'[i] >= replies[i] /\ replies[i] \in Nat /\ replies'[i] \in Nat
                            /\ states[i].baseline \in Nat
      BY <1>1, OutsiderSteps DEF TypeOK, StateType
    <2>3. pc = "begin" => (Replied(cur) => Replied(cur)')
      <3> SUFFICES ASSUME pc = "begin", Replied(cur) PROVE Replied(cur)' OBVIOUS
      <3>1. cur \in Issues BY DEF TypeOK
      <3>2. replies'[cur] > states[cur].baseline BY <2>2, <3>1 DEF Replied
      <3> QED BY <2>1, <3>2 DEF Replied
    <2>4. QueueOf(cur, seen)' = QueueOf(cur, seen) BY <2>1 DEF QueueOf
    <2> QED BY <2>1, <2>3, <2>4 DEF DownInv, StrictOrder
  <1>2. CASE UNCHANGED setup /\ PassSteps
    <2>1. /\ UNCHANGED <<hist, skip, replies>> /\ StrictOrder' = StrictOrder
          /\ (states' = states \/ pc' = "down")
      BY <1>2, PassHist, PassMoves DEF StrictOrder
    <2>2. CASE pc' = "begin"
      <3>1. /\ cur' \notin skip /\ seen' = seen
            /\ cur' \in hist.asked /\ QueueOf(cur', seen) = "blocked" =>
                  replies[cur'] > states[cur'].baseline
        BY <1>2, <2>2, TakenSteps
      <3>2. QueueOf(cur, seen)' = QueueOf(cur', seen) BY <1>2, <3>1 DEF QueueOf
      <3> QED BY <2>1, <2>2, <3>1, <3>2 DEF DownInv, Replied
    <2>3. CASE pc' # "begin" BY <2>1, <2>3 DEF DownInv
    <2> QED BY <2>2, <2>3
  <1>3. CASE UNCHANGED setup /\ Pickups
    <2>1. /\ skip' = skip /\ hist'.parked = hist.parked /\ hist'.asked \subseteq hist.asked
          /\ pc' # "begin"
      BY <1>3, PickupHist, HeldMoves
    <2>2. StrictOrder' = StrictOrder BY <1>3 DEF StrictOrder
    <2> QED BY <2>1, <2>2 DEF DownInv
  <1>4. CASE UNCHANGED setup /\ LegEnds
    <2>1. PICK cost \in Nat : PutDownEnd(cost) \/ FiledEnd(cost) BY <1>4, LegEndSteps
    <2>2. /\ pc' # "begin"
          /\ \/ hist'.parked = hist.parked /\ skip' = skip
             \/ hist'.parked = hist.parked \cup {cur} /\ skip' = skip \cup {cur}
          /\ StrictOrder => hist'.asked = hist.asked
      BY <2>1, LegHist, NextPassSteps
    <2>3. StrictOrder' = StrictOrder BY <1>4 DEF StrictOrder
    <2> QED BY <2>2, <2>3 DEF DownInv
  <1>5. CASE UNCHANGED setup /\ NewShift
    <2>1. skip' = Skip /\ hist'.parked = {} /\ hist'.asked = {} /\ pc' = "top"
      BY <1>5, ShiftHist
    <2> QED BY <2>1 DEF DownInv
  <1> QED BY <1>1, <1>2, <1>3, <1>4, <1>5, NextClasses

(* No step works again what the shift parked, or what it put down without  *)
(* a reply.                                                                *)
THEOREM StaysDown == Spec => PutDownStaysDown
<1>1. Init => SaidInv /\ AskedInv /\ DownInv
  BY DEF Init, NoHist, SaidInv, AskedInv, WaitingIsNamed, DownInv
<1>2. TypeOK /\ SaidInv /\ AskedInv /\ DownInv /\ [Next]_vars => (SaidInv /\ AskedInv /\ DownInv)'
  BY SaidSteps, AskedSteps, DownSteps
<1>3. TypeOK /\ DownInv =>
        [pc = "begin" /\ pc' = "leg" =>
           /\ cur \notin hist.parked \cup Skip
           /\ cur \in hist.asked /\ QueueOf(cur, seen) = "blocked" =>
                 replies[cur] > states[cur].baseline]_vars
  BY DEF DownInv, Replied
<1> QED BY <1>1, <1>2, <1>3, TypeCorrect, PTL DEF Spec, PutDownStaysDown
-----------------------------------------------------------------------------
(* Every issue goes from leg to leg as IssueLegs says.                     *)

(* What was parked is skipped, an issue that is remembered as asked was    *)
(* put down by this shift and not worked since, and what is picked is      *)
(* ready or flagged, and stays what it was until its leg is over.          *)
LegsInv ==
    /\ \A i \in Issues : "parked" \in results[i] => i \in skip
    /\ pc # "down" => \A i \in Issues : states[i].awaiting => i \in hist.asked
    /\ pc = "begin" => QueueOf(cur, seen) \in {"ready", "blocked"}
    /\ pc = "leg" => cur \notin skip

LegStep(i) == UNCHANGED Legs(i)!legs \/ Legs(i)!Next

(* A leg's end touches the issue it worked and no other: it is remembered  *)
(* as asked, or forgotten and filed, under a skip if it was parked.        *)
LEMMA LegEndFiles ==
    ASSUME TypeOK, LegEnds
    PROVE  /\ UNCHANGED replies /\ skip \subseteq skip' /\ cur \in Issues
           /\ \A i \in Issues \ {cur} : states'[i] = states[i] /\ results'[i] = results[i]
           /\ \/ /\ results'[cur] = results[cur] /\ states'[cur].awaiting
                 /\ states'[cur].cost >= states[cur].cost
                 /\ states'[cur].baseline = replies[cur]
                 /\ hist'.asked = hist.asked \cup {cur}
              \/ /\ states'[cur] = Unknown /\ results'[cur] # {}
                 /\ "parked" \in results'[cur] => "parked" \in results[cur] \/ cur \in skip'
                 /\ hist'.asked = hist.asked
  <1>1. PICK cost \in IF MaxSession > 0 THEN LegCosts ELSE {0} :
            Defers(cost) \/ Parks(cost) \/ Merges(cost) \/ ClosesNoChange(cost)
    BY DEF LegEnds
  <1>2. /\ cost \in Nat /\ cur \in Issues /\ hist \in HistType
        /\ states \in [Issues -> StateType] /\ results \in [Issues -> SUBSET Endings]
    BY <1>1, CostAssumption DEF Defers, Parks, Merges, ClosesNoChange, TypeOK
  <1>3. CASE Defers(cost)
    <2>1. UNCHANGED <<replies, skip, results>> BY <1>3 DEF Defers
    <2>2. states' = PutDownStates(cost) /\ hist' = PutDown(hist, cost)
      BY <1>3 DEF Defers, PutDownStates
    <2> DEFINE down == PutDownStates(cost)[cur]
    <2>3. /\ states' = [states EXCEPT ![cur] = down] /\ down.awaiting
          /\ down.cost = states[cur].cost + cost /\ states[cur].cost \in Nat
      BY <1>2, <2>2, StateOps
    <2>4. down.baseline = replies[cur]
      <3> DEFINE r == [states[cur] EXCEPT !.awaiting = TRUE, !.baseline = replies[cur],
                                          !.cost = @ + cost]
      <3>1. PutDownStates(cost) = [states EXCEPT ![cur] = r] BY <1>2 DEF PutDownStates
      <3>2. r.baseline = replies[cur] BY <1>2 DEF StateType
      <3> HIDE DEF r
      <3> QED BY <1>2, <3>1, <3>2
    <2> HIDE DEF down
    <2>5. states'[cur] = down /\ \A i \in Issues \ {cur} : states'[i] = states[i]
      BY <1>2, <2>3
    <2>6. hist'.asked = hist.asked \cup {cur} BY <1>2, <2>2, HistFields
    <2>7. states'[cur].cost >= states[cur].cost BY <1>2, <2>3, <2>5
    <2> QED BY <1>2, <2>1, <2>3, <2>4, <2>5, <2>6, <2>7
  <1>4. ASSUME NEW ending \in Endings, Files(ending, cost), UNCHANGED replies,
               \/ hist' = Ended(hist, cost) /\ skip' = skip /\ ending # "parked"
               \/ hist' = ParkEnded(hist, cost) /\ skip' = skip \cup {cur}
        PROVE  /\ UNCHANGED replies /\ skip \subseteq skip'
               /\ \A i \in Issues \ {cur} : states'[i] = states[i] /\ results'[i] = results[i]
               /\ states'[cur] = Unknown /\ results'[cur] # {}
               /\ "parked" \in results'[cur] => "parked" \in results[cur] \/ cur \in skip'
               /\ hist'.asked = hist.asked
    <2>1. /\ states' = [states EXCEPT ![cur] = Unknown]
          /\ results' = [results EXCEPT ![cur] = @ \cup {ending}]
      BY <1>4 DEF Files
    <2>2. Ended(hist, cost).asked = hist.asked /\ ParkEnded(hist, cost).asked = hist.asked
      BY <1>2 DEF Ended, ParkEnded, HistType
    <2>3. hist'.asked = hist.asked BY <1>4, <2>2
    <2> QED BY <1>2, <1>4, <2>1, <2>3
  <1>5. CASE Parks(cost)
    BY <1>2, <1>4, <1>5 DEF Parks, Endings
  <1>6. CASE Merges(cost)
    BY <1>2, <1>4, <1>6 DEF Merges, Endings
  <1>7. CASE ClosesNoChange(cost)
    BY <1>2, <1>4, <1>7 DEF ClosesNoChange, Endings
  <1> QED BY <1>1, <1>3, <1>5, <1>6, <1>7

LEMMA LegsInvSteps ==
    ASSUME TypeOK, AskedInv, DownInv, LegsInv, [Next]_vars
    PROVE  LegsInv'
  <1>t. states \in [Issues -> StateType] /\ hist.asked \subseteq Issues
    BY DEF TypeOK, HistType
  <1>1. CASE Outsiders
    <2>1. UNCHANGED <<setup, seen, pc, cur, skip, states, results>> /\ hist'.asked = hist.asked
      BY <1>1, OutsiderHist, OutsiderSteps DEF memory
    <2>2. QueueOf(cur, seen)' = QueueOf(cur, seen) BY <2>1 DEF QueueOf
    <2> QED BY <2>1, <2>2 DEF LegsInv
  <1>2. CASE UNCHANGED setup /\ PassSteps
    <2>1. /\ UNCHANGED <<hist, skip, results>> /\ (states' = states \/ pc' = "down")
          /\ pc' # "leg" /\ pc # "down"
      BY <1>2, PassHist, PassMoves
         DEF PassSteps, CostGate, Lists, PickLowest, NothingLeft, PickFlagged, AwaitsAnswer,
             Answered, QueueMoved, ListFails, LegFails, Stops, Loops, Takes, memory
    <2>2. pc' = "begin" => seen' = seen /\ cur' \in Workable \cup Waiting
      <3>1. PickLowest => seen' = seen /\ cur' \in Workable
        BY Picks DEF PickLowest, Takes
      <3>2. PickFlagged => seen' = seen /\ cur' \in Waiting
        <4> DEFINE unasked == {i \in Waiting : ~states[i].awaiting}
        <4>1. PickFlagged => /\ seen' = seen /\ cur' = Min(unasked) /\ unasked # {}
          BY DEF PickFlagged, Takes
        <4>2. unasked \in SUBSET Issues /\ unasked \subseteq Waiting BY Picks
        <4> HIDE DEF unasked
        <4> QED BY <4>1, <4>2, Picks
      <3>3. (\E i \in Issues : Answered(i)) => seen' = seen /\ cur' \in Waiting
        BY DEF Answered, Takes
      <3> QED BY <1>2, <3>1, <3>2, <3>3
           DEF PassSteps, CostGate, Lists, NothingLeft, AwaitsAnswer, QueueMoved, ListFails,
               LegFails, Stops, Loops
    <2>3. pc' = "begin" => QueueOf(cur, seen)' \in {"ready", "blocked"}
      <3>1. QueueOf(cur, seen)' = QueueOf(cur', seen') BY <1>2 DEF QueueOf
      <3> QED BY <2>2, <3>1 DEF Workable, Waiting, Queued
    <2> QED BY <2>1, <2>3 DEF LegsInv
  <1>3. CASE UNCHANGED setup /\ Pickups
    <2>1. /\ pc = "begin" /\ cur \in Issues /\ skip' = skip
          /\ \/ /\ states' = PickedUpStates /\ hist'.asked = hist.asked \ {cur}
                /\ pc' = "down" \/ (pc' = "leg" /\ cur' = cur)
             \/ states' = states /\ hist'.asked = hist.asked /\ pc' \notin {"leg", "begin"}
      BY <1>3, PickupHist, HeldMoves
    <2>2. results' = results
      BY <1>3 DEF Pickups, Begin, Held, DeadRemote
    <2>3. \A i \in Issues : states'[i].awaiting => i \in hist'.asked
      <3>1. \A i \in Issues : states[i].awaiting => i \in hist.asked BY <2>1 DEF LegsInv
      <3>2. CASE states' = PickedUpStates /\ hist'.asked = hist.asked \ {cur}
        <4> DEFINE up == [states[cur] EXCEPT !.awaiting = FALSE]
        <4>1. ~up.awaiting BY <1>t, <2>1 DEF StateType
        <4>2. states' = [states EXCEPT ![cur] = up] BY <1>t, <2>1, <3>2 DEF PickedUpStates
        <4> HIDE DEF up
        <4> QED BY <1>t, <2>1, <3>1, <3>2, <4>1, <4>2
      <3> QED BY <2>1, <3>1, <3>2
    <2>4. cur \notin skip BY <2>1 DEF DownInv
    <2> QED BY <2>1, <2>2, <2>3, <2>4 DEF LegsInv
  <1>4. CASE UNCHANGED setup /\ LegEnds
    <2>1. pc = "leg" /\ pc' \in {"top", "down"}
      <3>1. PICK cost \in Nat : PutDownEnd(cost) \/ FiledEnd(cost) BY <1>4, LegEndSteps
      <3> QED BY <3>1, NextPassSteps DEF PutDownEnd, FiledEnd
    <2>2. \A i \in Issues : "parked" \in results'[i] => i \in skip'
      BY <1>4, LegEndFiles DEF LegsInv
    <2>3. \A i \in Issues : states'[i].awaiting => i \in hist'.asked
      <3>1. \A i \in Issues : states[i].awaiting => i \in hist.asked BY <2>1 DEF LegsInv
      <3>2. ~Unknown.awaiting BY DEF Unknown
      <3> QED BY <1>4, <3>1, <3>2, LegEndFiles
    <2> QED BY <2>1, <2>2, <2>3 DEF LegsInv
  <1>5. CASE UNCHANGED setup /\ NewShift
    <2>1. /\ pc' = "top" /\ states' = [i \in Issues |-> Unknown]
          /\ results' = [i \in Issues |-> {}]
      BY <1>5 DEF NewShift, FreshShift
    <2>2. \A i \in Issues : ~states'[i].awaiting /\ results'[i] = {} BY <2>1 DEF Unknown
    <2> QED BY <2>1, <2>2 DEF LegsInv
  <1> QED BY <1>1, <1>2, <1>3, <1>4, <1>5, NextClasses

(* An issue the pass does not work stands where it stood: what is written  *)
(* on its thread and what the listing shows of it may change.              *)
LEMMA LegsRest ==
    ASSUME TypeOK, NEW i \in Issues, hist'.shifts = hist.shifts,
           pc # "down", pc' # "down",
           ~(pc = "leg" /\ cur = i), ~(pc' = "leg" /\ cur' = i),
           states'[i] = states[i], results'[i] = results[i],
           replies'[i] \in Nat, replies'[i] >= replies[i]
    PROVE  LegStep(i)
  <1>1. Stands(i)' = Stands(i) /\ Stands(i) \in {"parked", "asked", "done", "free"}
    BY DEF Stands, Rests
  <1>2. states[i].baseline \in Nat /\ replies[i] \in Nat BY DEF TypeOK, StateType
  <1>3. Replied(i) => Replied(i)' BY <1>2 DEF Replied
  <1>4. CASE Stands(i) = "asked"
    BY <1>1, <1>3, <1>4 DEF LegStep, Legs!Next, Legs!Wait, Legs!Goes
  <1>5. CASE Stands(i) # "asked"
    BY <1>1, <1>5 DEF LegStep, Legs!legs
  <1> QED BY <1>4, <1>5

(* A process that stops forgets every issue.                               *)
LEMMA LegsGone ==
    ASSUME NEW i \in Issues, hist'.shifts = hist.shifts, pc' = "down"
    PROVE  LegStep(i)
  <1>1. Stands(i)' = "gone" BY DEF Stands
  <1> QED BY <1>1 DEF LegStep, Legs!Next, Legs!Stop, Legs!Goes, Legs!NoQuestion

(* What is picked was not parked, and is not waiting for a reply that is   *)
(* not there.                                                              *)
LEMMA LegsStart ==
    ASSUME TypeOK, DownInv, LegsInv, NEW refused \in BOOLEAN, Begin(refused),
           NEW i \in Issues, i = cur, hist'.shifts = hist.shifts
    PROVE  LegStep(i)
  <1>1. pc = "begin" /\ pc' = "leg" /\ cur' = cur /\ cur \in Issues BY DEF Begin, TypeOK
  <1>2. states' = PickedUpStates BY DEF Begin, PickedUpStates
  <1>3. states'[i].cost = states[i].cost
    <2>1. 0 \in Nat OBVIOUS
    <2> QED BY <1>1, <1>2, <2>1, StateOps
  <1>4. Stands(i)' = "working" BY <1>1 DEF Stands
  <1>5. Stands(i) \in {"asked", "done", "free"}
    BY <1>1 DEF Stands, Rests, LegsInv, DownInv
  <1>6. Stands(i) = "asked" /\ "awaiting-answer" \in seen[i].labels => Replied(i)
    <2> SUFFICES ASSUME Stands(i) = "asked", "awaiting-answer" \in seen[i].labels
                 PROVE  Replied(i)
      OBVIOUS
    <2>1. cur \in hist.asked BY <1>1 DEF Stands, Rests, LegsInv
    <2>2. QueueOf(cur, seen) = "blocked" BY <1>1 DEF LegsInv, QueueOf
    <2> QED BY <1>1, <2>1, <2>2 DEF DownInv
  <1> QED BY <1>1, <1>3, <1>4, <1>5, <1>6
       DEF LegStep, Legs!Next, Legs!Start, Legs!Goes, Legs!NoQuestion

(* A leg that is over left the issue down for an answer, or filed it.      *)
LEMMA LegsFinish ==
    ASSUME TypeOK, LegsInv, LegEnds, hist'.shifts = hist.shifts, pc' # "down",
           NEW i \in Issues, i = cur
    PROVE  LegStep(i)
  <1>1. pc = "leg" /\ pc' = "top" /\ cur \in Issues /\ cur \notin skip
    <2>1. PICK cost \in Nat : PutDownEnd(cost) \/ FiledEnd(cost) BY LegEndSteps
    <2> QED BY <2>1, NextPassSteps DEF PutDownEnd, FiledEnd, TypeOK, LegsInv
  <1>2. Stands(i) = "working" /\ Stands(i)' = Rests(i)' BY <1>1 DEF Stands
  <1>3. "parked" \notin results[i] BY <1>1 DEF LegsInv
  <1>4. CASE /\ results'[i] = results[i] /\ states'[i].awaiting
             /\ states'[i].cost >= states[i].cost
             /\ states'[i].baseline = replies[i]
    <2>1. Stands(i)' = "asked" BY <1>2, <1>3, <1>4 DEF Rests
    <2>2. replies' = replies /\ replies[i] \in Nat BY <1>1, LegEndFiles DEF TypeOK
    <2>3. ~Replied(i)' BY <1>4, <2>2 DEF Replied
    <2> QED BY <1>1, <1>2, <1>4, <2>1, <2>3 DEF LegStep, Legs!Next, Legs!PutDown, Legs!Goes
  <1>5. CASE states'[i] = Unknown /\ results'[i] # {}
    <2>1. ~states'[i].awaiting /\ states'[i].cost = 0 BY <1>5 DEF Unknown
    <2>2. Stands(i)' \in {"parked", "done"} BY <1>2, <1>5, <2>1 DEF Rests
    <2> QED BY <1>1, <1>2, <2>1, <2>2
         DEF LegStep, Legs!Next, Legs!Finish, Legs!Goes, Legs!NoQuestion
  <1> QED BY <1>4, <1>5, LegEndFiles

(* So every step of the shift is one of IssueLegs for every issue.         *)
LEMMA LegsStep ==
    ASSUME TypeOK, DownInv, LegsInv, [Next]_vars, NEW i \in Issues
    PROVE  LegStep(i)
  <1>t. replies[i] \in Nat BY DEF TypeOK
  <1>1. CASE Outsiders
    <2>1. /\ UNCHANGED <<pc, cur, states, results>> /\ hist'.shifts = hist.shifts
          /\ replies'[i] \in Nat /\ replies'[i] >= replies[i]
      <3> DEFINE n == hist'.touches
      <3>1. hist' = [hist EXCEPT !.touches = n] BY <1>1, OutsiderSteps
      <3> HIDE DEF n
      <3>2. hist'.shifts = hist.shifts BY <3>1 DEF TypeOK, HistType
      <3> QED BY <1>1, <3>2, OutsiderSteps DEF memory
    <2>2. CASE pc = "down" BY <2>1, <2>2, LegsGone
    <2>3. CASE pc = "leg" /\ cur = i
      <3>1. Stands(i) = "working" /\ Stands(i)' = "working" BY <2>1, <2>3 DEF Stands
      <3> QED BY <2>1, <3>1 DEF LegStep, Legs!legs
    <2>4. CASE pc # "down" /\ ~(pc = "leg" /\ cur = i) BY <2>1, <2>4, LegsRest
    <2> QED BY <2>2, <2>3, <2>4
  <1>2. CASE PassSteps
    <2>1. /\ hist'.shifts = hist.shifts /\ UNCHANGED <<results, replies>>
          /\ pc # "down" /\ (pc' = "down" \/ states' = states)
          /\ pc' # "down" => pc # "leg" /\ pc' # "leg"
      BY <1>2, PassHist, PassMoves
         DEF PassSteps, CostGate, Lists, PickLowest, NothingLeft, PickFlagged, AwaitsAnswer,
             Answered, QueueMoved, ListFails, LegFails, Stops, Loops, Takes, memory
    <2>2. CASE pc' = "down" BY <2>1, <2>2, LegsGone
    <2>3. CASE pc' # "down" BY <1>t, <2>1, <2>3, LegsRest
    <2> QED BY <2>2, <2>3
  <1>3. CASE Pickups
    <2>0. hist'.shifts = hist.shifts
      <3>1. (\E b \in BOOLEAN : hist' = PickedUp(hist, b)) \/ hist' = HeldUp(hist)
        BY <1>3 DEF Pickups, Begin, Held, DeadRemote
      <3> QED BY <3>1 DEF PickedUp, HeldUp, TypeOK, HistType
    <2>1. CASE \E refused \in BOOLEAN : Begin(refused)
      <3>1. PICK refused \in BOOLEAN : Begin(refused) BY <2>1
      <3>2. CASE i = cur BY <2>0, <3>1, <3>2, LegsStart
      <3>3. CASE i # cur
        <4>1. /\ pc = "begin" /\ pc' = "leg" /\ cur' = cur /\ UNCHANGED <<results, replies>>
              /\ states' = [states EXCEPT ![cur].awaiting = FALSE]
          BY <3>1 DEF Begin, github
        <4>2. states'[i] = states[i] BY <3>3, <4>1 DEF TypeOK
        <4> QED BY <1>t, <2>0, <3>3, <4>1, <4>2, LegsRest
      <3> QED BY <3>2, <3>3
    <2>2. CASE Held
      <3>1. pc = "begin" /\ UNCHANGED <<states, results, replies>> /\ pc' \in {"top", "down"}
        BY <2>2 DEF Held, Stops, Loops, github
      <3>2. CASE pc' = "down" BY <2>0, <3>2, LegsGone
      <3>3. CASE pc' # "down" BY <1>t, <2>0, <3>1, <3>3, LegsRest
      <3> QED BY <3>2, <3>3
    <2>3. CASE DeadRemote
      <3>1. pc' = "down" BY <2>3 DEF DeadRemote, Stops
      <3> QED BY <2>0, <3>1, LegsGone
    <2> QED BY <1>3, <2>1, <2>2, <2>3 DEF Pickups
  <1>4. CASE LegEnds
    <2>0. hist'.shifts = hist.shifts /\ pc = "leg" /\ pc' \in {"top", "down"}
      <3>1. PICK cost \in Nat : PutDownEnd(cost) \/ FiledEnd(cost) BY <1>4, LegEndSteps
      <3>2. hist' \in {Ended(hist, cost), ParkEnded(hist, cost), PutDown(hist, cost)}
        BY <3>1 DEF PutDownEnd, FiledEnd
      <3>3. hist'.shifts = hist.shifts
        BY <3>2 DEF Ended, ParkEnded, PutDown, TypeOK, HistType
      <3> QED BY <3>1, <3>3, NextPassSteps DEF PutDownEnd, FiledEnd
    <2>1. CASE pc' = "down" BY <2>0, <2>1, LegsGone
    <2>2. CASE pc' # "down" /\ i = cur BY <1>4, <2>0, <2>2, LegsFinish
    <2>3. CASE pc' # "down" /\ i # cur
      <3>1. states'[i] = states[i] /\ results'[i] = results[i] /\ replies' = replies
        BY <1>4, <2>3, LegEndFiles
      <3> QED BY <1>t, <2>0, <2>3, <3>1, LegsRest
    <2> QED BY <2>1, <2>2, <2>3
  <1>5. CASE NewShift
    <2>1. /\ pc' = "top" /\ states'[i] = Unknown /\ results'[i] = {}
          /\ hist' = ShiftStarts(hist)
      BY <1>5 DEF NewShift, FreshShift
    <2>2. hist'.shifts = hist.shifts + 1 BY <2>1 DEF ShiftStarts, NoHist
    <2>3. Stands(i)' = "free" /\ states'[i].cost = 0
      BY <2>1 DEF Stands, Rests, Unknown
    <2> QED BY <2>1, <2>2, <2>3 DEF LegStep, Legs!Next, Legs!NewShift, Legs!NoQuestion
  <1> QED BY <1>1, <1>2, <1>3, <1>4, <1>5, NextClasses

(* A question is kept until it is taken up, a reply to it is not lost, a   *)
(* tally goes on where it was, and what was parked is left alone: every    *)
(* issue of a shift keeps IssueLegs, whatever happens to the others.       *)
THEOREM LegsKept == Spec => KeepsIssueLegs
<1>1. Init => SaidInv /\ AskedInv /\ DownInv /\ LegsInv
  BY DEF Init, NoHist, SaidInv, AskedInv, WaitingIsNamed, DownInv, LegsInv, Unknown
<1>2. TypeOK /\ SaidInv /\ AskedInv /\ DownInv /\ LegsInv /\ [Next]_vars =>
        (SaidInv /\ AskedInv /\ DownInv /\ LegsInv)'
  BY SaidSteps, AskedSteps, DownSteps, LegsInvSteps
<1>3. Init => \A i \in Issues : Legs(i)!Init
  <2> SUFFICES ASSUME Init, NEW i \in Issues PROVE Legs(i)!Init OBVIOUS
  <2>1. Stands(i) = "free" BY DEF Init, Stands, Rests, Unknown
  <2> QED BY <2>1 DEF Init, Legs!Init, NoHist, Unknown
<1>4. TypeOK /\ DownInv /\ LegsInv /\ [Next]_vars =>
        [\A i \in Issues : UNCHANGED Legs(i)!legs \/ Legs(i)!Next]_vars
  BY LegsStep DEF LegStep
<1> QED BY <1>1, <1>2, <1>3, <1>4, TypeCorrect, PTL DEF Spec, KeepsIssueLegs
=============================================================================
