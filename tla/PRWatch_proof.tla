---------------------------- MODULE PRWatch_proof ----------------------------
(***************************************************************************)
(* Theorems of module PRWatch, for every setting, reviewer and bound.      *)
(*                                                                         *)
(*   TypeCorrect    every variable stays in its range                      *)
(*   SpendSafe      runs are sent for trusted people only, under the cap   *)
(*   ParkedFairly   nobody is handed back untried or for another cause     *)
(***************************************************************************)
EXTENDS PRWatch, FiniteSetTheorems, TLAPS

-----------------------------------------------------------------------------
(* The newest of the reviews.                                              *)

(* Among finitely many dated things one is the latest.  A subset with none *)
(* that is minimal among such subsets loses an element without gaining one.*)
LEMMA SomeLatest ==
    ASSUME NEW S, IsFiniteSet(S), S # {}, NEW f \in [S -> Nat]
    PROVE  \E m \in S : \A x \in S : f[x] <= f[m]
  <1> DEFINE HasLatest(s) == \E m \in s : \A x \in s : f[x] <= f[m]
             Bad == {s \in SUBSET S : s # {} /\ ~HasLatest(s)}
             R == StrictSubsetOrdering(S)
  <1>1. SUFFICES ASSUME Bad # {} PROVE FALSE
    <2>1. S \notin Bad => HasLatest(S) OBVIOUS
    <2> QED BY <2>1
  <1>2. IsWellFoundedOn(R, SUBSET S)
    BY FS_StrictSubsetOrderingWellFounded, FS_FiniteSubsetsOfFinite
  <1>3. Bad \subseteq SUBSET S OBVIOUS
  <1>4. PICK s \in Bad : \A t \in Bad : ~(<<t, s>> \in R)
    <2> HIDE DEF Bad, R
    <2> QED BY <1>1, <1>2, <1>3, WFMin
  <1>5. PICK x \in s : TRUE OBVIOUS
  <1>6. s \ {x} \notin Bad
    <2>1. <<s \ {x}, s>> \in R BY DEF StrictSubsetOrdering
    <2> QED BY <1>4, <2>1
  <1>7. CASE s \ {x} = {}
    <2>1. s = {x} BY <1>7
    <2>2. f[x] \in Nat OBVIOUS
    <2>3. HasLatest(s) BY <2>1, <2>2
    <2> QED BY <2>3
  <1>8. CASE s \ {x} # {}
    <2>1. PICK m \in s \ {x} : \A y \in s \ {x} : f[y] <= f[m] BY <1>6, <1>8
    <2>2. \A y \in s : f[y] \in Nat OBVIOUS
    <2>3. CASE f[x] <= f[m]
      <3>1. \A y \in s : f[y] <= f[m] BY <2>1, <2>3
      <3> QED BY <3>1
    <2>4. CASE ~(f[x] <= f[m])
      <3>1. \A y \in s : f[y] <= f[x] BY <2>1, <2>2, <2>4
      <3> QED BY <3>1
    <2> QED BY <2>3, <2>4
  <1> QED BY <1>7, <1>8

(* The date of the review a run would be sent at is a date.                *)
LEMMA ReviewedAtType ==
    ASSUME verdict \in [Reviewers -> VerdictType]
    PROVE  ReviewedAt \in Nat
  <1> DEFINE times == {verdict[r].at : r \in Asking}
             f == [r \in Asking |-> verdict[r].at]
  <1>1. IsFiniteSet(Asking) /\ Asking \subseteq Reviewers
    <2>1. Asking \in SUBSET Reviewers BY ReviewAssumption DEF Asking
    <2> QED BY <2>1, ReviewAssumption, FS_Subset
  <1>2. \A r \in Asking : verdict[r].at \in Nat BY <1>1 DEF VerdictType
  <1>3. CASE Asking = {}
    <2>1. times = {} BY <1>3
    <2> QED BY <2>1 DEF ReviewedAt, Latest
  <1>4. CASE Asking # {}
    <2>1. f \in [Asking -> Nat] BY <1>2
    <2>2. PICK m \in Asking : \A r \in Asking : f[r] <= f[m]
      <3> HIDE DEF f
      <3> QED BY <1>1, <1>4, <2>1, SomeLatest
    <2>3. \E t \in times : \A u \in times : u <= t BY <2>2
    <2>4. times # {} /\ times \subseteq Nat BY <1>2, <1>4
    <2>5. Latest(times) = CHOOSE t \in times : \A u \in times : u <= t BY <2>4 DEF Latest
    <2>6. Latest(times) \in times
      <3> HIDE DEF times
      <3> QED BY <2>3, <2>5
    <2>7. ReviewedAt = Latest(times) BY DEF ReviewedAt
    <2> QED BY <2>4, <2>6, <2>7
  <1> QED BY <1>3, <1>4

(* -retries is a natural number, and at least one run of a kind is allowed.*)
LEMMA Settings ==
    ASSUME flags \in Flags
    PROVE  Retries \in Nat /\ MaxCost \in Nat /\ RunBudget \in Nat /\ RunBudget >= 1
  BY FlagsAssumption DEF Retries, MaxCost, RunBudget, FlagsType

-----------------------------------------------------------------------------
(* A clean or a failed run of each kind, by what it leaves.                *)
RunEnd(ended, readBack, cost) ==
    \/ ConflictsEnd(ended, readBack, cost)
    \/ ChecksEnd(ended, readBack, cost)
    \/ ReviewEnd(ended, readBack, cost)

(* A remediation that returns costs what it costs, and the history takes   *)
(* down its aim if it ended cleanly.                                       *)
LEMMA RunReturning ==
    ASSUME TypeOK, NEW ended \in {"clean", "failed"}, NEW readBack \in BOOLEAN,
           NEW cost \in RunCosts, RunEnd(ended, readBack, cost)
    PROVE  /\ pc \in Runs /\ spent' \in Nat
           /\ spent' = spent + (IF MaxCost > 0 THEN cost ELSE 0)
           /\ hist' \in [idle : Runs \cup {"none"}, clean : [Runs -> ReviewType]]
           /\ hist'.clean[pc] = (IF ended = "clean" THEN aim ELSE NoReview)
           /\ \A kind \in Runs \ {pc} : hist'.clean[kind] = hist.clean[kind]
           /\ aim' = aim /\ UNCHANGED pullRequest
  <1>1. pc \in Runs /\ Noted(ended)
        /\ spent' = spent + (IF MaxCost > 0 THEN cost ELSE 0)
        /\ aim' = aim /\ UNCHANGED pullRequest
    BY DEF RunEnd, ConflictsEnd, ChecksEnd, ReviewEnd, RunReturns, Runs
  <1>2. cost \in Nat /\ spent' \in Nat BY <1>1, CostAssumption DEF TypeOK
  <1>3. NoReview \in ReviewType BY DEF NoReview, ReviewType
  <1>4. DEFINE new == IF ended = "clean" THEN aim ELSE NoReview
               last == IF ended = "clean" /\ head = aim.head /\ ~ShotsAnswer THEN pc ELSE "none"
  <1>5. new \in ReviewType /\ last \in Runs \cup {"none"} BY <1>1, <1>3 DEF TypeOK
  <1>6. hist' = [hist EXCEPT !.clean[pc] = new, !.idle = last] BY <1>1 DEF Noted
  <1>7. hist.clean \in [Runs -> ReviewType] BY DEF TypeOK
  <1> HIDE DEF new, last
  <1>8. hist' = [idle |-> last, clean |-> [hist.clean EXCEPT ![pc] = new]]
    BY <1>6 DEF TypeOK
  <1>9. hist'.clean = [hist.clean EXCEPT ![pc] = new] /\ hist'.idle = last BY <1>8
  <1>10. [hist.clean EXCEPT ![pc] = new] \in [Runs -> ReviewType] BY <1>1, <1>5, <1>7
  <1>11. hist' \in [idle : Runs \cup {"none"}, clean : [Runs -> ReviewType]]
    BY <1>5, <1>8, <1>10
  <1>12. hist'.clean[pc] = new /\ \A kind \in Runs \ {pc} : hist'.clean[kind] = hist.clean[kind]
    BY <1>1, <1>7, <1>9
  <1> QED BY <1>1, <1>2, <1>11, <1>12 DEF new

-----------------------------------------------------------------------------
(* Every variable stays in its range, whatever the constants are.          *)
THEOREM TypeCorrect == Spec => []TypeOK
<1>1. Init => TypeOK
  <2> SUFFICES ASSUME Init PROVE TypeOK OBVIOUS
  <2>1. verdict \in [Reviewers -> VerdictType] BY DEF Init, Nobody, VerdictType
  <2>2. NoReview \in ReviewType BY DEF NoReview, ReviewType
  <2>3. hist \in [idle : Runs \cup {"none"}, clean : [Runs -> ReviewType]]
    BY <2>2 DEF Init
  <2> QED BY <2>1, <2>2, <2>3 DEF Init, TypeOK, WatchResults
<1>2. TypeOK /\ [Next]_vars => TypeOK'
  <2> SUFFICES ASSUME TypeOK, [Next]_vars PROVE TypeOK' OBVIOUS
  <2>0. /\ ReviewedAt \in Nat /\ [head |-> head, at |-> ReviewedAt] \in ReviewType
        /\ NoReview \in ReviewType
    <3>1. ReviewedAt \in Nat BY ReviewedAtType DEF TypeOK
    <3> QED BY <3>1 DEF TypeOK, ReviewType, NoReview
  <2> USE DEF TypeOK, Runs, WatchResults
  <2>1. CASE Supervisor
    <3>1. CASE SeesEnd
      BY <2>1, <3>1 DEF Supervisor, SeesEnd, Ends, pullRequest, budgets
    <3>2. CASE ParksOverspent \/ ParksRed \/ ParksReview
      BY <2>1, <3>2 DEF Supervisor, ParksOverspent, ParksRed, ParksReview, Ends, pullRequest, budgets
    <3>3. CASE DispatchConflicts
      BY <2>0, <2>1, <3>3 DEF Supervisor, DispatchConflicts, Dispatches, pullRequest, budgets
    <3>4. CASE DispatchChecks
      BY <2>0, <2>1, <3>4 DEF Supervisor, DispatchChecks, Dispatches, pullRequest
    <3>5. CASE DispatchReview
      BY <2>0, <2>1, <3>5 DEF Supervisor, DispatchReview, Dispatches, pullRequest
    <3> QED BY <2>1, <3>1, <3>2, <3>3, <3>4, <3>5 DEF Supervisor
  <2>2. CASE RunEnds
    <3>1. PICK ended \in {"clean", "failed"}, readBack \in BOOLEAN, cost \in RunCosts :
              RunEnd(ended, readBack, cost)
      BY <2>2 DEF RunEnds, RunEnd
    <3>2. flags' = flags BY <2>2 DEF RunEnds
    <3>3. /\ pc \in Runs /\ spent' \in Nat
          /\ hist' \in [idle : Runs \cup {"none"}, clean : [Runs -> ReviewType]]
          /\ aim' = aim /\ UNCHANGED pullRequest
      BY <3>1, RunReturning
    <3>4. /\ failures' \in Nat /\ redRuns' \in Nat /\ reviewRuns' \in Nat
          /\ fixedHead' \in Nat /\ fixedReview' \in ReviewType
          /\ pc' \in {"poll", "done"} /\ result' \in WatchResults
      BY <2>0, <3>1 DEF RunEnd, ConflictsEnd, ChecksEnd, ReviewEnd
    <3> QED BY <3>2, <3>3, <3>4 DEF pullRequest
  <2>3. CASE Environment
    <3>1. CASE RunRefused
      BY <2>3, <3>1 DEF Environment, RunRefused, Ends, pullRequest, budgets
    <3>2. CASE Push
      BY <2>3, <3>2 DEF Environment, Push, Outside, Ticks, budgets
    <3>3. CASE ChecksMove \/ Settles \/ BaseMoves
      BY <2>3, <3>3 DEF Environment, ChecksMove, Settles, BaseMoves, Outside, budgets
    <3>4. CASE PostsShots \/ Leaves
      BY <2>3, <3>4 DEF Environment, PostsShots, Leaves, Outside, Ticks, budgets
    <3>5. CASE \E r \in Reviewers : Reviews(r)
      <4>1. PICK r \in Reviewers : Reviews(r) BY <3>5
      <4>2. clock' \in Nat BY <4>1 DEF Reviews, Ticks
      <4>3. Nobody \in VerdictType /\ [changes |-> TRUE, at |-> clock'] \in VerdictType
        BY <4>2 DEF Nobody, VerdictType
      <4>4. verdict' \in [Reviewers -> VerdictType] BY <4>1, <4>3 DEF Reviews
      <4> QED BY <2>3, <4>1, <4>2, <4>4 DEF Environment, Reviews, Outside, budgets
    <3> QED BY <2>3, <3>1, <3>2, <3>3, <3>4, <3>5 DEF Environment
  <2>4. CASE UNCHANGED vars
    BY <2>4 DEF vars, pullRequest, budgets
  <2> QED BY <2>1, <2>2, <2>3, <2>4 DEF Next
<1> QED BY <1>1, <1>2, PTL DEF Spec

-----------------------------------------------------------------------------
(* The caps.  Between the dispatch of a run and its end the tally does not *)
(* move, and at the dispatch it was under the cap.                         *)
UnderCap == MaxCost > 0 /\ pc \in Runs => spent < MaxCost

(* A run is sent only while the tally is under the cap.                    *)
LEMMA CapSteps ==
    ASSUME TypeOK, [Next]_vars, UnderCap
    PROVE  /\ UnderCap' /\ flags' = flags
           /\ \/ spent' = spent
              \/ \E cost \in RunCosts : MaxCost > 0 /\ spent' = spent + cost /\ spent < MaxCost
  <1>0. flags' = flags
    BY DEF Next, Supervisor, RunEnds, Environment, vars
  <1>1. MaxCost' = MaxCost /\ MaxCost \in Nat BY <1>0, Settings DEF MaxCost, TypeOK
  <1>2. CASE SeesEnd \/ ParksOverspent \/ ParksRed \/ ParksReview \/ RunRefused
    <2>1. pc' = "done" /\ spent' = spent
      BY <1>2 DEF SeesEnd, ParksOverspent, ParksRed, ParksReview, RunRefused, Ends
    <2> QED BY <1>0, <1>1, <2>1 DEF UnderCap, Runs
  <1>3. CASE DispatchConflicts \/ DispatchChecks \/ DispatchReview
    <2>1. Polls /\ Remediable /\ spent' = spent
      BY <1>3 DEF DispatchConflicts, DispatchChecks, DispatchReview, Red, Reviewed,
           Remediable, Dispatches
    <2>2. ~Overspent BY <2>1 DEF Polls
    <2> QED BY <1>0, <1>1, <2>1, <2>2 DEF UnderCap, Overspent, TypeOK
  <1>4. CASE RunEnds
    <2>1. PICK ended \in {"clean", "failed"}, readBack \in BOOLEAN, cost \in RunCosts :
              RunEnd(ended, readBack, cost)
      BY <1>4 DEF RunEnds, RunEnd
    <2>2. pc \in Runs /\ spent' = spent + (IF MaxCost > 0 THEN cost ELSE 0)
      BY <2>1, RunReturning
    <2>3. pc' \notin Runs
      BY <2>1 DEF RunEnd, ConflictsEnd, ChecksEnd, ReviewEnd, Runs
    <2>4. CASE MaxCost > 0
      <3>1. spent < MaxCost /\ spent' = spent + cost BY <2>2, <2>4 DEF UnderCap
      <3> QED BY <1>0, <2>3, <2>4, <3>1 DEF UnderCap
    <2>5. CASE ~(MaxCost > 0)
      <3>1. spent' = spent BY <2>2, <2>5 DEF TypeOK
      <3> QED BY <1>0, <2>3, <3>1 DEF UnderCap
    <2> QED BY <2>4, <2>5
  <1>5. CASE \/ Push \/ ChecksMove \/ Settles \/ BaseMoves \/ PostsShots \/ Leaves
             \/ \E r \in Reviewers : Reviews(r)
    <2>1. pc' = pc /\ spent' = spent
      BY <1>5 DEF Push, ChecksMove, Settles, BaseMoves, PostsShots, Leaves, Reviews, Outside
    <2> QED BY <1>0, <1>1, <2>1 DEF UnderCap
  <1>6. CASE UNCHANGED vars
    BY <1>0, <1>1, <1>6 DEF UnderCap, vars
  <1> QED BY <1>2, <1>3, <1>4, <1>5, <1>6 DEF Next, Supervisor, Environment

(* The tally is what was spent under the cap and one run more.             *)
CapInv == UnderCap /\ CostBounded

(* Money is spent for somebody the repository trusts, and under the cap,   *)
(* whoever reviews and whatever a run costs.                               *)
THEOREM SpendSafe == Spec => SpendsAsAllowed
<1>1. Init => CapInv
  BY Settings, CostAssumption DEF Init, CapInv, UnderCap, CostBounded, Runs
<1>2. TypeOK /\ CapInv /\ [Next]_vars => CapInv'
  <2> SUFFICES ASSUME TypeOK, CapInv, [Next]_vars PROVE CapInv' OBVIOUS
  <2>1. /\ UnderCap' /\ MaxCost' = MaxCost /\ MaxCost \in Nat
        /\ \/ spent' = spent
           \/ \E cost \in RunCosts : MaxCost > 0 /\ spent' = spent + cost /\ spent < MaxCost
    BY CapSteps, Settings DEF CapInv, MaxCost, TypeOK
  <2>2. ASSUME MaxCost > 0, NEW c \in RunCosts, \A d \in RunCosts : d <= c
        PROVE  spent' < MaxCost + c
    <3>1. CASE spent' = spent BY <2>2, <3>1 DEF CapInv, CostBounded
    <3>2. CASE \E cost \in RunCosts : spent' = spent + cost /\ spent < MaxCost
      <4>1. PICK cost \in RunCosts : spent' = spent + cost /\ spent < MaxCost BY <3>2
      <4>2. cost <= c /\ cost \in Nat /\ c \in Nat BY <2>2, CostAssumption
      <4> QED BY <2>1, <4>1, <4>2 DEF TypeOK
    <3> QED BY <2>1, <3>1, <3>2
  <2> QED BY <2>1, <2>2 DEF CapInv, CostBounded
<1>3. [Next]_vars => [DispatchReview => \E r \in Trusted : verdict[r].changes]_vars
  BY DEF DispatchReview, Reviewed, ReviewOutstanding, Asking
<1>4. CapInv => CostBounded BY DEF CapInv
<1> QED
  BY <1>1, <1>2, <1>3, <1>4, TypeCorrect, PTL DEF Spec, SpendsAsAllowed, OutsidersSpendNothing

-----------------------------------------------------------------------------
(* The parks.  What was remediated last is what the run in flight was      *)
(* aimed at and, once that run is over, what a clean run was aimed at; a   *)
(* watch that has not ended blames nothing.                                *)
Blames ==
    /\ result = "checks" => redRuns >= 1
    /\ result = "review" => reviewRuns >= 1
    /\ result = "conflicts" => failures >= 1
    /\ pc # "done" => result = "none"

FixedChecks ==
    /\ fixedHead # 0 => redRuns >= 1
    /\ pc = "checks" => fixedHead = aim.head
    /\ pc \notin {"checks", "done"} /\ fixedHead # 0 => hist.clean["checks"].head = fixedHead

FixedReviews ==
    /\ fixedReview.head # 0 => reviewRuns >= 1
    /\ pc = "review" => fixedReview = aim
    /\ pc \notin {"review", "done"} /\ fixedReview.head # 0
         => hist.clean["review"] = fixedReview

ParkInv == head >= 1 /\ Blames /\ FixedChecks /\ FixedReviews

(* A park by the watch itself is for the cause it names.                   *)
CauseOfPark ==
    /\ result' = "checks" => redRuns >= 1
    /\ result' = "review" => reviewRuns >= 1
    /\ result' = "conflicts" => failures' >= 1
    /\ result' = "checks" /\ redRuns < RunBudget /\ pc = "poll"
         => hist.clean["checks"].head = head
    /\ result' = "review" /\ reviewRuns < RunBudget /\ pc = "poll"
         => hist.clean["review"] = [head |-> head, at |-> ReviewedAt]

(* What happens on GitHub moves neither the watch nor what it remembers.   *)
LEMMA OutsideSteps ==
    ASSUME TypeOK, ParkInv, head' \in Nat, head' >= head, UNCHANGED <<budgets, pc, aim, result, hist>>
    PROVE  ParkInv' /\ CauseOfPark
  <1>1. head' >= 1 BY DEF ParkInv, TypeOK
  <1>2. /\ pc' = pc /\ aim' = aim /\ result' = result /\ hist' = hist
        /\ failures' = failures /\ redRuns' = redRuns /\ reviewRuns' = reviewRuns
        /\ fixedHead' = fixedHead /\ fixedReview' = fixedReview
    BY DEF budgets
  <1>3. ParkInv' BY <1>1, <1>2 DEF ParkInv, Blames, FixedChecks, FixedReviews
  <1>4. CauseOfPark
    <2>1. pc = "poll" => result = "none" BY DEF ParkInv, Blames
    <2> QED BY <1>2, <2>1 DEF ParkInv, Blames, CauseOfPark
  <1> QED BY <1>3, <1>4

(* A watch that ends keeps its budgets, and blames what it has a count of. *)
LEMMA EndSteps ==
    ASSUME TypeOK, [Next]_vars, ParkInv,
           SeesEnd \/ ParksOverspent \/ RunRefused \/ ParksRed \/ ParksReview
    PROVE  ParkInv' /\ CauseOfPark
  <1>0. RunBudget \in Nat /\ RunBudget >= 1 BY Settings DEF TypeOK
  <1>1. /\ pc' = "done" /\ UNCHANGED <<pullRequest, budgets, aim, hist>>
    BY DEF SeesEnd, ParksOverspent, RunRefused, ParksRed, ParksReview, Ends
  <1>2. head' = head /\ redRuns' = redRuns /\ reviewRuns' = reviewRuns /\ failures' = failures
        /\ fixedHead' = fixedHead /\ fixedReview' = fixedReview
    BY <1>1 DEF pullRequest, budgets
  <1>3. FixedChecks' /\ FixedReviews' /\ head' >= 1
    BY <1>1, <1>2 DEF ParkInv, FixedChecks, FixedReviews
  <1>4. CASE SeesEnd \/ ParksOverspent \/ RunRefused
    <2>1. result' \in {"MERGED", "CLOSED", "budget", "fatal"}
      BY <1>4 DEF SeesEnd, ParksOverspent, RunRefused, Ends, TypeOK
    <2> QED BY <1>1, <1>3, <2>1 DEF ParkInv, Blames, CauseOfPark
  <1>5. CASE ParksRed
    <2>1. result' = "checks" /\ pc = "poll" /\ (head = fixedHead \/ redRuns >= RunBudget)
      BY <1>5 DEF ParksRed, Ends, Red, Polls
    <2>2. redRuns >= 1 BY <1>0, <2>1 DEF ParkInv, FixedChecks, TypeOK
    <2>3. redRuns < RunBudget => hist.clean["checks"].head = head
      BY <1>0, <2>1 DEF ParkInv, FixedChecks, TypeOK
    <2> QED BY <1>1, <1>2, <1>3, <2>1, <2>2, <2>3 DEF ParkInv, Blames, CauseOfPark
  <1>6. CASE ParksReview
    <2>1. result' = "review" /\ pc = "poll" /\ (SameReview \/ reviewRuns >= RunBudget)
      BY <1>6 DEF ParksReview, Ends, Reviewed, Polls
    <2>2. reviewRuns >= 1 BY <1>0, <2>1 DEF ParkInv, FixedReviews, SameReview, TypeOK
    <2>3. reviewRuns < RunBudget => hist.clean["review"] = [head |-> head, at |-> ReviewedAt]
      BY <1>0, <2>1 DEF ParkInv, FixedReviews, SameReview, TypeOK
    <2> QED BY <1>1, <1>2, <1>3, <2>1, <2>2, <2>3 DEF ParkInv, Blames, CauseOfPark
  <1> QED BY <1>4, <1>5, <1>6

(* A dispatch counts its run and notes what it is aimed at.                *)
LEMMA DispatchSteps ==
    ASSUME TypeOK, ParkInv, DispatchConflicts \/ DispatchChecks \/ DispatchReview
    PROVE  ParkInv' /\ CauseOfPark
  <1>1. /\ pc = "poll" /\ result = "none" /\ result' = "none" /\ head' = head /\ hist' = hist
        /\ aim' = [head |-> head, at |-> ReviewedAt]
    BY DEF DispatchConflicts, DispatchChecks, DispatchReview, Dispatches, Red, Reviewed,
         Polls, pullRequest, ParkInv, Blames
  <1>2. CASE DispatchConflicts
    <2>1. pc' = "conflicts" /\ UNCHANGED budgets BY <1>2 DEF DispatchConflicts, Dispatches
    <2> QED BY <1>1, <2>1 DEF ParkInv, Blames, FixedChecks, FixedReviews, CauseOfPark, budgets
  <1>3. CASE DispatchChecks
    <2>1. /\ pc' = "checks" /\ redRuns' = redRuns + 1 /\ fixedHead' = head
          /\ UNCHANGED <<failures, reviewRuns, fixedReview>>
      BY <1>3 DEF DispatchChecks, Dispatches
    <2>2. redRuns' >= 1 /\ fixedHead' = aim'.head BY <1>1, <2>1 DEF TypeOK
    <2> QED BY <1>1, <2>1, <2>2 DEF ParkInv, Blames, FixedChecks, FixedReviews, CauseOfPark
  <1>4. CASE DispatchReview
    <2>1. /\ pc' = "review" /\ reviewRuns' = reviewRuns + 1
          /\ fixedReview' = [head |-> head, at |-> ReviewedAt]
          /\ UNCHANGED <<failures, redRuns, fixedHead>>
      BY <1>4 DEF DispatchReview, Dispatches
    <2>2. reviewRuns' >= 1 /\ fixedReview' = aim' BY <1>1, <2>1 DEF TypeOK
    <2> QED BY <1>1, <2>1, <2>2 DEF ParkInv, Blames, FixedChecks, FixedReviews, CauseOfPark
  <1> QED BY <1>2, <1>3, <1>4

(* A run that failed, or was seen to change nothing, takes its mark back;  *)
(* one that keeps it was clean, and the history holds its aim.             *)
LEMMA RunEndSteps ==
    ASSUME TypeOK, ParkInv, NEW ended \in {"clean", "failed"}, NEW readBack \in BOOLEAN,
           NEW cost \in RunCosts, RunEnd(ended, readBack, cost), flags' = flags
    PROVE  ParkInv' /\ CauseOfPark
  <1>1. /\ pc \in Runs /\ pc # "done" /\ result = "none" /\ head' = head
        /\ hist'.clean[pc] = (IF ended = "clean" THEN aim ELSE NoReview)
        /\ \A kind \in Runs \ {pc} : hist'.clean[kind] = hist.clean[kind]
    BY RunReturning DEF pullRequest, ParkInv, Blames, Runs
  <1>2. CASE ConflictsEnd(ended, readBack, cost)
    <2>1. /\ pc = "conflicts" /\ pc' \in {"poll", "done"}
          /\ result' = (IF pc' = "done" THEN "conflicts" ELSE "none")
          /\ UNCHANGED <<redRuns, reviewRuns, fixedHead, fixedReview>>
          /\ (pc' = "done" => failures' = failures + 1)
      BY <1>2 DEF ConflictsEnd, RunReturns
    <2>2. hist'.clean["checks"] = hist.clean["checks"] /\ hist'.clean["review"] = hist.clean["review"]
      BY <1>1, <2>1 DEF Runs
    <2>3. pc' = "done" => failures' >= 1 BY <2>1 DEF TypeOK
    <2> QED BY <1>1, <2>1, <2>2, <2>3 DEF ParkInv, Blames, FixedChecks, FixedReviews, CauseOfPark
  <1>3. CASE ChecksEnd(ended, readBack, cost)
    <2>1. /\ pc = "checks" /\ pc' = "poll" /\ result' = "none"
          /\ UNCHANGED <<failures, redRuns, reviewRuns, fixedReview>>
          /\ (fixedHead' = 0 \/ (ended = "clean" /\ fixedHead' = fixedHead))
      BY <1>1, <1>3 DEF ChecksEnd, RunReturns
    <2>2. hist'.clean["review"] = hist.clean["review"] BY <1>1, <2>1 DEF Runs
    <2>3. fixedHead' # 0 => hist'.clean["checks"].head = fixedHead'
      BY <1>1, <2>1 DEF ParkInv, FixedChecks
    <2> QED BY <1>1, <2>1, <2>2, <2>3 DEF ParkInv, Blames, FixedChecks, FixedReviews, CauseOfPark
  <1>4. CASE ReviewEnd(ended, readBack, cost)
    <2>1. /\ pc = "review" /\ pc' = "poll" /\ result' = "none"
          /\ UNCHANGED <<failures, redRuns, reviewRuns, fixedHead>>
          /\ (fixedReview' = NoReview \/ (ended = "clean" /\ fixedReview' = fixedReview))
      BY <1>1, <1>4 DEF ReviewEnd, RunReturns
    <2>2. hist'.clean["checks"] = hist.clean["checks"] BY <1>1, <2>1 DEF Runs
    <2>3. fixedReview'.head # 0 => hist'.clean["review"] = fixedReview' /\ fixedReview' = fixedReview
      BY <1>1, <2>1 DEF ParkInv, FixedReviews, NoReview
    <2> QED BY <1>1, <2>1, <2>2, <2>3 DEF ParkInv, Blames, FixedChecks, FixedReviews, CauseOfPark
  <1> QED BY <1>2, <1>3, <1>4 DEF RunEnd

(* Every step keeps the invariant and parks only for the cause it names.   *)
LEMMA ParkSteps == TypeOK /\ ParkInv /\ [Next]_vars => ParkInv' /\ CauseOfPark
  <1> SUFFICES ASSUME TypeOK, ParkInv, [Next]_vars PROVE ParkInv' /\ CauseOfPark
    OBVIOUS
  <1>1. CASE SeesEnd \/ ParksOverspent \/ RunRefused \/ ParksRed \/ ParksReview
    BY <1>1, EndSteps
  <1>2. CASE DispatchConflicts \/ DispatchChecks \/ DispatchReview
    BY <1>2, DispatchSteps
  <1>3. CASE RunEnds
    <2>1. flags' = flags BY <1>3 DEF RunEnds
    <2>2. PICK ended \in {"clean", "failed"}, readBack \in BOOLEAN, cost \in RunCosts :
              RunEnd(ended, readBack, cost)
      BY <1>3 DEF RunEnds, RunEnd
    <2> QED BY <2>1, <2>2, RunEndSteps
  <1>4. CASE \/ Push \/ ChecksMove \/ Settles \/ BaseMoves \/ PostsShots \/ Leaves
             \/ (\E r \in Reviewers : Reviews(r)) \/ UNCHANGED vars
    <2>1. head' \in Nat /\ head' >= head /\ UNCHANGED <<budgets, pc, aim, result, hist>>
      BY <1>4 DEF Push, ChecksMove, Settles, BaseMoves, PostsShots, Leaves, Reviews,
           Outside, vars, pullRequest, TypeOK
    <2> QED BY <2>1, OutsideSteps
  <1> QED BY <1>1, <1>2, <1>3, <1>4 DEF Next, Supervisor, Environment

(* The invariant of the parks holds in every behaviour.                    *)
THEOREM ParkInductive == Spec => []ParkInv
<1>1. Init => ParkInv
  BY DEF Init, ParkInv, Blames, FixedChecks, FixedReviews, NoReview
<1> QED
  BY <1>1, ParkSteps, TypeCorrect, PTL DEF Spec

(* Nobody is handed back untried, -retries=0 included, and a park with     *)
(* runs left means that the last run of that kind ended cleanly and        *)
(* nothing has changed since.                                              *)
THEOREM ParkedFairly == Spec => ParkedForItsOwnCause
<1>1. TypeOK /\ ParkInv /\ [Next]_vars => [CauseOfPark]_vars
  BY ParkSteps
<1> QED
  BY <1>1, ParkInductive, TypeCorrect, PTL DEF Spec, ParkedForItsOwnCause, CauseOfPark
=============================================================================
