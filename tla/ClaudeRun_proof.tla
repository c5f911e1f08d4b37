--------------------------- MODULE ClaudeRun_proof ---------------------------
(***************************************************************************)
(* Theorems of module ClaudeRun, for every setting and every bound.        *)
(*                                                                         *)
(*   TypeCorrect   every variable stays in its range                       *)
(*   KillNamed     a run polako killed is reported as killed               *)
(*   BeatsEnd      no heartbeat line follows the finish line               *)
(***************************************************************************)
EXTENDS ClaudeRun, TLAPS

-----------------------------------------------------------------------------
(* claudeVerdict, as the first arm that holds.                             *)

(* A set of arms that has one has a first one.                             *)
LEMMA FirstArm ==
    ASSUME NEW S \in SUBSET (1..10), S # {}
    PROVE  /\ Min(S) \in S
           /\ \A k \in S : Min(S) <= k
  <1>1. \E x \in S : \A y \in S : x <= y
    <2> DEFINE Least(x) == x \in S /\ \A y \in S : x <= y
    <2> SUFFICES \E x \in 1..10 : Least(x) OBVIOUS
    <2>1. CASE 1 \in S BY <2>1
    <2>2. CASE 1 \notin S /\ 2 \in S BY <2>2
    <2>3. CASE 1 \notin S /\ 2 \notin S /\ 3 \in S BY <2>3
    <2>4. CASE 1 \notin S /\ 2 \notin S /\ 3 \notin S /\ 4 \in S BY <2>4
    <2>5. CASE 1 \notin S /\ 2 \notin S /\ 3 \notin S /\ 4 \notin S /\ 5 \in S BY <2>5
    <2>6. CASE /\ 1 \notin S /\ 2 \notin S /\ 3 \notin S /\ 4 \notin S /\ 5 \notin S
               /\ 6 \in S
      BY <2>6
    <2>7. CASE /\ 1 \notin S /\ 2 \notin S /\ 3 \notin S /\ 4 \notin S /\ 5 \notin S
               /\ 6 \notin S /\ 7 \in S
      BY <2>7
    <2>8. CASE /\ 1 \notin S /\ 2 \notin S /\ 3 \notin S /\ 4 \notin S /\ 5 \notin S
               /\ 6 \notin S /\ 7 \notin S /\ 8 \in S
      BY <2>8
    <2>9. CASE /\ 1 \notin S /\ 2 \notin S /\ 3 \notin S /\ 4 \notin S /\ 5 \notin S
               /\ 6 \notin S /\ 7 \notin S /\ 8 \notin S /\ 9 \in S
      BY <2>9
    <2>10. CASE \A i \in 1..9 : i \notin S
      <3>1. \A y \in S : y = 10 BY <2>10
      <3>2. 10 \in S BY <3>1
      <3> QED BY <3>1, <3>2
    <2>11. \/ 1 \in S \/ 2 \in S \/ 3 \in S \/ 4 \in S \/ 5 \in S \/ 6 \in S \/ 7 \in S
           \/ 8 \in S \/ 9 \in S \/ \A i \in 1..9 : i \notin S
      OBVIOUS
    <2> HIDE DEF Least
    <2> QED BY <2>1, <2>2, <2>3, <2>4, <2>5, <2>6, <2>7, <2>8, <2>9, <2>10, <2>11
  <1> QED BY <1>1 DEF Min

Firing == {i \in DOMAIN Arms : Arms[i].when}

(* The verdict is the arm of a condition that holds, with none that holds  *)
(* ahead of it.                                                            *)
LEMMA VerdictIsFirst ==
    /\ Firing \in SUBSET (1..10) /\ 10 \in Firing
    /\ Min(Firing) \in Firing
    /\ \A k \in Firing : Min(Firing) <= k
    /\ Verdict = Arms[Min(Firing)].says
  <1>1. DOMAIN Arms = 1..10 BY DEF Arms
  <1>2. Firing \in SUBSET (1..10) BY <1>1 DEF Firing
  <1>3. Arms[10].when BY DEF Arms
  <1>4. 10 \in Firing BY <1>1, <1>3 DEF Firing
  <1>5. Verdict = Arms[Min(Firing)].says BY DEF Verdict, FirstOf, Firing
  <1> QED BY <1>2, <1>4, <1>5, FirstArm

(* What the order of the arms comes to for the five kills.                 *)
LEMMA VerdictRanks ==
    /\ Verdict \in Verdicts
    /\ rep.missing => Verdict \in MayBeCalled["skill"]
    /\ rep.overBudget => Verdict \in MayBeCalled["budget"]
    /\ rep.capped => Verdict \in MayBeCalled["cap"]
    /\ rep.stalled => Verdict \in MayBeCalled["stall"]
    /\ rep.scanErr => Verdict \in MayBeCalled["reader"]
  <1> DEFINE m == Min(Firing)
  <1>1. m \in 1..10 /\ Verdict = Arms[m].says /\ \A k \in Firing : m <= k
    BY VerdictIsFirst
  <1>2. /\ Arms[1].says = "no skill" /\ Arms[2].says = "budget" /\ Arms[3].says = "cap"
        /\ Arms[4].says = "stalled" /\ Arms[5].says = "unreadable" /\ Arms[6].says = "auth"
        /\ Arms[7].says = "limit" /\ Arms[8].says = "no work" /\ Arms[9].says = "crash"
        /\ Arms[10].says = "fine"
    BY DEF Arms
  <1>7. DOMAIN Arms = 1..10 BY DEF Arms
  <1>8. /\ rep.missing => Arms[1].when
        /\ rep.overBudget => Arms[2].when
        /\ rep.capped => Arms[3].when
        /\ rep.stalled => Arms[4].when
        /\ rep.scanErr => Arms[5].when
    BY DEF Arms
  <1> HIDE DEF m
  <1>3. m = 1 \/ m = 2 \/ m = 3 \/ m = 4 \/ m = 5 \/ m = 6 \/ m = 7 \/ m = 8 \/ m = 9 \/ m = 10
    BY <1>1
  <1>4. Verdict \in Verdicts
    BY <1>1, <1>2, <1>3 DEF Verdicts
  <1>5. /\ rep.missing => m <= 1
        /\ rep.overBudget => m <= 2
        /\ rep.capped => m <= 3
        /\ rep.stalled => m <= 4
        /\ rep.scanErr => m <= 5
    BY <1>1, <1>7, <1>8 DEF Firing
  <1>6. /\ m <= 1 => Verdict \in MayBeCalled["skill"]
        /\ m <= 2 => Verdict \in MayBeCalled["budget"]
        /\ m <= 3 => Verdict \in MayBeCalled["cap"]
        /\ m <= 4 => Verdict \in MayBeCalled["stall"]
        /\ m <= 5 => Verdict \in MayBeCalled["reader"]
    <2>1. /\ MayBeCalled["skill"] = {"no skill"}
          /\ MayBeCalled["budget"] = {"no skill", "budget"}
          /\ MayBeCalled["cap"] = {"no skill", "budget", "cap"}
          /\ MayBeCalled["stall"] = {"no skill", "budget", "cap", "stalled"}
          /\ MayBeCalled["reader"] = {"no skill", "budget", "cap", "stalled", "unreadable"}
      BY DEF MayBeCalled
    <2>2. /\ m <= 1 => m = 1
          /\ m <= 2 => m = 1 \/ m = 2
          /\ m <= 3 => m = 1 \/ m = 2 \/ m = 3
          /\ m <= 4 => m = 1 \/ m = 2 \/ m = 3 \/ m = 4
          /\ m <= 5 => m = 1 \/ m = 2 \/ m = 3 \/ m = 4 \/ m = 5
      BY <1>3
    <2>3. /\ m = 1 => Verdict = "no skill"
          /\ m = 2 => Verdict = "budget"
          /\ m = 3 => Verdict = "cap"
          /\ m = 4 => Verdict = "stalled"
          /\ m = 5 => Verdict = "unreadable"
      BY <1>1, <1>2
    <2> QED BY <2>1, <2>2, <2>3
  <1> QED BY <1>4, <1>5, <1>6

-----------------------------------------------------------------------------
(* Type correctness.                                                       *)

(* The fields of a report.                                                 *)
LEMMA RepFields ==
    ASSUME NEW x \in RepType
    PROVE  /\ x.missing \in BOOLEAN /\ x.creates \in Nat /\ x.capped \in BOOLEAN
           /\ x.scanErr \in BOOLEAN /\ x.result \in BOOLEAN /\ x.idle \in BOOLEAN
           /\ x.auth \in BOOLEAN /\ x.limit \in BOOLEAN /\ x.failed \in BOOLEAN
           /\ x.stalled \in BOOLEAN /\ x.overBudget \in BOOLEAN
  BY DEF RepType

(* A kill leaves a process that is gone, or as it was.                     *)
LEMMA KillType ==
    ASSUME child \in ChildType, NEW who \in Killers, Kill(who)
    PROVE  child' \in ChildType
  BY DEF Kill, ChildType

(* An event keeps the report a report, and what it has latched.            *)
LEMMA ObservedType ==
    ASSUME TypeOK, NEW e \in Events
    PROVE  /\ Observed(e) \in RepType
           /\ Observed(e).creates >= rep.creates
           /\ Observed(e).capped = rep.capped
           /\ Observed(e).scanErr = rep.scanErr
           /\ rep.missing => Observed(e).missing
           /\ e = "noskill" => Observed(e).missing
  <1>1. rep \in RepType BY DEF TypeOK
  <1>2. /\ (IF e = "create" THEN rep.creates + 1 ELSE rep.creates) \in Nat
        /\ (IF e = "create" THEN rep.creates + 1 ELSE rep.creates) >= rep.creates
    BY <1>1, RepFields
  <1>3. /\ (rep.missing \/ e = "noskill") \in BOOLEAN
        /\ (rep.result \/ e \in {"done", "empty", "refused", "limit"}) \in BOOLEAN
        /\ (rep.limit \/ e = "limit") \in BOOLEAN
        /\ (IF e \in {"done", "refused", "limit"} THEN FALSE
            ELSE IF rep.result THEN rep.idle ELSE e = "empty") \in BOOLEAN
        /\ (IF e \in {"done", "empty", "limit"} THEN FALSE
            ELSE rep.auth \/ e = "refused") \in BOOLEAN
    BY <1>1, RepFields
  <1>4. /\ Observed(e) \in RepType
        /\ Observed(e).missing = (rep.missing \/ e = "noskill")
        /\ Observed(e).creates = (IF e = "create" THEN rep.creates + 1 ELSE rep.creates)
        /\ Observed(e).capped = rep.capped /\ Observed(e).scanErr = rep.scanErr
    <2> DEFINE a == rep.missing \/ e = "noskill"
               b == IF e = "create" THEN rep.creates + 1 ELSE rep.creates
               c == rep.result \/ e \in {"done", "empty", "refused", "limit"}
               d == IF e \in {"done", "refused", "limit"} THEN FALSE
                    ELSE IF rep.result THEN rep.idle ELSE e = "empty"
               f == IF e \in {"done", "empty", "limit"} THEN FALSE
                    ELSE rep.auth \/ e = "refused"
               g == rep.limit \/ e = "limit"
    <2>1. /\ a \in BOOLEAN /\ b \in Nat /\ c \in BOOLEAN /\ d \in BOOLEAN
          /\ f \in BOOLEAN /\ g \in BOOLEAN
      BY <1>2, <1>3
    <2>2. Observed(e) = [rep EXCEPT !.missing = a, !.creates = b, !.result = c,
                                    !.idle = d, !.auth = f, !.limit = g]
      BY DEF Observed
    <2> HIDE DEF a, b, c, d, f, g
    <2> DEFINE y == [rep EXCEPT !.missing = a, !.creates = b, !.result = c,
                                !.idle = d, !.auth = f, !.limit = g]
    <2>3. /\ y \in RepType /\ y.missing = a /\ y.creates = b
          /\ y.capped = rep.capped /\ y.scanErr = rep.scanErr
      <3>1. y \in RepType BY <1>1, <2>1 DEF RepType
      <3>2. y.missing = a BY <1>1, <2>1 DEF RepType
      <3>3. y.creates = b BY <1>1, <2>1 DEF RepType
      <3>4. y.capped = rep.capped BY <1>1, <2>1 DEF RepType
      <3>5. y.scanErr = rep.scanErr BY <1>1, <2>1 DEF RepType
      <3> QED BY <3>1, <3>2, <3>3, <3>4, <3>5
    <2> HIDE DEF y
    <2>4. Observed(e) = y BY <2>2 DEF y
    <2> QED BY <2>3, <2>4 DEF a, b
  <1> QED BY <1>2, <1>4

(* Reading an event keeps the types.                                       *)
LEMMA ReadsType ==
    ASSUME FlagsAssumption, BoundAssumption, TypeOK, Reads
    PROVE  TypeOK'
  <1> DEFINE e == Head(pipe)
             r == Observed(e)
             caps == CapReached(r) /\ ~r.capped
  <1>1. pipe \in Seq(Events) /\ pipe # <<>> /\ Len(pipe) <= PipeRoom BY DEF TypeOK, Reads
  <1>2. e \in Events /\ Tail(pipe) \in Seq(Events) /\ Len(Tail(pipe)) <= PipeRoom
    BY <1>1, BoundAssumption
  <1>3. r \in RepType /\ r.creates >= rep.creates /\ r.capped = rep.capped
    BY <1>2, ObservedType
  <1>4. rep' = [r EXCEPT !.capped = @ \/ caps] BY DEF Reads
  <1>5. flags.maxIssues \in Nat BY FlagsAssumption DEF TypeOK
  <1> HIDE DEF r
  <1>6. rep' \in RepType BY <1>3, <1>4 DEF RepType
  <1>7. rep'.creates = r.creates /\ (rep'.capped => r.capped \/ CapReached(r))
    BY <1>3, <1>4 DEF RepType
  <1>11. rep \in RepType /\ (rep.capped => CapReached(rep)) BY DEF TypeOK
  <1>12. r.creates \in Nat /\ rep.creates \in Nat BY <1>3, <1>11, RepFields
  <1>8. r.capped => CapReached(r)
    BY <1>3, <1>5, <1>11, <1>12 DEF CapReached
  <1>13. flags' = flags BY DEF Reads
  <1>9. (rep.capped => CapReached(rep))'
    BY <1>7, <1>8, <1>13 DEF CapReached
  <1>10. child' \in ChildType
    <2>1. child \in ChildType BY DEF TypeOK
    <2>2. child' = child \/ Kill("skill") \/ Kill("cap") BY DEF Reads
    <2>3. "skill" \in Killers /\ "cap" \in Killers BY DEF Killers
    <2> QED BY <2>1, <2>2, <2>3, KillType
  <1>14. /\ pipe' = Tail(pipe) /\ quiet' = FALSE
         /\ UNCHANGED <<flags, sent, held, pc, watch, timer, beat, cancelled, hist>>
    BY DEF Reads
  <1>15. (pipe \in Seq(Events) /\ Len(pipe) <= PipeRoom)' BY <1>2, <1>14
  <1>16. (rep \in RepType /\ (rep.capped => CapReached(rep)))' BY <1>6, <1>9
  <1>17. quiet' \in BOOLEAN BY <1>14
  <1> QED BY <1>10, <1>14, <1>15, <1>16, <1>17 DEF TypeOK

(* The invariant that TypeOK is, one step at a time: the process and its   *)
(* end of the pipe.                                                        *)
LEMMA ProcessType ==
    ASSUME FlagsAssumption, BoundAssumption, TypeOK, Child
    PROVE  TypeOK'
  <1>1. CASE \E e \in Events : Writes(e)
    <2>1. PICK e \in Events : Writes(e) BY <1>1
    <2>2. (pipe \in Seq(Events) /\ Len(pipe) <= PipeRoom /\ sent \in 0..MaxEvents)'
      BY <2>1, BoundAssumption DEF TypeOK, Writes
    <2> QED BY <2>1, <2>2 DEF TypeOK, Writes, CapReached
  <1>2. CASE \E ok \in BOOLEAN, left \in {"none", "stdout", "stderr"} : Exits(ok, left)
    <2>1. PICK ok \in BOOLEAN, left \in {"none", "stdout", "stderr"} : Exits(ok, left)
      BY <1>2
    <2>2. child' \in ChildType BY <2>1 DEF Exits, ChildType, Killers
    <2> QED BY <2>1, <2>2 DEF TypeOK, Exits, CapReached
  <1>3. CASE LetsGo BY <1>3 DEF TypeOK, LetsGo, CapReached
  <1> QED BY <1>1, <1>2, <1>3 DEF Child

(* The reader's other steps and the teardown.                              *)
LEMMA TeardownType ==
    ASSUME FlagsAssumption, BoundAssumption, TypeOK, Caller, ~Reads
    PROVE  TypeOK'
  <1> USE DEF TypeOK, CapReached, process
  <1>1. CASE ReadFails
    <2>1. rep' \in RepType /\ rep'.creates = rep.creates /\ rep'.capped = rep.capped
      BY <1>1 DEF ReadFails, RepType
    <2> QED BY <1>1, <2>1 DEF ReadFails
  <1>2. CASE ReadsToTheEnd BY <1>2 DEF ReadsToTheEnd
  <1>3. CASE StopsHeartbeat
    <2>1. beat' \in [at : {"sleep", "ticked", "speak", "gone"}, done : BOOLEAN]
      BY <1>3 DEF StopsHeartbeat
    <2> QED BY <1>3, <2>1 DEF StopsHeartbeat
  <1>4. CASE JoinsHeartbeat BY <1>4 DEF JoinsHeartbeat
  <1>5. CASE KillsUnread
    <2>1. child' = child \/ Kill("reader") BY <1>5 DEF KillsUnread
    <2>2. child' \in ChildType BY <2>1, KillType DEF Killers
    <2> QED BY <1>5, <2>2 DEF KillsUnread
  <1>6. CASE Waits
    <2>1. (~child.ok) \in BOOLEAN OBVIOUS
    <2>2. rep' \in RepType /\ rep'.creates = rep.creates /\ rep'.capped = rep.capped
      BY <1>6, <2>1 DEF Waits, RepType
    <2> QED BY <1>6, <2>2 DEF Waits
  <1>7. CASE LoadsFlags
    <2>1. rep' \in RepType /\ rep'.creates = rep.creates /\ rep'.capped = rep.capped
      BY <1>7 DEF LoadsFlags, RepType
    <2> QED BY <1>7, <2>1 DEF LoadsFlags
  <1>8. CASE Returns
    <2>1. rep' \in RepType /\ rep'.creates = rep.creates /\ rep'.capped = rep.capped
      BY <1>8, VerdictRanks DEF Returns, RepType
    <2>2. rep.result \in BOOLEAN BY RepFields
    <2> QED BY <1>8, <2>1, <2>2 DEF Returns
  <1> QED BY <1>1, <1>2, <1>3, <1>4, <1>5, <1>6, <1>7, <1>8 DEF Caller

(* The goroutines and the clock.                                           *)
LEMMA GoroutineType ==
    ASSUME TypeOK, Watchdog \/ Timer \/ Heartbeat \/ Silence \/ Interrupt \/ ContextKills
    PROVE  TypeOK'
  <1> USE DEF TypeOK, CapReached, process
  <1>1. CASE StallNoticed BY <1>1 DEF StallNoticed
  <1>2. CASE StallKills
    <2>1. child' \in ChildType BY <1>2, KillType DEF StallKills, Killers
    <2> QED BY <1>2, <2>1 DEF StallKills
  <1>3. CASE WatchStopped BY <1>3 DEF WatchStopped
  <1>4. CASE LimitPasses BY <1>4 DEF LimitPasses
  <1>5. CASE LimitKills
    <2>1. child' \in ChildType BY <1>5, KillType DEF LimitKills, Killers
    <2> QED BY <1>5, <2>1 DEF LimitKills
  <1>6. CASE BeatTicks BY <1>6 DEF BeatTicks, BeatGoes
  <1>7. CASE BeatAsksAgain BY <1>7 DEF BeatAsksAgain, BeatGoes
  <1>8. CASE BeatStays BY <1>8 DEF BeatStays, BeatGoes
  <1>9. CASE BeatSpeaks
    <2>1. (hist.late \/ hist.finished) \in BOOLEAN OBVIOUS
    <2> QED BY <1>9, <2>1 DEF BeatSpeaks, BeatGoes
  <1>10. CASE BeatStopped BY <1>10 DEF BeatStopped, BeatGoes
  <1>11. CASE Silence BY <1>11 DEF Silence
  <1>12. CASE Interrupt BY <1>12 DEF Interrupt
  <1>13. CASE ContextKills
    <2>1. child' \in ChildType BY <1>13, KillType DEF ContextKills, Killers
    <2> QED BY <1>13, <2>1 DEF ContextKills
  <1> QED BY <1>1, <1>2, <1>3, <1>4, <1>5, <1>6, <1>7, <1>8, <1>9, <1>10, <1>11, <1>12, <1>13
      DEF Watchdog, Timer, Heartbeat

(* TypeOK is an invariant.                                                 *)
THEOREM TypeCorrect == Spec => []TypeOK
  <1>1. Init => TypeOK
    <2> SUFFICES ASSUME Init PROVE TypeOK OBVIOUS
    <2>1. rep \in RepType /\ ~rep.capped BY DEF Init, NoReport, RepType, Verdicts
    <2>2. child \in ChildType BY DEF Init, ChildType, Killers
    <2>3. pipe \in Seq(Events) /\ Len(pipe) <= PipeRoom /\ sent \in 0..MaxEvents
      BY BoundAssumption DEF Init
    <2> QED BY <2>1, <2>2, <2>3 DEF Init, TypeOK
  <1>2. TypeOK /\ [Next]_vars => TypeOK'
    <2> SUFFICES ASSUME TypeOK, [Next]_vars PROVE TypeOK' OBVIOUS
    <2>1. CASE Reads BY <2>1, ReadsType, FlagsAssumption, BoundAssumption
    <2>2. CASE Caller /\ ~Reads BY <2>2, TeardownType, FlagsAssumption, BoundAssumption
    <2>3. CASE Child BY <2>3, ProcessType, FlagsAssumption, BoundAssumption
    <2>4. CASE Watchdog \/ Timer \/ Heartbeat \/ Silence \/ Interrupt \/ ContextKills
      BY <2>4, GoroutineType
    <2>5. CASE UNCHANGED vars BY <2>5 DEF vars, process, TypeOK, CapReached
    <2> QED BY <2>1, <2>2, <2>3, <2>4, <2>5 DEF Next
  <1> QED BY <1>1, <1>2, PTL DEF Spec

-----------------------------------------------------------------------------
(* A run polako killed is reported as killed.                              *)

(* Who killed the process has left a mark first, the marks stay, and the   *)
(* teardown reads them only once the process is gone and cannot be killed  *)
(* any more.                                                               *)
Marked ==
    /\ (child.up => child.by = "nobody")
    /\ (child.by = "skill" => rep.missing)
    /\ (child.by = "cap" => rep.capped)
    /\ (child.by = "reader" => rep.scanErr)
    /\ (child.by = "stall" => watch.stalled)
    /\ (child.by = "budget" => timer.overspent)

KillInv ==
    /\ Marked
    /\ (pc \in {"load", "verdict", "returned"} => ~child.up)
    /\ (pc \in {"verdict", "returned"} =>
          /\ (child.by = "stall" => rep.stalled)
          /\ (child.by = "budget" => rep.overBudget))
    /\ KillIsNamed

(* Reading an event marks before it kills.                                 *)
LEMMA ReadsMarks ==
    ASSUME FlagsAssumption, BoundAssumption, TypeOK, KillInv, Reads
    PROVE  KillInv'
  <1> DEFINE e == Head(pipe)
             r == Observed(e)
             caps == CapReached(r) /\ ~r.capped
  <1>1. e \in Events BY DEF TypeOK, Reads
  <1>2. /\ r \in RepType /\ r.capped = rep.capped /\ r.scanErr = rep.scanErr
        /\ (rep.missing => r.missing) /\ (e = "noskill" => r.missing)
    BY <1>1, ObservedType
  <1>3. rep' = [r EXCEPT !.capped = @ \/ caps] BY DEF Reads
  <1>4. \/ e = "noskill" /\ Kill("skill")
        \/ caps /\ Kill("cap")
        \/ child' = child
    BY DEF Reads
  <1> HIDE DEF e, r
  <1>5. /\ rep'.missing = r.missing /\ rep'.scanErr = r.scanErr
        /\ (rep.capped \/ caps => rep'.capped)
    BY <1>2, <1>3 DEF RepType
  <1>6. pc = "scan" /\ pc' = "scan" /\ watch' = watch /\ timer' = timer BY DEF Reads
  <1>7. Marked'
    BY <1>2, <1>4, <1>5, <1>6 DEF KillInv, Marked, Kill
  <1> QED BY <1>6, <1>7 DEF KillInv, KillIsNamed

(* The verdict names a mark, and every kill left one.                      *)
LEMMA ReturnsNamed ==
    ASSUME TypeOK, KillInv, Returns
    PROVE  KillInv'
  <1>1. pc = "verdict" /\ pc' = "returned" /\ child' = child /\ watch' = watch
    BY DEF Returns, process
  <1>2. timer'.overspent = timer.overspent BY DEF Returns, TypeOK
  <1>3. /\ rep'.verdict = Verdict /\ rep'.missing = rep.missing
        /\ rep'.capped = rep.capped /\ rep'.scanErr = rep.scanErr
        /\ rep'.stalled = rep.stalled /\ rep'.overBudget = rep.overBudget
    BY DEF Returns, TypeOK, RepType
  <1>4. DOMAIN MayBeCalled = {"skill", "budget", "cap", "stall", "reader"}
    BY DEF MayBeCalled
  <1>5. child.by \in DOMAIN MayBeCalled => Verdict \in MayBeCalled[child.by]
    BY <1>1, <1>4, VerdictRanks DEF KillInv, Marked
  <1>6. Marked' BY <1>1, <1>2, <1>3 DEF KillInv, Marked
  <1> QED BY <1>1, <1>3, <1>5, <1>6 DEF KillInv, KillIsNamed

(* The other steps of the caller.                                          *)
LEMMA TeardownMarks ==
    ASSUME TypeOK, KillInv, Caller, ~Reads, ~Returns
    PROVE  KillInv'
  <1> USE DEF KillInv, Marked, KillIsNamed, process
  <1>1. CASE ReadFails
    <2>1. /\ rep'.missing = rep.missing /\ rep'.capped = rep.capped /\ rep'.scanErr
      BY <1>1 DEF ReadFails, TypeOK, RepType
    <2> QED BY <1>1, <2>1 DEF ReadFails
  <1>2. CASE ReadsToTheEnd BY <1>2 DEF ReadsToTheEnd
  <1>3. CASE StopsHeartbeat BY <1>3 DEF StopsHeartbeat
  <1>4. CASE JoinsHeartbeat BY <1>4 DEF JoinsHeartbeat
  <1>5. CASE KillsUnread
    <2>1. (rep.scanErr /\ Kill("reader")) \/ child' = child BY <1>5 DEF KillsUnread
    <2> QED BY <1>5, <2>1 DEF KillsUnread, Kill
  <1>6. CASE Waits
    <2>1. /\ rep'.missing = rep.missing /\ rep'.capped = rep.capped
          /\ rep'.scanErr = rep.scanErr
      BY <1>6 DEF Waits, TypeOK, RepType
    <2> QED BY <1>6, <2>1 DEF Waits
  <1>7. CASE LoadsFlags
    <2>1. /\ rep'.missing = rep.missing /\ rep'.capped = rep.capped
          /\ rep'.scanErr = rep.scanErr
          /\ rep'.stalled = watch.stalled /\ rep'.overBudget = timer.overspent
      BY <1>7 DEF LoadsFlags, TypeOK, RepType
    <2> QED BY <1>7, <2>1 DEF LoadsFlags
  <1> QED BY <1>1, <1>2, <1>3, <1>4, <1>5, <1>6, <1>7 DEF Caller

(* The process and the goroutines around it.                               *)
LEMMA OthersMark ==
    ASSUME TypeOK, KillInv,
           Child \/ Watchdog \/ Timer \/ Heartbeat \/ Silence \/ Interrupt \/ ContextKills
    PROVE  KillInv'
  <1> USE DEF KillInv, Marked, KillIsNamed, process
  <1>1. CASE \E e \in Events : Writes(e) BY <1>1 DEF Writes
  <1>2. CASE \E ok \in BOOLEAN, left \in {"none", "stdout", "stderr"} : Exits(ok, left)
    <2>1. child.up /\ ~child'.up /\ child'.by = "nobody" /\ UNCHANGED <<pc, rep, watch, timer>>
      BY <1>2 DEF Exits
    <2>2. "nobody" \notin DOMAIN MayBeCalled BY DEF MayBeCalled
    <2> QED BY <2>1, <2>2
  <1>3. CASE LetsGo BY <1>3 DEF LetsGo
  <1>4. CASE StallNoticed
    <2>1. watch'.stalled BY <1>4 DEF StallNoticed
    <2> QED BY <1>4, <2>1 DEF StallNoticed
  <1>5. CASE StallKills
    <2>1. watch.stalled /\ watch'.stalled = watch.stalled BY <1>5 DEF StallKills, TypeOK
    <2> QED BY <1>5, <2>1 DEF StallKills, Kill
  <1>6. CASE WatchStopped
    <2>1. watch'.stalled = watch.stalled BY <1>6 DEF WatchStopped, TypeOK
    <2> QED BY <1>6, <2>1 DEF WatchStopped
  <1>7. CASE LimitPasses
    <2>1. timer'.overspent BY <1>7 DEF LimitPasses
    <2> QED BY <1>7, <2>1 DEF LimitPasses
  <1>8. CASE LimitKills
    <2>1. timer.overspent /\ timer'.overspent = timer.overspent BY <1>8 DEF LimitKills, TypeOK
    <2> QED BY <1>8, <2>1 DEF LimitKills, Kill
  <1>9. CASE Heartbeat
    BY <1>9 DEF Heartbeat, BeatTicks, BeatAsksAgain, BeatStays, BeatSpeaks, BeatStopped, BeatGoes
  <1>10. CASE Silence BY <1>10 DEF Silence
  <1>11. CASE Interrupt BY <1>11 DEF Interrupt
  <1>12. CASE ContextKills
    <2>1. "context" \notin DOMAIN MayBeCalled BY DEF MayBeCalled
    <2> QED BY <1>12, <2>1 DEF ContextKills, Kill
  <1> QED BY <1>1, <1>2, <1>3, <1>4, <1>5, <1>6, <1>7, <1>8, <1>9, <1>10, <1>11, <1>12
      DEF Child, Watchdog, Timer

(* Whatever the order of events, kills and exits, a run polako killed is   *)
(* reported as killed, for the reason it was or a stronger one.            *)
THEOREM KillNamed == Spec => []KillIsNamed
  <1>1. Init => KillInv
    BY DEF Init, KillInv, Marked, KillIsNamed, NoReport
  <1>2. TypeOK /\ KillInv /\ [Next]_vars => KillInv'
    <2> SUFFICES ASSUME TypeOK, KillInv, [Next]_vars PROVE KillInv' OBVIOUS
    <2>1. CASE Reads BY <2>1, ReadsMarks, FlagsAssumption, BoundAssumption
    <2>2. CASE Returns BY <2>2, ReturnsNamed
    <2>3. CASE Caller /\ ~Reads /\ ~Returns BY <2>3, TeardownMarks
    <2>4. CASE Child \/ Watchdog \/ Timer \/ Heartbeat \/ Silence \/ Interrupt \/ ContextKills
      BY <2>4, OthersMark
    <2>5. CASE UNCHANGED vars BY <2>5 DEF vars, process, KillInv, Marked, KillIsNamed
    <2> QED BY <2>1, <2>2, <2>3, <2>4, <2>5 DEF Next
  <1>3. KillInv => KillIsNamed BY DEF KillInv
  <1> QED BY <1>1, <1>2, <1>3, TypeCorrect, PTL DEF Spec

-----------------------------------------------------------------------------
(* No heartbeat after the finish line.                                     *)

(* The heartbeat is joined before the teardown goes on, and stays gone.    *)
BeatInv ==
    /\ (pc \in {"reap", "wait", "load", "verdict", "returned"} => beat.at = "gone")
    /\ (hist.finished => pc = "returned")
    /\ ~hist.late

(* No "still working" line is printed once the finish line is.             *)
THEOREM BeatsEnd == Spec => []NoBeatAfterFinish
  <1>1. Init => BeatInv
    BY DEF Init, BeatInv
  <1>2. TypeOK /\ BeatInv /\ [Next]_vars => BeatInv'
    <2> SUFFICES ASSUME TypeOK, BeatInv, [Next]_vars PROVE BeatInv' OBVIOUS
    <2> USE DEF BeatInv, process
    <2>1. CASE Caller
      <3>1. CASE Returns
        <4>1. beat' = beat /\ pc = "verdict" /\ pc' = "returned" BY <3>1 DEF Returns
        <4>2. hist'.late = hist.late BY <3>1 DEF Returns, TypeOK
        <4> QED BY <4>1, <4>2
      <3>2. CASE StopsHeartbeat BY <3>2 DEF StopsHeartbeat
      <3>3. CASE Reads \/ ReadFails \/ ReadsToTheEnd \/ JoinsHeartbeat \/ KillsUnread \/ Waits
                 \/ LoadsFlags
        BY <3>3 DEF Reads, ReadFails, ReadsToTheEnd, JoinsHeartbeat, KillsUnread, Waits, LoadsFlags
      <3> QED BY <2>1, <3>1, <3>2, <3>3 DEF Caller
    <2>2. CASE Heartbeat
      <3>1. beat.at # "gone" /\ pc' = pc
        BY <2>2 DEF Heartbeat, BeatTicks, BeatAsksAgain, BeatStays, BeatSpeaks, BeatStopped, BeatGoes
      <3>2. ~hist.finished BY <3>1
      <3>3. CASE hist' = hist BY <3>1, <3>3
      <3>4. CASE BeatSpeaks
        <4>1. ~hist'.late /\ hist'.finished = hist.finished BY <3>2, <3>4 DEF BeatSpeaks, TypeOK
        <4> QED BY <3>1, <4>1
      <3> QED BY <2>2, <3>3, <3>4 DEF Heartbeat, BeatTicks, BeatAsksAgain, BeatStays, BeatStopped
    <2>3. CASE Child BY <2>3 DEF Child, Writes, Exits, LetsGo
    <2>4. CASE Watchdog BY <2>4 DEF Watchdog, StallNoticed, StallKills, WatchStopped
    <2>5. CASE Timer BY <2>5 DEF Timer, LimitPasses, LimitKills
    <2>6. CASE Silence \/ Interrupt \/ ContextKills BY <2>6 DEF Silence, Interrupt, ContextKills
    <2>7. CASE UNCHANGED vars BY <2>7 DEF vars
    <2> QED BY <2>1, <2>2, <2>3, <2>4, <2>5, <2>6, <2>7 DEF Next
  <1>3. BeatInv => NoBeatAfterFinish BY DEF BeatInv, NoBeatAfterFinish
  <1> QED BY <1>1, <1>2, <1>3, TypeCorrect, PTL DEF Spec
=============================================================================
