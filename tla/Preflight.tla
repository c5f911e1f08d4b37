------------------------------ MODULE Preflight ------------------------------
(***************************************************************************)
(* What polako work and polako design check before anything runs: the      *)
(* tools, the repository, the gates on its queue, label, effort flags and  *)
(* versions.  A dry run passes every gate, says what a real one would have *)
(* refused, and writes nothing; then it names the issue that a real run    *)
(* would work first.  A release is a number, NoRelease anything else.      *)
(***************************************************************************)
EXTENDS Integers, FiniteSets

CONSTANTS
    Settings,     \* what a call may find: repository, label, flags, CLI, binary
    PluginCopies, \* what claude plugin list may hold: sets of copies
    Queues        \* what the backlog may hold: ready and blocked issues, PR states

ASSUME PreAssumption ==
    /\ \A s \in Settings : s.dry \in BOOLEAN /\ s.binary \in Nat
    /\ \A copies \in PluginCopies :
          IsFiniteSet(copies) /\ \A c \in copies : c.version \in Nat

VARIABLES
    prePc,        \* the check the call is at
    preEnv,       \* the settings of this call, and the copies installed
    preSeen,      \* what has been read: plugin version, published release
    preNotes,     \* what a dry run said a real run would refuse
    preWrote,     \* what the call has written anywhere
    preEnd        \* how it ended, and what a dry run said would come next

preVars == <<prePc, preEnv, preSeen, preNotes, preWrote, preEnd>>

NoRelease == 0
NothingYet == [how |-> "none", issue |-> 0, next |-> "none"]
PreInit ==
    /\ prePc = "rest" /\ preSeen = [plugin |-> NoRelease, published |-> NoRelease]
    /\ preEnv = [s |-> [dry |-> FALSE], copies |-> {}]
    /\ preNotes = {} /\ preWrote = {} /\ preEnd = NothingYet
PreCalled ==
    /\ prePc = "rest" /\ prePc' = "tools"
    /\ preEnv' \in {[s |-> s, copies |-> c] : s \in Settings, c \in PluginCopies}
    /\ UNCHANGED <<preSeen, preNotes, preWrote, preEnd>>

Given == preEnv.s
PreAt(pc) == prePc = pc /\ UNCHANGED <<preEnv, preSeen>>
PreGoes(pc) == prePc' = pc /\ UNCHANGED preEnd
Refuses(why) == prePc' = "end" /\ preEnd' = [preEnd EXCEPT !.how = why]

(* refuseOrNote: a gate that is shut refuses a real run; a dry run notes   *)
(* it and goes on.                                                         *)
RefuseOrNote(shut, gate, pc) ==
    CASE ~shut -> PreGoes(pc) /\ UNCHANGED preNotes
      [] shut /\ ~Given.dry -> Refuses(gate) /\ UNCHANGED preNotes
      [] OTHER -> PreGoes(pc) /\ preNotes' = preNotes \cup {gate}

(* preflightShared: the tools, the notify command, the checkout and the    *)
(* repository; one that is not there refuses a dry run too.  The shift log *)
(* is opened once the repository is known, and a dry run has none.         *)
PreReads ==
    /\ PreAt("tools") /\ UNCHANGED preNotes
    /\ \/ Refuses("io") /\ UNCHANGED preWrote
       \/ /\ PreGoes(IF Given.verb = "work" THEN "queue" ELSE "effort")
          /\ preWrote' \in {preWrote, preWrote \cup (IF Given.dry THEN {} ELSE {"shift log"})}

(* workGates: the queue gate, the label gate, whose lookup may fail, and   *)
(* the label a question is flagged with, declared unless nothing may be    *)
(* written; the create may fail.                                           *)
QueueGateShut == Given.public /\ Given.label = "none" /\ ~Given.ungated
QueueGate ==
    /\ PreAt("queue") /\ UNCHANGED preWrote
    /\ RefuseOrNote(QueueGateShut, "queue", IF Given.label = "none" THEN "declare" ELSE "label")
LabelGate ==
    /\ PreAt("label") /\ UNCHANGED preWrote
    /\ \/ Refuses("io") /\ UNCHANGED preNotes
       \/ RefuseOrNote(Given.label = "missing", "label", "declare")
Declares ==
    /\ PreAt("declare") /\ UNCHANGED preNotes /\ PreGoes("effort")
    /\ preWrote' \in {preWrote, preWrote \cup (IF Given.dry THEN {} ELSE {"label"})}

(* effortFlagGate: no flag, no question; an exported level that disagrees, *)
(* or a CLI whose help does not list the flag, shuts it, and a CLI that    *)
(* will not say leaves it open.                                            *)
EffortGateShut == Given.effort \in {"overridden", "unlisted"}
EffortGate ==
    /\ PreAt("effort") /\ UNCHANGED preWrote
    /\ RefuseOrNote(EffortGateShut, "effort", "versions")

(* installedVersion: of the copies a session loads, the session's own win; *)
(* several that differ name no version.                                    *)
Loadable == {c \in preEnv.copies : c.enabled}
InstalledCopies == {c \in Loadable : c.scope # "session"}
Candidates ==
    LET session == {c \in Loadable : c.scope = "session"}
    IN  IF Cardinality(Loadable) > 1 /\ session # {} THEN session ELSE Loadable
InstalledVersion ==
    IF Cardinality({c.version : c \in Candidates}) = 1
    THEN (CHOOSE c \in Candidates : TRUE).version ELSE NoRelease
ReadsVersions ==
    /\ prePc = "versions" /\ prePc' = "skew" /\ UNCHANGED <<preEnv, preNotes, preWrote, preEnd>>
    /\ preSeen' \in {[plugin |-> p, published |-> n] :
                       p \in {InstalledVersion, NoRelease}, n \in {NoRelease, Given.published}}

(* skewComparison and versionSkewGate: our plugin, both halves releases,   *)
(* and the plugin the older one.                                           *)
Comparable == Given.skill = "ours" /\ Given.binary # NoRelease /\ preSeen.plugin # NoRelease
Behind == Comparable /\ preSeen.plugin < Given.binary
SkewGate ==
    /\ PreAt("skew") /\ UNCHANGED preWrote
    /\ RefuseOrNote(Behind /\ ~Given.ignoreSkew, "skew", "checked")

(* A call that passed: a real one starts; a dry run resolves the issue a   *)
(* real one would work, as dryRun and printIssueInvocation do.  A pull     *)
(* request on its branch decides what would come next.                     *)
LowestOf(s) == CHOOSE n \in s : \A m \in s : n <= m
NextFor(pr) ==
    CASE pr = "none" -> "run"
      [] pr = "OPEN" -> "wait"
      [] pr = "MERGED" -> "close"
      [] OTHER -> "park"
Starts ==
    /\ PreAt("checked") /\ ~Given.dry /\ prePc' = "end" /\ UNCHANGED <<preNotes, preWrote>>
    /\ preEnd' = [preEnd EXCEPT !.how = "started"]
DryRuns ==
    /\ PreAt("checked") /\ Given.dry /\ prePc' = "end" /\ UNCHANGED <<preNotes, preWrote>>
    /\ \/ preEnd' = [preEnd EXCEPT !.how = "io"]
       \/ \E q \in Queues :
             LET work == IF q.ready # {} THEN q.ready ELSE q.blocked
             IN  preEnd' = IF work = {} THEN [preEnd EXCEPT !.how = "empty"]
                           ELSE [how |-> "printed", issue |-> LowestOf(work),
                                 next |-> NextFor(q.pr[LowestOf(work)])]

PreNext ==
    \/ PreCalled \/ PreReads \/ QueueGate \/ LabelGate \/ Declares \/ EffortGate
    \/ ReadsVersions \/ SkewGate \/ Starts \/ DryRuns

PreTypeOK ==
    /\ prePc \in {"rest", "tools", "queue", "label", "declare", "effort", "versions",
                  "skew", "checked", "end"}
    /\ preNotes \subseteq {"queue", "label", "effort", "skew"}
    /\ preWrote \subseteq {"shift log", "label"}

(* What a real run refuses and what a dry run says it would are one thing: *)
(* a dry run writes nothing and, when it passes, has said exactly what in  *)
(* these settings shuts a real run out; a real run ends at a gate that is  *)
(* shut and starts only when none is, so that on a public repository it    *)
(* works what a maintainer labelled, with no plugin known to be older than *)
(* the binary (gate.go:61, preflight.go:30).                               *)
OlderCopyLoads ==
    /\ Given.skill = "ours" /\ Given.binary # NoRelease /\ ~Given.ignoreSkew
    /\ preSeen.plugin # NoRelease
    /\ LET loads == {c \in preEnv.copies : c.enabled}
           OwnSession(c) == c.scope = "session" \/ \A d \in loads : d.scope # "session"
       IN  loads # {} /\ \A c \in loads :
              OwnSession(c) => c.version \in 1..Given.binary - 1
ShutOut ==
    (IF Given.verb = "work" /\ Given.public /\ Given.label = "none" /\ ~Given.ungated
     THEN {"queue"} ELSE {})
    \cup (IF Given.verb = "work" /\ Given.label = "missing" THEN {"label"} ELSE {})
    \cup (IF Given.effort \in {"overridden", "unlisted"} THEN {"effort"} ELSE {})
    \cup (IF OlderCopyLoads THEN {"skew"} ELSE {})
DryRunForesees ==
    /\ Given.dry => preWrote = {} /\ preEnd.how \in {"none", "io", "empty", "printed"}
    /\ prePc = "end" /\ preEnd.how \in {"empty", "printed"} => preNotes = ShutOut
    /\ prePc = "end" /\ ~Given.dry =>
          preEnd.how \in {"io"} \cup (IF ShutOut = {} THEN {"started"} ELSE ShutOut)
=============================================================================
