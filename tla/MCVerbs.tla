------------------------------- MODULE MCVerbs --------------------------------
(***************************************************************************)
(* What a process of polako besides the loop may be doing, put together as *)
(* the dispatch of the command line does: one verb, or one part of a       *)
(* shift, per process, each with state of its own on disk and on GitHub    *)
(* and none shared in memory.  The parts are checked side by side.         *)
(***************************************************************************)
EXTENDS Tidy, Update, Unpark, Intake, ReplyWait, UsageGate, Policy, Preflight, RunData,
        Setup, Design, Status

VARIABLE verb

Verbs == {"tidy", "update", "unpark", "plan", "wait", "usage", "policy", "preflight", "stats",
          "setup", "design", "status"}

Init ==
    /\ verb \in Verbs
    /\ TidyInit /\ UpdateInit /\ UnparkInit /\ IntakeInit
    /\ WaitInit /\ UsageInit /\ PolicyInit /\ PreInit
    /\ RecInit /\ SetupInit /\ DesignInit /\ StatusInit

(* dispatchVerb: the process runs what it was started as and nothing else. *)
Next ==
    \/ /\ verb = "tidy" /\ TidyNext
       /\ UNCHANGED <<verb, updateVars, unparkVars, intakeVars, waitVars, usageVars, policyVars,
                      preVars, recVars, setVars, desVars, stVars>>
    \/ /\ verb = "update" /\ UpdateNext
       /\ UNCHANGED <<verb, tidyVars, unparkVars, intakeVars, waitVars, usageVars, policyVars,
                      preVars, recVars, setVars, desVars, stVars>>
    \/ /\ verb = "unpark" /\ UnparkNext
       /\ UNCHANGED <<verb, tidyVars, updateVars, intakeVars, waitVars, usageVars, policyVars,
                      preVars, recVars, setVars, desVars, stVars>>
    \/ /\ verb = "plan" /\ IntakeNext
       /\ UNCHANGED <<verb, tidyVars, updateVars, unparkVars, waitVars, usageVars, policyVars,
                      preVars, recVars, setVars, desVars, stVars>>
    \/ /\ verb = "wait" /\ WaitNext
       /\ UNCHANGED <<verb, tidyVars, updateVars, unparkVars, intakeVars, usageVars, policyVars,
                      preVars, recVars, setVars, desVars, stVars>>
    \/ /\ verb = "usage" /\ UsageNext
       /\ UNCHANGED <<verb, tidyVars, updateVars, unparkVars, intakeVars, waitVars, policyVars,
                      preVars, recVars, setVars, desVars, stVars>>
    \/ /\ verb = "policy" /\ PolicyNext
       /\ UNCHANGED <<verb, tidyVars, updateVars, unparkVars, intakeVars, waitVars, usageVars,
                      preVars, recVars, setVars, desVars, stVars>>
    \/ /\ verb = "preflight" /\ PreNext
       /\ UNCHANGED <<verb, tidyVars, updateVars, unparkVars, intakeVars, waitVars, usageVars,
                      policyVars, recVars, setVars, desVars, stVars>>
    \/ /\ verb = "stats" /\ RecNext
       /\ UNCHANGED <<verb, tidyVars, updateVars, unparkVars, intakeVars, waitVars, usageVars,
                      policyVars, preVars, setVars, desVars, stVars>>
    \/ /\ verb = "setup" /\ SetupNext
       /\ UNCHANGED <<verb, tidyVars, updateVars, unparkVars, intakeVars, waitVars, usageVars,
                      policyVars, preVars, recVars, desVars, stVars>>
    \/ /\ verb = "design" /\ DesignNext
       /\ UNCHANGED <<verb, tidyVars, updateVars, unparkVars, intakeVars, waitVars, usageVars,
                      policyVars, preVars, recVars, setVars, stVars>>
    \/ /\ verb = "status" /\ StatusNext
       /\ UNCHANGED <<verb, tidyVars, updateVars, unparkVars, intakeVars, waitVars, usageVars,
                      policyVars, preVars, recVars, setVars, desVars>>

(* Every variable of every part keeps its type.                            *)
VerbsTypeOK ==
    /\ TidyTypeOK /\ UpdateTypeOK /\ UnparkTypeOK /\ IntakeTypeOK
    /\ WaitTypeOK /\ UsageTypeOK /\ PolicyTypeOK /\ PreTypeOK
    /\ RecTypeOK /\ SetupTypeOK /\ DesignTypeOK /\ StatusTypeOK

-----------------------------------------------------------------------------
(* The instances: what each part may find, one value per case of the code. *)

(* Tidy: an issue branch in every state of its refs, worktree and pull     *)
(* requests, and a second one that is shipped.                             *)
MCTidyBranches == {1, 2}
MCBranch ==
    [here |-> TRUE, tip |-> 1, mirror |-> 0, head |-> 0, main |-> 0, origin |-> NoRef,
     default |-> TRUE, tree |-> "linked", dirty |-> FALSE, held |-> FALSE,
     closed |-> TRUE, prs |-> {}]
MCMergedAt(head, base) == {[head |-> head, base |-> base]}
MCTidyBranch ==
    {[MCBranch EXCEPT !.main = m, !.origin = o, !.tree = t, !.dirty = d, !.prs = p] :
        m \in {0, 1}, o \in {NoRef, 0, 1}, t \in {"none", "gone", "linked"}, d \in BOOLEAN,
        p \in {{}, MCMergedAt(1, TRUE), MCMergedAt(1, FALSE), MCMergedAt(0, TRUE)}}
    \cup {[MCBranch EXCEPT !.tree = t, !.prs = MCMergedAt(1, TRUE)] : t \in {"broken", "cwd"}}
    \cup {[MCBranch EXCEPT !.held = TRUE], [MCBranch EXCEPT !.closed = FALSE],
          [MCBranch EXCEPT !.default = FALSE],
          [MCBranch EXCEPT !.here = FALSE, !.tree = "none"]}
MCTidyWorlds ==
    {<<b, [MCBranch EXCEPT !.here = FALSE, !.tree = "none"]>> : b \in MCTidyBranch}
    \cup {<<b, [MCBranch EXCEPT !.prs = MCMergedAt(1, TRUE)]>> :
             b \in {[MCBranch EXCEPT !.prs = MCMergedAt(1, TRUE)]}}

(* Unpark: a permission park, and a second issue with each kind of thread, *)
(* branch and pull request.                                                *)
MCUnparkIssues == {1, 2}
MCParkOf(e, m, c) ==
    [mine |-> TRUE, park |-> TRUE, entries |-> e, malformed |-> m, category |-> c]
MCChat == [MCParkOf({}, FALSE, "none") EXCEPT !.park = FALSE]
MCForged == [MCParkOf({"forged"}, FALSE, "permission") EXCEPT !.mine = FALSE]
MCParked ==
    [parked |-> TRUE, container |-> FALSE, thread |-> <<MCParkOf({"web"}, FALSE, "permission")>>,
     pr |-> "none", red |-> FALSE, ahead |-> NotOnOrigin, local |-> FALSE]
MCSecondIssue ==
    {[MCParked EXCEPT !.parked = FALSE], [MCParked EXCEPT !.container = TRUE],
     [MCParked EXCEPT !.thread = <<MCParkOf({"web"}, TRUE, "permission"),
                                   MCParkOf({"edit"}, FALSE, "permission"), MCForged, MCChat>>],
     [MCParked EXCEPT !.thread = <<MCParkOf({}, TRUE, "permission")>>, !.ahead = 1],
     [MCParked EXCEPT !.thread = <<MCForged>>, !.local = TRUE, !.ahead = 0],
     [MCParked EXCEPT !.pr = "OPEN", !.red = TRUE, !.ahead = 1],
     [MCParked EXCEPT !.pr = "CLOSED", !.ahead = 1]}
MCUnparkWorlds == {<<MCParked, second>> : second \in MCSecondIssue}

(* Policy: every set of knobs, and a family of labels of each kind.        *)
MCKnobs == SUBSET {"flag", "remediation", "size"}
MCLabelSets == {<<>>, <<"good">>, <<"default">>, <<"bad">>, <<"good", "good">>}

(* Preflight: every setting, copies of the plugin that agree, differ, are  *)
(* switched off or belong to the session, and three backlogs.              *)
MCSettings ==
    [dry : BOOLEAN, verb : {"work", "design"}, public : BOOLEAN, ungated : BOOLEAN,
     label : {"none", "defined", "missing"}, effort : {"fits", "overridden"},
     skill : {"ours", "other"}, binary : {0, 2}, published : {2}, ignoreSkew : BOOLEAN]
MCCopy(v, s, e) == [version |-> v, scope |-> s, enabled |-> e]
MCPluginCopies ==
    {{}, {MCCopy(1, "user", TRUE)}, {MCCopy(1, "user", TRUE), MCCopy(2, "project", TRUE)},
     {MCCopy(2, "user", TRUE), MCCopy(1, "session", TRUE)},
     {MCCopy(2, "user", FALSE), MCCopy(1, "project", TRUE)}}
MCQueues ==
    {[ready |-> {}, blocked |-> {}, pr |-> <<"none", "none">>],
     [ready |-> {2}, blocked |-> {1}, pr |-> <<"none", "CLOSED">>],
     [ready |-> {}, blocked |-> {1, 2}, pr |-> <<"OPEN", "none">>]}

MCSetupItems == <<"gitignore", "scaffold">>

(* Status: a first issue that is ready, and a second one in each row.      *)
MCIssue(labels) == [NoIssue EXCEPT !.open = TRUE, !.labels = labels]
MCGated == MCIssue({"gate"})
MCFirst ==
    {MCIssue({}), MCGated, [MCGated EXCEPT !.pr = "OPEN"], [MCGated EXCEPT !.doc = "a"]}
MCSecond ==
    {MCIssue(l) : l \in {{"gate"}, {"proposed"}, {"gate", "proposed"}, {"design"},
                         {"gate", "awaiting-answer"}, {"gate", "needs-human"},
                         {"gate", "design", "needs-human"}}}
    \cup {[MCGated EXCEPT !.kids = k] : k \in {"some", "all"}}
    \cup {[MCGated EXCEPT !.pr = "OPEN", !.view = v] : v \in {"human", "pending", "fix"}}
    \cup {[MCIssue({"gate", "needs-human"}) EXCEPT !.kids = "all"],
          [MCGated EXCEPT !.kids = "all", !.pr = "OPEN"],
          [MCGated EXCEPT !.behind = {1}], [MCGated EXCEPT !.pr = "CLOSED"],
          [MCIssue({"gate", "needs-human"}) EXCEPT !.park = "entries"],
          [MCIssue({"needs-human"}) EXCEPT !.park = "category"],
          [MCGated EXCEPT !.open = FALSE, !.doc = "a"],
          [MCIssue({"proposed"}) EXCEPT !.doc = "a"]}
MCStatusCall ==
    [strict |-> FALSE, label |-> "gate", from |-> "flag", marked |-> 0, public |-> TRUE,
     checkout |-> TRUE, where |-> [d \in {"a"} |-> "designs"]]
MCNoFlag == [MCStatusCall EXCEPT !.label = "none", !.from = ""]
MCStatusCalls ==
    {MCStatusCall, [MCNoFlag EXCEPT !.strict = TRUE],
     [MCNoFlag EXCEPT !.marked = 1, !.where["a"] = "done"],
     [MCNoFlag EXCEPT !.marked = 2, !.checkout = FALSE],
     [MCStatusCall EXCEPT !.label = "other", !.from = "env", !.where["a"] = "none"]}
MCStCalls ==
    {[call |-> c, issues |-> <<a, b>>] : c \in MCStatusCalls, a \in MCFirst, b \in MCSecond}
=============================================================================
