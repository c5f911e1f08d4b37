------------------------------- MODULE Update --------------------------------
(***************************************************************************)
(* polako update: the published version is read, the plugin half brought   *)
(* up with two claude commands, and the binary half with go install or,    *)
(* for a release build, a download that is verified and renamed over the   *)
(* running binary.  Each step may fail and the process be killed after     *)
(* any of them; the verb is then called again on the disk it left.         *)
(*                                                                         *)
(* A version is a number.  A file of the disk holds a version, Bad (a      *)
(* download that is not what was published) or nothing.                    *)
(***************************************************************************)
EXTENDS Integers

CONSTANTS
    Releases,       \* the versions a release may have
    UpdateCalls     \* bound: calls of the verb

ASSUME UpdateAssumption == Releases \subseteq Nat \ {0} /\ UpdateCalls \in Nat

VARIABLES
    updatePc,      \* where the call stands
    updateHost,    \* windows, how the binary was built, the plugin's state
    updateCheck,   \* -check
    updateDisk,    \* exe, the copy moved aside as .old, and the temp dir's asset
    updateSums,    \* what checksums.txt says of the asset
    pluginHas,     \* the version of the plugin that is installed
    published,     \* the release the marketplace file names, once read
    updateRan      \* what this call did; history: was its swap cut short; the calls

updateVars == <<updatePc, updateHost, updateCheck, updateDisk, updateSums, pluginHas,
                published, updateRan>>

NoFile == 0
Bad == -1
BuildTiers == {"stamped", "module", "vcs", "unknown"}
PluginStates == {"notConfigured", "notInstalled", "ambiguous", "session", "found"}
NotRun == [plugin |-> FALSE, binary |-> FALSE, cut |-> FALSE, calls |-> 0]

UpdateInit ==
    /\ updatePc = "rest" /\ updateHost = [windows |-> FALSE] /\ updateCheck = FALSE
    /\ updateDisk = [exe |-> NoFile, old |-> NoFile, asset |-> NoFile]
    /\ updateSums = NoFile /\ pluginHas = NoFile /\ published = NoFile /\ updateRan = NotRun

(* The verb is called, on a host that has never seen it or on what the     *)
(* last call left; a binary that is not there cannot be called.            *)
UpdateCalled ==
    /\ updatePc = "rest" /\ updateRan.calls < UpdateCalls
    /\ IF updateRan.calls = 0
       THEN /\ \E w \in BOOLEAN, t \in BuildTiers, p \in PluginStates :
                  updateHost' = [windows |-> w, tier |-> t, plugin |-> p]
            /\ \E v \in Releases : updateDisk' = [updateDisk EXCEPT !.exe = v]
            /\ pluginHas' \in Releases
       ELSE updateDisk.exe # NoFile /\ UNCHANGED <<updateHost, updateDisk, pluginHas>>
    /\ updateCheck' \in BOOLEAN
    /\ updatePc' = "read"
    /\ updateRan' = [NotRun EXCEPT !.calls = updateRan.calls + 1]
    /\ UNCHANGED <<published, updateSums>>

UpdateAt(pc) == updatePc = pc /\ UNCHANGED <<updateHost, updateCheck>>
UpdateGoes(pc) == updatePc' = pc
UpdateReturns == updatePc' = "rest"

(* publishedVersion: the marketplace file's ref, or the call ends.         *)
UpdateReads ==
    /\ UpdateAt("read") /\ UNCHANGED <<updateDisk, updateSums, pluginHas, updateRan>>
    /\ \/ UpdateReturns /\ UNCHANGED published
       \/ published' \in Releases /\ UpdateGoes("plan")

(* pluginSummary and binarySummary: which halves there is something to     *)
(* run for.                                                                *)
PluginAction == updateHost.plugin = "found" /\ pluginHas # published
BinaryAction == updateHost.tier \in {"stamped", "module"} /\ updateDisk.exe # published

(* applyUpdate: a real run of a release build clears what an earlier swap  *)
(* moved aside; -check and a plan with nothing in it end here.             *)
ClearsOld == ~updateCheck /\ updateHost.tier = "stamped" /\ updateHost.windows
UpdatePlans ==
    /\ UpdateAt("plan") /\ UNCHANGED <<updateSums, pluginHas, published, updateRan>>
    /\ updateDisk' = [updateDisk EXCEPT !.old = IF ClearsOld THEN NoFile ELSE @]
    /\ IF updateCheck \/ ~(PluginAction \/ BinaryAction) THEN UpdateReturns
       ELSE UpdateGoes(IF PluginAction THEN "plugin" ELSE "binary")

(* applyPlugin: the marketplace is refreshed and then the plugin updated,  *)
(* and a failure of either ends the call before the binary half.           *)
UpdatesPlugin ==
    /\ UpdateAt("plugin") /\ UNCHANGED <<updateDisk, updateSums, published>>
    /\ \/ UpdateReturns /\ UNCHANGED <<pluginHas, updateRan>>
       \/ /\ pluginHas' = published /\ updateRan' = [updateRan EXCEPT !.plugin = TRUE]
          /\ IF BinaryAction THEN UpdateGoes("binary") ELSE UpdateReturns

(* go install replaces the binary itself, or lands beside it.              *)
GoInstalls ==
    /\ UpdateAt("binary") /\ updateHost.tier = "module"
    /\ UNCHANGED <<updateSums, pluginHas, published>> /\ UpdateReturns
    /\ \/ UNCHANGED <<updateDisk, updateRan>>
       \/ /\ updateDisk' \in {updateDisk, [updateDisk EXCEPT !.exe = published]}
          /\ updateRan' = [updateRan EXCEPT !.binary = TRUE]

(* applyStampedBinary downloads the asset and checksums.txt into a temp    *)
(* dir beside the binary: either may be missing, and the asset may not be  *)
(* the one that was published.                                             *)
Downloads ==
    /\ UpdateAt("binary") /\ updateHost.tier = "stamped"
    /\ UNCHANGED <<pluginHas, published, updateRan>>
    /\ \/ UpdateReturns /\ UNCHANGED <<updateDisk, updateSums>>
       \/ /\ \E got \in {published, Bad} : updateDisk' = [updateDisk EXCEPT !.asset = got]
          /\ updateSums' \in {NoFile, published}
          /\ UpdateGoes("verify")

(* The temp dir goes when applyStampedBinary returns, whatever it returns. *)
TempDirGone == [updateDisk EXCEPT !.asset = NoFile]
ChecksumFits == updateSums = updateDisk.asset
Verifies ==
    /\ UpdateAt("verify") /\ UNCHANGED <<updateSums, pluginHas, published, updateRan>>
    /\ \/ updateDisk' = TempDirGone /\ UpdateReturns
       \/ ChecksumFits /\ UNCHANGED updateDisk /\ UpdateGoes(
             IF updateHost.windows THEN "aside" ELSE "replace")

(* swapBinary: everywhere but on Windows one rename over the running       *)
(* binary; there the running one is moved aside first, and put back if the *)
(* second rename fails.                                                    *)
MovesAside ==
    /\ UpdateAt("aside") /\ UNCHANGED <<updateSums, pluginHas, published, updateRan>>
    /\ \/ updateDisk' = TempDirGone /\ UpdateReturns
       \/ /\ updateDisk' = [updateDisk EXCEPT !.old = updateDisk.exe, !.exe = NoFile]
          /\ UpdateGoes("replace")
ReplaceFailsForGood == updateDisk' = TempDirGone /\ UpdateReturns
ReplaceFails == IF updateHost.windows
    THEN updateDisk' = updateDisk /\ UpdateGoes("putback")
    ELSE updateDisk' = TempDirGone /\ UpdateReturns
Replaces ==
    /\ UpdateAt("replace") /\ UNCHANGED <<updateSums, pluginHas, published>>
    /\ \/ ReplaceFails /\ UNCHANGED updateRan
       \/ /\ updateDisk' = [TempDirGone EXCEPT !.exe = updateDisk.asset] /\ UpdateReturns
          /\ updateRan' = [updateRan EXCEPT !.binary = TRUE]
PutsBack ==
    /\ UpdateAt("putback") /\ UpdateReturns
    /\ UNCHANGED <<updateSums, pluginHas, published>>
    /\ \/ updateDisk' = TempDirGone /\ updateRan' = [updateRan EXCEPT !.cut = TRUE]
       \/ /\ updateDisk' = [TempDirGone EXCEPT !.exe = updateDisk.old, !.old = NoFile]
          /\ UNCHANGED updateRan

(* The process is killed; its temp dir stays, and no later call uses it.   *)
UpdateKilled ==
    /\ updatePc # "rest" /\ UpdateReturns
    /\ updateDisk' = TempDirGone
    /\ updateRan' = [updateRan EXCEPT !.cut = updatePc \in {"replace", "putback"}]
    /\ UNCHANGED <<updateHost, updateCheck, updateSums, pluginHas, published>>

(* The operator does what the error says and moves the old binary back.    *)
OperatorRestores ==
    /\ updatePc = "rest" /\ updateDisk.exe = NoFile /\ updateDisk.old # NoFile
    /\ updateDisk' = [updateDisk EXCEPT !.exe = updateDisk.old, !.old = NoFile]
    /\ UNCHANGED <<updatePc, updateHost, updateCheck, updateSums, pluginHas, published, updateRan>>

UpdateNext ==
    \/ UpdateCalled \/ UpdateReads \/ UpdatePlans \/ UpdatesPlugin \/ GoInstalls
    \/ Downloads \/ Verifies \/ MovesAside \/ Replaces \/ PutsBack \/ UpdateKilled
    \/ OperatorRestores

UpdateTypeOK ==
    /\ updatePc \in {"rest", "read", "plan", "plugin", "binary", "verify", "aside",
                     "replace", "putback"}
    /\ updateDisk \in [exe : Releases \cup {NoFile, Bad}, old : Releases \cup {NoFile, Bad},
                       asset : Releases \cup {NoFile, Bad}]
    /\ pluginHas \in Releases \cup {NoFile} /\ published \in Releases \cup {NoFile}
    /\ updateCheck \in BOOLEAN /\ updateRan.calls \in 0..UpdateCalls

(* "leaving the running binary in place" (update.go:404, 415): whatever    *)
(* fails and whenever the process dies, the binary or the copy moved aside *)
(* is a release that was verified or was there before; a call that is over *)
(* leaves the name empty only if it was killed, or failed twice, between   *)
(* the two renames.                                                        *)
AlwaysABinary ==
    updateRan.calls > 0 =>
        /\ \E f \in {"exe", "old"} : updateDisk[f] \in Releases
        /\ updateDisk.exe # Bad /\ updateDisk.old # Bad
        /\ updateDisk.exe = NoFile => updateHost.windows /\ updateHost.tier = "stamped"
        /\ updateDisk.exe = NoFile /\ updatePc = "rest" => updateRan.cut

(* The same of every step, and: -check changes nothing, and the binary     *)
(* moves past the plugin only when the plugin half has nothing left to do, *)
(* so that a call that stops half way leaves the plugin ahead, which the   *)
(* next call mends (update.go:681).                                        *)
HalvesInOrder ==
    [][/\ AlwaysABinary'
       /\ updateCheck /\ updatePc # "rest" => UNCHANGED <<updateDisk, pluginHas>>
       /\ updateDisk'.exe # updateDisk.exe /\ updatePc \in {"binary", "replace"} =>
             ~PluginAction]_updateVars
=============================================================================
