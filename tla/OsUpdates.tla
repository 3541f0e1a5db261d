------------------------------ MODULE OsUpdates ------------------------------
(***************************************************************************)
(* Updates of the packages under the bridge: the manager in                *)
(* system/os-update-manager.ts, its job in system/update-jobs.ts, and the  *)
(* script scripts/os-update.sh, which runs in a unit of its own and says   *)
(* how far it is in a status file.                                         *)
(***************************************************************************)
EXTENDS Naturals

CONSTANTS None,
          MaxOsRuns,     \* bound: runs asked for
          MaxOsFaults,   \* bound: steps of apt, and calls of the helper, that fail
          MaxBoots       \* bound: restarts of the service

VARIABLES
    osPhase,     \* of the manager, in memory
    osFile,      \* os-update-status.json: its phase, or None
    osScript,    \* where os-update.sh is, or None
    autoReboot,  \* the setting
    osResults,   \* what the page has been told of runs that ended
    osRuns, osFaults, boots

osVars == <<osPhase, osFile, osScript, autoReboot, osResults, osRuns, osFaults, boots>>

AtRest == {"idle", "done", "failed"}
OsFault == osFaults < MaxOsFaults /\ osFaults' = osFaults + 1

(* refresh(): the file, when there is one, is the truth.                   *)
Refreshed == IF osFile = None THEN osPhase ELSE osFile
IsRunning == Refreshed \notin AtRest

Init ==
    /\ osPhase = "idle" /\ osFile = None /\ osScript = None
    /\ autoReboot \in BOOLEAN /\ osResults = 0
    /\ osRuns = 0 /\ osFaults = 0 /\ boots = 0

Asked == osRuns < MaxOsRuns /\ osRuns' = osRuns + 1

\* a unit of that name is in the way of another
HelperStarts ==
    \/ osScript = None /\ osScript' = "begin" /\ UNCHANGED osFaults
    \/ osScript # None /\ UNCHANGED <<osScript, osFaults>>
    \/ OsFault /\ UNCHANGED osScript

(* run(), by hand or by the job, which passes over a run in flight.  When  *)
(* the helper refuses, the phase has been set already.                     *)
\* mutant: the end of the last run is left in the file
RunUncleared ==
    /\ Asked /\ ~IsRunning
    /\ osPhase' = "refreshing" /\ UNCHANGED osFile
    /\ HelperStarts
    /\ UNCHANGED <<autoReboot, osResults, boots>>
Run ==
    /\ Asked /\ ~IsRunning
    /\ osPhase' = "refreshing" /\ osFile' = None
    /\ HelperStarts
    /\ UNCHANGED <<autoReboot, osResults, boots>>

(* getStatus().                                                            *)
Poll ==
    /\ osPhase # Refreshed /\ osPhase' = Refreshed
    /\ osResults' = IF Refreshed \in AtRest THEN osResults + 1 ELSE osResults
    /\ UNCHANGED <<osFile, osScript, autoReboot, osRuns, osFaults, boots>>

After == [begin |-> "refreshing", refreshing |-> "upgrading", upgrading |-> "cleaning"]
Report(phase) ==
    /\ osFile' = phase
    /\ osScript' = IF phase \in AtRest THEN None ELSE phase

(* os-update.sh: a reboot is wanted by the setting and by a package.       *)
Apt ==
    /\ osScript # None
    /\ \/ osScript \in DOMAIN After /\ Report(After[osScript]) /\ UNCHANGED osFaults
       \/ osScript \in {"refreshing", "upgrading"} /\ Report("failed") /\ OsFault
       \/ osScript = "cleaning" /\ Report("done") /\ UNCHANGED osFaults
       \/ osScript = "cleaning" /\ autoReboot /\ Report("rebooting") /\ UNCHANGED osFaults
       \/ osScript = "rebooting" /\ Report("failed") /\ OsFault
    /\ UNCHANGED <<osPhase, autoReboot, osResults, osRuns, boots>>

(* The reboot the script has scheduled: its last word was that.            *)
Reboot ==
    /\ osScript = "rebooting" /\ osScript' = None
    /\ osPhase' = "idle"
    /\ UNCHANGED <<osFile, autoReboot, osResults, osRuns, osFaults, boots>>

(* The service alone restarts; the unit runs on.                           *)
Restart ==
    /\ boots < MaxBoots /\ boots' = boots + 1
    /\ osPhase' = "idle"
    /\ UNCHANGED <<osFile, osScript, autoReboot, osResults, osRuns, osFaults>>

Next == Run \/ Poll \/ Apt \/ Reboot \/ Restart

Spec == Init /\ [][Next]_osVars

-----------------------------------------------------------------------------
Phases == {"idle", "refreshing", "upgrading", "cleaning", "rebooting", "done", "failed"}
OsTypeOK == {osPhase, Refreshed} \subseteq Phases /\ autoReboot \in BOOLEAN
NoneIsNothing == None \notin Phases \cup {"begin"}

(* A second run is not let in beside one: what is read as at rest has no   *)
(* unit, unless the service restarts before the script's first word.       *)
RestMeansRest == (~IsRunning /\ boots = 0) => osScript = None

(* "True while an apt run is in flight" (os-update-manager.ts, isRunning). *)
RunningMeansRunning == IsRunning => osScript # None
=============================================================================
