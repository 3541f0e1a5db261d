------------------------------- MODULE Updates -------------------------------
(***************************************************************************)
(* Updates of the bridge: the manager in system/update-manager.ts, the     *)
(* choice of a release in system/github-releases.ts, the job in            *)
(* system/update-jobs.ts, and the script that runs in a unit of its own,   *)
(* scripts/self-update.sh.                                                 *)
(*                                                                         *)
(* The script outlives the process that asked for it, and restarts it.     *)
(* What the two know of each other is a status file.                       *)
(***************************************************************************)
EXTENDS Naturals, FiniteSetsExt

CONSTANTS Versions, None,
          NoTag,         \* "v" before a commit: nothing in the repository goes by it
          MaxRequests,   \* bound: what the operator and the schedules ask for
          MaxFaults,     \* bound: steps of a script, and checks, that fail
          MaxCuts        \* bound: power cuts

VARIABLES
    published,   \* releases: version, channel
    sick,        \* versions whose service does not come up healthy
    channel, automatic,   \* the updates section
    m,           \* UpdateManager: phase, available, rollback, fetching
    running,     \* version of the process, None while it does not come up
    tree,        \* what is built in the installation, None when half built
    file,        \* update-status.json: phase, target, previous; or None
    script,      \* self-update.sh: step, target, back; or None
    history,     \* update_history, as the results in it and how often
    updateRequests, updateFaults, cuts

updateVars == <<published, sick, channel, automatic, m, running, tree, file, script, history,
                updateRequests, updateFaults, cuts>>

Terminal == {"done", "failed"}
AtRest == {"idle"} \cup Terminal
FreshManager == [phase |-> "idle", available |-> None, rollback |-> None, fetching |-> FALSE]
Status(phase, s) == [phase |-> phase, target |-> s.target, previous |-> s.back]

(* pickRelease and the comparison with what is installed.                  *)
\* mutant: whatever the channel offers, newer or not
NewestOffered(installed) ==
    LET candidates == {r.version : r \in {p \in published : channel = "beta" \/ p.channel = "stable"}}
    IN  IF candidates = {} THEN None ELSE Max(candidates)
Offered(installed) ==
    LET candidates == {r.version : r \in {p \in published : channel = "beta" \/ p.channel = "stable"}}
    IN  IF candidates = {} \/ Max(candidates) <= installed THEN None ELSE Max(candidates)

(* adoptExternalStatus: a terminal status is consumed.                     *)
Adopted(manager, status) ==
    IF status = None THEN manager
    ELSE [manager EXCEPT !.phase = status.phase,
                         !.rollback = IF status.phase = "done" /\ status.previous # None
                                      THEN status.previous ELSE @]
\* mutant: left where it is, and recorded at every read
Kept(status) == status
Consumed(status) == IF status # None /\ status.phase \in Terminal THEN None ELSE status
Recorded(result) == [history EXCEPT ![result] = @ + 1]
Adopt(manager) ==
    /\ m' = Adopted(manager, file)
    /\ file' = Consumed(file)
    /\ history' = IF file # None /\ file.phase \in Terminal
                  THEN Recorded(IF file.phase = "done" THEN "ok" ELSE "failed")
                  ELSE history

-----------------------------------------------------------------------------
Init ==
    /\ published \in SUBSET [version : Versions, channel : {"stable", "beta"}]
    /\ \A p, q \in published : p.version = q.version => p = q
    /\ sick \in {{}, {Max(Versions)}}
    /\ channel \in {"stable", "beta"} /\ automatic \in BOOLEAN
    /\ m = FreshManager /\ running = Min(Versions) /\ tree = running
    /\ file = None /\ script = None /\ history = [r \in {"ok", "failed"} |-> 0]
    /\ updateRequests = 0 /\ updateFaults = 0 /\ cuts = 0

Up == running # None
Asked == Up /\ updateRequests < MaxRequests /\ updateRequests' = updateRequests + 1
Fault == updateFaults < MaxFaults /\ updateFaults' = updateFaults + 1

world == <<published, sick, channel, automatic>>

(* check(), up to the answer of GitHub.                                    *)
StartCheck ==
    /\ Asked /\ m.phase \in AtRest
    /\ m' = [m EXCEPT !.phase = "checking", !.fetching = TRUE]
    /\ UNCHANGED <<world, running, tree, file, script, history, updateFaults, cuts>>

\* the phase is idle again, whatever else has begun meanwhile
EndCheck ==
    /\ Up /\ m.fetching
    /\ \/ /\ m' = [m EXCEPT !.phase = "idle", !.fetching = FALSE,
                            !.available = Offered(running)]
          /\ UNCHANGED updateFaults
       \/ /\ m' = [m EXCEPT !.phase = "idle", !.fetching = FALSE, !.available = None]
          /\ Fault
    /\ UNCHANGED <<world, running, tree, file, script, history, updateRequests, cuts>>

\* the helper starts the unit, unless there is one
Invoke(manager, target, back) ==
    IF script = None
    THEN /\ script' = [step |-> "begin", target |-> target, back |-> back]
         /\ m' = manager /\ UNCHANGED history
    ELSE /\ m' = [manager EXCEPT !.phase = "failed"] /\ UNCHANGED script

(* apply(), by hand or by the schedule, which installs only if it may.     *)
Apply ==
    /\ Asked /\ m.phase \in AtRest /\ m.available # None
    /\ file' = None
    /\ Invoke([m EXCEPT !.phase = "downloading"], m.available, tree)
    /\ script # None => history' = Recorded("failed")
    /\ UNCHANGED <<world, running, tree, updateFaults, cuts>>

ScheduledUpdate ==
    /\ Asked /\ m.phase \in AtRest
    /\ LET offered == Offered(running)
           checked == [m EXCEPT !.phase = "idle", !.available = offered]
       IN  IF offered = None \/ ~automatic
           THEN m' = checked /\ UNCHANGED <<file, script, history>>
           ELSE /\ file' = None
                /\ Invoke([checked EXCEPT !.phase = "downloading"], offered, tree)
                /\ script # None => history' = Recorded("failed")
    /\ UNCHANGED <<world, running, tree, updateFaults, cuts>>

(* rollback(): no guard on the phase, and no way back from it.  What the   *)
(* script has reported is a commit, and tagFor takes it for a version.     *)
Rollback ==
    /\ Asked /\ m.rollback # None
    /\ Invoke([m EXCEPT !.phase = "rolling_back"], NoTag, None)
    /\ UNCHANGED <<world, running, tree, file, history, updateFaults, cuts>>

(* getStatus(), which the page asks for every two seconds.                 *)
Poll ==
    /\ Up /\ m.phase # "idle" /\ file # None
    /\ Adopt(m)
    /\ UNCHANGED <<world, running, tree, script, updateRequests, updateFaults, cuts>>

-----------------------------------------------------------------------------
(* systemctl restart: the process that comes up adopts what the file says. *)
ComesUp == tree # None
RestartAs(version, status) ==
    /\ running' = version
    /\ m' = IF version = None THEN FreshManager ELSE Adopted(FreshManager, status)
    /\ file' = IF version = None THEN status ELSE Consumed(status)
    /\ history' = IF version # None /\ status # None /\ status.phase \in Terminal
                  THEN Recorded(IF status.phase = "done" THEN "ok" ELSE "failed") ELSE history

Report(phase) ==
    /\ file' = Status(phase, script)
    /\ script' = IF phase \in Terminal THEN None ELSE [script EXCEPT !.step = phase]
    /\ UNCHANGED <<running, m, history>>

scriptFrame == <<world, updateRequests, cuts>>
At(step) == script # None /\ script.step = step

\* nothing has been touched: the refusal needs no way back
Known == script.target # NoTag
Reads ==
    /\ \/ At("begin") /\ Report("downloading") /\ UNCHANGED updateFaults
       \/ At("downloading") /\ Report("verifying") /\ UNCHANGED updateFaults
       \/ At("verifying") /\ Known /\ Report("installing") /\ UNCHANGED updateFaults
       \/ At("verifying") /\ ~Known /\ Report("failed") /\ UNCHANGED updateFaults
       \/ /\ At("downloading") \/ At("verifying") \/ At("installing")
          /\ Report("failed") /\ Fault
    /\ UNCHANGED tree /\ UNCHANGED scriptFrame

\* mutant: the script ends without a last word
FailSilently == script' = None /\ UNCHANGED <<file, running, m, history>>
Fail == Report(IF script.back = None THEN "failed" ELSE "rolling_back")

Builds ==
    /\ At("installing")
    /\ \/ tree' = script.target /\ Report("restarting") /\ UNCHANGED updateFaults
       \/ tree' = None /\ Fail /\ Fault
    /\ UNCHANGED scriptFrame

Restarts ==
    /\ At("restarting") /\ script' = [script EXCEPT !.step = "restarted"]
    /\ RestartAs(tree, file)
    /\ UNCHANGED <<tree, updateFaults>> /\ UNCHANGED scriptFrame

Gate ==
    /\ \/ At("restarted") /\ Report("health_gate") /\ UNCHANGED updateFaults
       \/ /\ At("health_gate")
          /\ \/ tree \notin sick /\ Report("done") /\ UNCHANGED updateFaults
             \/ tree \in sick /\ Fail /\ UNCHANGED updateFaults
             \/ tree \notin sick /\ Fail /\ Fault
    /\ UNCHANGED tree /\ UNCHANGED scriptFrame

(* restore_previous builds what was there, restarts and waits; its end is  *)
(* reported as a failure either way.                                       *)
Restores ==
    /\ At("rolling_back")
    /\ \/ /\ tree' = script.back /\ script' = [script EXCEPT !.step = "restored"]
          /\ RestartAs(script.back, file) /\ UNCHANGED updateFaults
       \/ tree' = None /\ Report("failed") /\ Fault
    /\ UNCHANGED scriptFrame

Restored ==
    /\ At("restored") /\ Report("failed")
    /\ UNCHANGED <<tree, updateFaults>> /\ UNCHANGED scriptFrame

Script == Reads \/ Builds \/ Restarts \/ Gate \/ Restores \/ Restored

-----------------------------------------------------------------------------
(* The machine goes down and comes up: what was under way is gone, what    *)
(* was written is there.                                                   *)
PowerCut ==
    /\ cuts < MaxCuts /\ cuts' = cuts + 1
    /\ RestartAs(tree, file)
    /\ script' = None
    /\ UNCHANGED <<world, tree, updateRequests, updateFaults>>

Next == \/ StartCheck \/ EndCheck \/ Apply \/ ScheduledUpdate \/ Rollback \/ Poll
        \/ Script \/ PowerCut

(* The page polls while it is open, and the scripts run on.                *)
Spec == Init /\ [][Next]_updateVars /\ WF_updateVars(Poll) /\ WF_updateVars(Script)
             /\ WF_updateVars(EndCheck)

-----------------------------------------------------------------------------
ScriptSteps == {"begin", "downloading", "verifying", "installing", "restarting", "restarted",
                "health_gate", "rolling_back", "restored"}
Targets  == Versions \cup {NoTag}
Scripts  == [step : ScriptSteps, target : Targets, back : Versions \cup {None}]
Statuses == [phase : (ScriptSteps \ {"begin", "restarted", "restored"}) \cup Terminal,
             target : Targets, previous : Versions \cup {None}]

\* what the constants are asked for
SettingIsSound ==
    /\ Versions \subseteq Nat
    /\ \A S \in (SUBSET Versions) \ {{}} : \E newest \in S : \A v \in S : v <= newest
    /\ \E oldest \in Versions : \A v \in Versions : oldest <= v
    /\ Min(Versions) # Max(Versions)
    /\ NoTag \notin Versions /\ None \notin Versions \cup Scripts \cup Statuses

TypeOK ==
    /\ m.available \in Versions \cup {None} /\ m.rollback \in Versions \cup {None}
    /\ {running, tree} \subseteq Versions \cup {None}
    /\ script # None => script.target \in Targets
    /\ history.ok + history.failed <= MaxRequests + 1

(* However an update ends, the appliance runs what is built, and it is     *)
(* healthy: the release asked for, or the one before it.  Except when the  *)
(* power was cut, or the way back failed too.                              *)
EndsOnARelease ==
    (script = None /\ cuts = 0 /\ updateFaults + Cardinality(sick) < 2)
      => running # None /\ running = tree /\ running \notin sick

(* An update is in the history once, and a release nobody offers, or that  *)
(* is older than what runs, is never on its way there.                     *)
OfferedIsNewer == (m.available # None /\ Up) => m.available > running \/ m.phase # "idle"
RecordedOnce == history.ok + history.failed <= updateRequests

UpdatesEndWell == EndsOnARelease /\ OfferedIsNewer /\ RecordedOnce

(* An update that is on its way comes to an end the page can show, as long *)
(* as the machine does not go down under it.                               *)
StatusSettles == (m.phase \notin AtRest) ~> (m.phase \in AtRest \/ ~Up \/ cuts > 0)
=============================================================================
