------------------------------ MODULE Lifecycle ------------------------------
(***************************************************************************)
(* The process: how it comes up and goes down.  index.ts, service.ts,      *)
(* server.ts, lifecycle/lifecycle.ts, lifecycle/watchdog.ts and the        *)
(* listener of web/https-setup.ts, under systemd, which restarts it.       *)
(*                                                                         *)
(* Nothing in the service registers work with lifecycle/drain.ts, so a     *)
(* drain never waits.  Nothing here hangs.                                 *)
(***************************************************************************)
EXTENDS Naturals, Sequences, SequencesExt

CONSTANTS MaxFaults,     \* bound: steps of a start that fail
          MaxTroubles,   \* bound: cleanups and stops that throw
          MaxSignals, MaxKills

VARIABLES
    phase,      \* down, boot, wire, running, undo, closing, service, failed
    at,         \* the step of the start that is next
    up,         \* what has been started and not been stopped
    stages,     \* Lifecycle.started
    cleanups,   \* started, the undo list of wire()
    ending,     \* why it goes down: none, signal, failed
    left,       \* what was up when it last exited of itself
    faults, troubles, signals, kills

lifecycleVars == <<phase, at, up, stages, cleanups, ending, left, faults, troubles, signals, kills>>

Stages == <<"secret-key", "database", "migrations", "logging", "config", "watchdog">>
\* stages with a stop
Stopped == {"database", "logging", "watchdog"}
\* the steps of wire() that can fail or leave something running
Wiring == <<"collector", "firewall and certificate", "heartbeat", "listener", "sync", "locks",
            "schedules", "ingest", "lock timer", "failover timer", "samba">>
Cleaned == {"collector", "heartbeat", "sync", "locks", "schedules", "ingest", "lock timer",
            "failover timer"}
Users == (Cleaned \ {"heartbeat"}) \cup {"listener"}   \* they use the database

Alive == phase # "down"

Init ==
    /\ phase = "down" /\ at = 1 /\ up = {} /\ stages = <<>> /\ cleanups = <<>>
    /\ ending = "none" /\ left = {}
    /\ faults = 0 /\ troubles = 0 /\ signals = 0 /\ kills = 0

world == <<left, faults, troubles, signals, kills>>
Fault == faults < MaxFaults /\ faults' = faults + 1
Trouble == troubles < MaxTroubles /\ troubles' = troubles + 1

-----------------------------------------------------------------------------
(* Coming up.                                                              *)

Start ==
    /\ phase = "down" /\ phase' = "boot" /\ at' = 1 /\ ending' = "none"
    /\ UNCHANGED <<up, stages, cleanups, world>>

\* a stage that fails unwinds those before it
StartStage ==
    /\ phase = "boot"
    /\ \/ /\ up' = IF Stages[at] \in Stopped THEN up \cup {Stages[at]} ELSE up
          /\ stages' = Append(stages, Stages[at])
          /\ at' = IF at = Len(Stages) THEN 1 ELSE at + 1
          /\ phase' = IF at = Len(Stages) THEN "wire" ELSE "boot"   \* READY=1
          /\ UNCHANGED <<ending, faults>>
       \/ /\ Fault /\ phase' = "service" /\ ending' = "failed"
          /\ UNCHANGED <<at, up, stages>>
    /\ UNCHANGED <<cleanups, left, troubles, signals, kills>>

\* a step of wire(): what it leaves running, and a cleanup for most of it
Wire ==
    /\ phase = "wire"
    /\ LET step == Wiring[at]
           next == /\ at' = IF at = Len(Wiring) THEN 1 ELSE at + 1
                   /\ phase' = IF at = Len(Wiring) THEN "running" ELSE "wire"
       IN  \/ /\ next
              /\ up' = IF step \in Users \cup {"heartbeat"} THEN up \cup {step} ELSE up
              /\ cleanups' = IF step \in Cleaned THEN Append(cleanups, step) ELSE cleanups
              /\ UNCHANGED <<ending, faults>>
           \/ /\ step = "ingest" /\ Fault   \* survived
              /\ next /\ UNCHANGED <<up, cleanups, ending>>
           \/ /\ step # "ingest" /\ Fault
              /\ phase' = "undo" /\ ending' = "failed"
              /\ UNCHANGED <<at, up, cleanups>>
    /\ UNCHANGED <<stages, left, troubles, signals, kills>>

-----------------------------------------------------------------------------
(* Going down.                                                             *)

\* exit, or an event loop with nothing left in it
Exit ==
    /\ phase' = "down" /\ left' = up
    /\ up' = {} /\ stages' = <<>> /\ cleanups' = <<>>

\* a second signal is ignored; before there is a handler the first one kills
Signal ==
    /\ signals < MaxSignals /\ signals' = signals + 1 /\ Alive
    /\ IF phase = "running"
       THEN phase' = "undo" /\ ending' = "signal" /\ UNCHANGED <<up, stages, cleanups>>
       ELSE IF ending = "signal" THEN UNCHANGED <<phase, ending, up, stages, cleanups>>
       ELSE /\ phase' = "down" /\ up' = {} /\ stages' = <<>> /\ cleanups' = <<>>
            /\ UNCHANGED ending
    /\ UNCHANGED <<at, left, faults, troubles, kills>>

\* undoStarted: one that throws ends it
Undo ==
    /\ phase = "undo" /\ cleanups # <<>>
    /\ \/ /\ up' = up \ {Last(cleanups)} /\ cleanups' = Front(cleanups)
          /\ UNCHANGED <<phase, stages, left, troubles>>
       \/ /\ Trouble
          /\ IF ending = "signal" THEN Exit
             ELSE /\ cleanups' = Front(cleanups) /\ phase' = "service"
                  /\ UNCHANGED <<up, stages, left>>
    /\ UNCHANGED <<at, ending, faults, signals, kills>>

\* a shutdown closes the listener; a start that fails has it in no list
Undone ==
    /\ phase = "undo" /\ cleanups = <<>>
    /\ phase' = "service"
    /\ up' = IF ending = "signal" THEN up \ {"listener"} ELSE up
    /\ UNCHANGED <<at, stages, cleanups, ending, world>>

\* mutant: in the order they were started
StopStageInOrder ==
    /\ phase = "service" /\ stages # <<>>
    /\ stages' = Tail(stages) /\ up' = up \ {Head(stages)}
    /\ UNCHANGED <<phase, at, cleanups, ending, world>>
\* stopStarted, in reverse; one that throws does not keep the next from its turn
StopStage ==
    /\ phase = "service" /\ stages # <<>>
    /\ stages' = Front(stages)
    /\ \/ up' = up \ {Last(stages)} /\ UNCHANGED troubles
       \/ Last(stages) \in {"database", "logging"} /\ Trouble /\ UNCHANGED up
    /\ UNCHANGED <<phase, at, cleanups, ending, left, faults, signals, kills>>

\* after a start that failed only the exit code is set: a listener keeps the process
Ended ==
    /\ phase = "service" /\ stages = <<>>
    /\ IF ending = "failed" /\ "listener" \in up
       THEN phase' = "failed" /\ UNCHANGED <<up, stages, cleanups, left>>
       ELSE Exit
    /\ UNCHANGED <<at, ending, faults, troubles, signals, kills>>

\* STOPPING=1 has been said: systemd waits no longer than TimeoutStopSec
SystemdKills ==
    /\ phase = "failed"
    /\ phase' = "down" /\ up' = {} /\ cleanups' = <<>>
    /\ UNCHANGED <<at, stages, ending, world>>

Kill ==
    /\ Alive /\ kills < MaxKills /\ kills' = kills + 1
    /\ phase' = "down" /\ up' = {} /\ stages' = <<>> /\ cleanups' = <<>>
    /\ UNCHANGED <<at, ending, left, faults, troubles, signals>>

Process == StartStage \/ Wire \/ Undo \/ Undone \/ StopStage \/ Ended \/ SystemdKills
Next == Start \/ Process \/ Signal \/ Kill
Spec == Init /\ [][Next]_lifecycleVars

-----------------------------------------------------------------------------
TypeOK ==
    /\ phase \in {"down", "boot", "wire", "running", "undo", "service", "failed"}
    /\ at \in 1..Len(Wiring) /\ ending \in {"none", "signal", "failed"}
    /\ up \cup left \subseteq Users \cup Stopped \cup {"heartbeat"}
    /\ ToSet(stages) \subseteq ToSet(Stages) /\ ToSet(cleanups) \subseteq Cleaned

(* "Nothing is torn down before its dependants": whoever writes to the     *)
(* database has been stopped before it closes.  A start that fails after   *)
(* the listener is bound leaves the listener; one whose cleanup throws     *)
(* leaves more.                                                            *)
DatabaseClosesLast ==
    phase \in {"service", "failed"} /\ "database" \notin up =>
        \A u \in up \cap (Users \cup {"logging"}) :
            troubles > 0 \/ (ending = "failed" /\ u = "listener")

(* A process that exits of itself has stopped all it started, unless a     *)
(* stop threw: nothing mounted, listening or open is left to the kernel.   *)
ExitsClean == left # {} => troubles > 0

EndsInOrder == DatabaseClosesLast /\ ExitsClean
=============================================================================
