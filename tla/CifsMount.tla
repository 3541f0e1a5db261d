------------------------------ MODULE CifsMount ------------------------------
(***************************************************************************)
(* The health of one mount: probes on a timer, failures counted until the  *)
(* mount is called offline, a remount on a backoff until it is healthy     *)
(* again.  smb/cifs-mount.ts.  Its owner calls mount, unmount, start,      *)
(* stop and guard; the supervisor calls only the first two.                *)
(*                                                                         *)
(* mount and unmount go through one chain, so each is one step here.  A    *)
(* probe is asked in one step and answered in another.                     *)
(***************************************************************************)
EXTENDS Naturals

CONSTANTS OfflineAfter,   \* consecutive failures before offline
          LastBackoff,    \* last index of BACKOFF_SCHEDULE_MS
          Ticks,          \* probe ticks that may be in flight at once
          Attempts,       \* remounts that may be in flight at once
          MaxStarts,      \* bound: starts of the monitor
          MaxOutages,     \* bound: losses of the server
          MaxOwnerOps     \* bound: mounts and unmounts by the owner

VARIABLES state,      \* currentState
          failures,   \* consecutiveFailures
          backoff,    \* reconnectAttempt, no further than the schedule
          stopped,
          timers,     \* probe timers set; only the last one set can be cleared
          tick,       \* tick[t]: what the probe in flight will answer
          reconnect,  \* a reconnect timer is set
          attempt,    \* attempt[a]: where a remount is
          mounted,    \* the kernel's mount table
          serverUp,
          abandoned,  \* the monitor was stopped with a mount to be mended
          starts, outages, ownerOps

vars == <<state, failures, backoff, stopped, timers, tick, reconnect, attempt,
          mounted, serverUp, abandoned, starts, outages, ownerOps>>
health == <<state, failures, backoff>>
loop == <<timers, tick>>
world == <<mounted, serverUp, starts, outages, ownerOps>>

MountStates == {"unmounted", "healthy", "degraded", "offline", "remounting"}

Init ==
    /\ state = "unmounted" /\ failures = 0 /\ backoff = 0
    /\ stopped = TRUE /\ timers = 0 /\ reconnect = FALSE
    /\ tick = [t \in Ticks |-> "none"]
    /\ attempt = [a \in Attempts |-> "none"]
    /\ mounted = FALSE /\ serverUp = TRUE /\ abandoned = FALSE
    /\ starts = 0 /\ outages = 0 /\ ownerOps = 0

-----------------------------------------------------------------------------
(* A marker that is not there is an answer: so is an empty directory that  *)
(* nothing is mounted on.                                                  *)
ProbeAnswer == IF serverUp \/ ~mounted THEN "ok" ELSE "fails"

RecordSuccess ==
    /\ failures' = 0
    /\ state' = "healthy"
    /\ backoff' = IF state = "healthy" THEN backoff ELSE 0

\* mutant: one remount, and no more
ScheduleReconnectOnce == reconnect' = (reconnect \/ (~stopped /\ backoff = 0))

ScheduleReconnect == reconnect' = (reconnect \/ ~stopped)

RecordFailure ==
    IF state \in {"unmounted", "remounting"}
    THEN UNCHANGED <<health, reconnect>>
    ELSE /\ failures' = IF failures < OfflineAfter THEN failures + 1 ELSE failures
         /\ backoff' = backoff
         /\ IF failures' >= OfflineAfter
            THEN /\ state' = "offline"
                 /\ IF state # "offline" THEN ScheduleReconnect ELSE UNCHANGED reconnect
            ELSE /\ state' = IF state = "healthy" THEN "degraded" ELSE state
                 /\ UNCHANGED reconnect

MountGoesThrough == serverUp

(* mount(): what is mounted stays mounted, and is probed.                  *)
DoMount(onFailure) ==
    /\ mounted' = (mounted \/ serverUp)
    /\ IF MountGoesThrough
       THEN state' = "healthy" /\ failures' = 0 /\ backoff' = 0 /\ UNCHANGED reconnect
       ELSE onFailure

Mount ==
    /\ ownerOps < MaxOwnerOps /\ ownerOps' = ownerOps + 1
    /\ DoMount(UNCHANGED <<health, reconnect>>)
    /\ UNCHANGED <<stopped, loop, attempt, serverUp, abandoned, starts, outages>>

Unmount ==
    /\ ownerOps < MaxOwnerOps /\ ownerOps' = ownerOps + 1
    /\ mounted' = FALSE
    /\ state' = "unmounted"
    /\ UNCHANGED <<failures, backoff, stopped, loop, reconnect, attempt, serverUp,
                   abandoned, starts, outages>>

(* guard(): a call on the server side that failed or timed out.            *)
GuardFails ==
    /\ ~serverUp /\ mounted
    /\ RecordFailure
    /\ UNCHANGED <<stopped, loop, attempt, abandoned, world>>

-----------------------------------------------------------------------------
Start ==
    /\ stopped /\ starts < MaxStarts
    /\ stopped' = FALSE /\ starts' = starts + 1
    /\ timers' = timers + 1
    /\ abandoned' = (state \in {"offline", "remounting"} /\ \A a \in Attempts : attempt[a] = "none")
    /\ UNCHANGED <<health, tick, reconnect, attempt, mounted, serverUp, outages, ownerOps>>

(* stop() clears the timer it knows.                                       *)
Stop ==
    /\ ~stopped
    /\ stopped' = TRUE
    /\ timers' = IF timers > 0 THEN timers - 1 ELSE 0
    /\ reconnect' = FALSE
    /\ UNCHANGED <<health, tick, attempt, abandoned, world>>

ScheduleProbe(n) == timers' = IF stopped THEN n ELSE n + 1

TickIdle == state \in {"offline", "remounting"}

ProbeTimer ==
    /\ timers > 0
    /\ IF TickIdle
       THEN ScheduleProbe(timers - 1) /\ UNCHANGED tick
       ELSE \E t \in Ticks : /\ tick[t] = "none"
                             /\ tick' = [tick EXCEPT ![t] = ProbeAnswer]
                             /\ timers' = timers - 1
    /\ UNCHANGED <<health, stopped, reconnect, attempt, abandoned, world>>

ProbeAnswered(t) ==
    /\ tick[t] # "none"
    /\ tick' = [tick EXCEPT ![t] = "none"]
    /\ IF tick[t] = "ok" THEN RecordSuccess /\ UNCHANGED reconnect ELSE RecordFailure
    /\ ScheduleProbe(timers)
    /\ UNCHANGED <<stopped, attempt, abandoned, world>>

-----------------------------------------------------------------------------
(* attemptReconnect(): remount is a forced unmount and then a mount.       *)
ReconnectTimer ==
    /\ reconnect /\ ~stopped
    /\ reconnect' = FALSE
    /\ \E a \in Attempts : attempt[a] = "none" /\ attempt' = [attempt EXCEPT ![a] = "unmounting"]
    /\ backoff' = IF backoff < LastBackoff THEN backoff + 1 ELSE backoff
    /\ state' = "remounting"
    /\ UNCHANGED <<failures, stopped, loop, abandoned, world>>

RemountUnmounts(a) ==
    /\ attempt[a] = "unmounting"
    /\ attempt' = [attempt EXCEPT ![a] = "mounting"]
    /\ \/ mounted' = FALSE /\ state' = "unmounted"
       \/ mounted /\ UNCHANGED <<mounted, state>>   \* the helper could not
    /\ UNCHANGED <<failures, backoff, stopped, loop, reconnect, serverUp, abandoned,
                   starts, outages, ownerOps>>

\* mutant: a remount that fails is left at that
RemountGivesUp(a) ==
    /\ attempt[a] = "mounting"
    /\ attempt' = [attempt EXCEPT ![a] = "none"]
    /\ DoMount(state' = "offline" /\ UNCHANGED <<reconnect, failures, backoff>>)
    /\ UNCHANGED <<stopped, loop, serverUp, abandoned, starts, outages, ownerOps>>

RemountMounts(a) ==
    /\ attempt[a] = "mounting"
    /\ attempt' = [attempt EXCEPT ![a] = "none"]
    /\ DoMount(state' = "offline" /\ ScheduleReconnect /\ UNCHANGED <<failures, backoff>>)
    /\ UNCHANGED <<stopped, loop, serverUp, abandoned, starts, outages, ownerOps>>

ServerLost ==
    /\ serverUp /\ outages < MaxOutages
    /\ serverUp' = FALSE /\ outages' = outages + 1
    /\ UNCHANGED <<health, stopped, loop, reconnect, attempt, mounted, abandoned, starts, ownerOps>>
ServerBack ==
    /\ ~serverUp /\ serverUp' = TRUE
    /\ UNCHANGED <<health, stopped, loop, reconnect, attempt, mounted, abandoned, starts,
                   outages, ownerOps>>

Next ==
    \/ Mount \/ Unmount \/ GuardFails \/ Start \/ Stop \/ ProbeTimer \/ ReconnectTimer
    \/ \E t \in Ticks : ProbeAnswered(t)
    \/ \E a \in Attempts : RemountUnmounts(a) \/ RemountMounts(a)
    \/ ServerLost \/ ServerBack

(* Timers fire, and calls to a soft mount end within their deadline.       *)
Fairness ==
    /\ WF_vars(ProbeTimer) /\ WF_vars(ReconnectTimer)
    /\ \A t \in Ticks : WF_vars(ProbeAnswered(t))
    /\ \A a \in Attempts : WF_vars(RemountUnmounts(a) \/ RemountMounts(a))
Spec == Init /\ [][Next]_vars /\ Fairness

-----------------------------------------------------------------------------
TypeOK ==
    /\ state \in MountStates
    /\ failures \in 0..OfflineAfter /\ backoff \in 0..LastBackoff
    /\ stopped \in BOOLEAN /\ reconnect \in BOOLEAN /\ mounted \in BOOLEAN
    /\ timers \in 0..MaxStarts
    /\ tick \in [Ticks -> {"none", "ok", "fails"}]
    /\ attempt \in [Attempts -> {"none", "unmounting", "mounting"}]

OfflineIsMended ==
    (state = "offline" /\ ~stopped /\ ~abandoned) =>
        reconnect \/ \E a \in Attempts : attempt[a] # "none"
LoopGoesOn == ~stopped => (timers > 0 \/ \E t \in Ticks : tick[t] # "none")

(* The monitor never gives up: whatever goes wrong in a tick, its loop of  *)
(* probes goes on, and a mount it has called offline has a remount on the  *)
(* clock or under way (unless it was stopped and started over an offline   *)
(* mount, which nothing mends).                                            *)
MonitorKeepsTrying == OfflineIsMended /\ LoopGoesOn

(* With the monitor running and the server back for good, a mount that was *)
(* mounted becomes healthy for good.                                       *)
ComesBack ==
    <>[](serverUp /\ ~stopped /\ ~abandoned /\ ownerOps = MaxOwnerOps)
        => <>[](state = "healthy")
=============================================================================
