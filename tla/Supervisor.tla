------------------------------ MODULE Supervisor ------------------------------
(***************************************************************************)
(* What makes every enabled share sync: the supervisor that starts, stops  *)
(* and times the cycles of each share, its instances' mounts, and the      *)
(* routes that write the share table and ask it to converge.               *)
(* sync/supervisor.ts, web/routes/shares.ts, and mount and unmount of      *)
(* smb/cifs-mount.ts.                                                      *)
(*                                                                         *)
(* reconcile() is a call under way over many awaits, and a caller does not *)
(* wait for the one before it: call[c] is where each is.  An action is the *)
(* code between two awaits.                                                *)
(***************************************************************************)
EXTENDS Naturals, FiniteSets

CONSTANTS Shares, Calls,
          Instances,     \* running instances, numbered in the order they start
          Prints,        \* fingerprints: the settings that need a restart
          NoShare, NoInstance, NoRow, NoCall,
          MaxEdits,      \* bound: edits of the table, mount and unmount requests
          MaxPauses,     \* bound: pauses and resumes
          MaxOutages,    \* bound: losses of the server
          MaxFailures,   \* bound: directories that cannot be made, busy mounts, cycles that throw
          MaxRestarts    \* bound: kills and shutdowns

VARIABLES row,        \* the shares table
          running,    \* SyncSupervisor.running
          inst,       \* every instance that was started, in the map or not
          call,       \* reconcile() and stop() under way
          stopped,
          mounted,    \* what the kernel's mount table says
          serverUp,
          overlapped, \* one call began during another, since the process began
          edits, pauses, outages, failures, restarts

vars == <<row, running, inst, call, stopped, mounted, serverUp, overlapped,
          edits, pauses, outages, failures, restarts>>

Statuses == {"idle", "syncing", "paused", "error", "offline"}
Rows == [enabled : BOOLEAN, print : Prints, status : Statuses]
NewRow(print) == [enabled |-> TRUE, print |-> print, status |-> "idle"]
CycleStates == {"none", "online", "offline"}
\* healthy: CifsMountManager.currentState; only mount and unmount move it here
Running == [share : Shares, print : Prints, online : BOOLEAN, healthy : BOOLEAN,
            paused : BOOLEAN, timer : BOOLEAN, cycle : CycleStates]
Unused == [share |-> NoShare]

Steps == {"next", "waiting", "unmountCheck", "unmountDo",
          "preparing", "mounting", "asserting", "probing"}

budgets == <<edits, pauses, outages, failures, restarts>>

-----------------------------------------------------------------------------
Idle(c) == call[c] = NoCall
Quiet == \A c \in Calls : Idle(c)

Desired(rows) == {s \in Shares : rows[s] # NoRow /\ rows[s].enabled}

\* mutant: a change of settings does not restart the instance
NewCallIgnoresSettings(rows, purge) ==
    [stops  |-> {s \in Shares : running[s] # NoInstance /\ s \notin Desired(rows)},
     starts |-> Desired(rows), ends |-> FALSE, purge |-> purge,
     pc |-> "next", share |-> NoShare, inst |-> NoInstance, print |-> CHOOSE p \in Prints : TRUE]

(* What reconcile() reads at once, before its first await: the running     *)
(* instances that no longer describe what is asked for, and the rows.      *)
NewCall(rows, purge) ==
    [stops  |-> {s \in Shares : /\ running[s] # NoInstance
                                /\ \/ s \notin Desired(rows)
                                   \/ inst[running[s]].print # rows[s].print},
     starts |-> Desired(rows), ends |-> FALSE, purge |-> purge,
     pc |-> "next", share |-> NoShare, inst |-> NoInstance, print |-> CHOOSE p \in Prints : TRUE]

(* The process has begun and asked for its first reconcile (server.ts).    *)
Init ==
    /\ row = [s \in Shares |-> NewRow(CHOOSE p \in Prints : TRUE)]
    /\ running = [s \in Shares |-> NoInstance]
    /\ inst = [i \in Instances |-> Unused]
    /\ \E c \in Calls : call = [d \in Calls |-> IF d = c THEN NewCall(row, NoShare) ELSE NoCall]
    /\ stopped = FALSE
    /\ mounted = [s \in Shares |-> FALSE]
    /\ serverUp = TRUE
    /\ overlapped = FALSE
    /\ edits = 0 /\ pauses = 0 /\ outages = 0 /\ failures = 0 /\ restarts = 0

Begin(c, rows, purge) ==
    /\ ~stopped
    /\ Idle(c)
    /\ call' = [call EXCEPT ![c] = NewCall(rows, purge)]
    /\ overlapped' = (overlapped \/ ~Quiet)

(* setStatus and recordScan: an UPDATE of a row that may be gone; nothing  *)
(* once the supervisor is stopped.                                         *)
WithStatus(s, status) ==
    IF stopped \/ row[s] = NoRow THEN row ELSE [row EXCEPT ![s].status = status]

(* CifsMountManager.transition: the listener reads a member the event does *)
(* not have, so that every change of state makes the share offline.        *)
Moved(i, healthy) ==
    IF inst[i].healthy = healthy THEN inst[i]
    ELSE [inst[i] EXCEPT !.healthy = healthy, !.online = FALSE]

MovedRow(i, healthy) ==
    IF inst[i].healthy = healthy THEN row ELSE WithStatus(inst[i].share, "offline")

\* mutant: a cycle copies whatever the state of the mount
CycleIgnoresTheServer(i) ==
    IF i.cycle # "none" THEN i ELSE [i EXCEPT !.cycle = IF i.paused THEN "offline" ELSE "online"]

(* cycle(): the instance in the map, unless one of its cycles is running.  *)
(* runCycle() asks for the pause and for the server before it awaits.      *)
CycleOf(i) ==
    IF i.cycle # "none" THEN i
    ELSE [i EXCEPT !.cycle = IF ~i.paused /\ i.online /\ mounted[i.share] /\ serverUp
                             THEN "online" ELSE "offline"]

-----------------------------------------------------------------------------
(* The routes.  What a handler writes and the call it makes are one step.  *)

Edit(c, rows, purge) ==
    /\ edits < MaxEdits /\ edits' = edits + 1
    /\ row' = rows
    /\ Begin(c, rows, purge)
    /\ UNCHANGED <<running, inst, stopped, mounted, serverUp,
                   pauses, outages, failures, restarts>>

UpdateShare(c, s) ==
    /\ row[s] # NoRow
    /\ \/ Edit(c, [row EXCEPT ![s].enabled = ~@], NoShare)
       \/ \E p \in Prints \ {row[s].print} : Edit(c, [row EXCEPT ![s].print = p], NoShare)

CreateShare(c, s) ==
    /\ row[s] = NoRow
    /\ \E p \in Prints : Edit(c, [row EXCEPT ![s] = NewRow(p)], NoShare)

DeleteShare(c, s) ==
    /\ row[s] # NoRow
    /\ \E purge \in {NoShare, s} : Edit(c, [row EXCEPT ![s] = NoRow], purge)

\* the actions mount and unmount
AskToConverge(c) == (\E s \in Shares : row[s] # NoRow) /\ Edit(c, row, NoShare)

SetPaused(s) ==
    /\ pauses < MaxPauses /\ pauses' = pauses + 1
    /\ running[s] # NoInstance
    /\ LET i == running[s]
       IN  /\ inst' = [inst EXCEPT ![i].paused = ~@]
           /\ row' = WithStatus(s, IF inst[i].paused THEN "idle" ELSE "paused")
    /\ UNCHANGED <<running, call, stopped, mounted, serverUp, overlapped,
                   edits, outages, failures, restarts>>

(* A timer of an instance, or runNow(): a cycle of whatever the map holds. *)
StartCycle(s) ==
    /\ running[s] # NoInstance
    /\ LET i == running[s]
       IN  /\ inst[i].cycle = "none"
           /\ inst' = [inst EXCEPT ![i] = CycleOf(@)]
    /\ UNCHANGED <<row, running, call, stopped, mounted, serverUp, overlapped, budgets>>

(* An open breaker, or a listing that failed, reports what it has seen.    *)
EndCycle(i) ==
    /\ inst[i] # Unused /\ inst[i].cycle # "none"
    /\ inst' = [inst EXCEPT ![i].cycle = "none"]
    /\ \/ /\ \E st \in (IF inst[i].cycle = "online" THEN {"idle", "syncing"} ELSE {"offline"}) :
               row' = WithStatus(inst[i].share, st)
          /\ UNCHANGED failures
       \/ /\ failures < MaxFailures /\ failures' = failures + 1
          /\ \E st \in {"error", "offline"} : row' = WithStatus(inst[i].share, st)
    /\ UNCHANGED <<running, call, stopped, mounted, serverUp, overlapped,
                   edits, pauses, outages, restarts>>

-----------------------------------------------------------------------------
(* reconcile(), first loop: stopShare for each instance on the list.       *)

\* mutant: the map keeps an instance whose row says it exists, and forgets the instance
StopNextKeepsAStaleEntry(c) ==
    /\ ~Idle(c) /\ call[c].pc = "next"
    /\ \E s \in call[c].stops :
         /\ inst' = IF running[s] = NoInstance THEN inst ELSE [inst EXCEPT ![running[s]] = Unused]
         /\ call' = [call EXCEPT ![c].stops = @ \ {s}]
    /\ UNCHANGED <<row, running, stopped, mounted, serverUp, overlapped, budgets>>

StopNext(c) ==
    /\ ~Idle(c) /\ call[c].pc = "next"
    /\ \E s \in call[c].stops :
         LET i == running[s]
             left == [call[c] EXCEPT !.stops = @ \ {s}]
         IN  IF i = NoInstance
             THEN /\ call' = [call EXCEPT ![c] = left]
                  /\ UNCHANGED <<running, inst>>
             ELSE /\ running' = [running EXCEPT ![s] = NoInstance]
                  /\ inst' = [inst EXCEPT ![i].timer = FALSE]
                  /\ call' = [call EXCEPT ![c] = [left EXCEPT !.pc = "waiting", !.inst = i]]
    /\ UNCHANGED <<row, stopped, mounted, serverUp, overlapped, budgets>>

\* mutant: the cycle in flight is not waited for
CycleIsNotAwaited(c) ==
    /\ ~Idle(c) /\ call[c].pc = "waiting"
    /\ call' = [call EXCEPT ![c].pc = "unmountCheck"]
    /\ UNCHANGED <<row, running, inst, stopped, mounted, serverUp, overlapped, budgets>>

CycleIsOver(c) ==
    /\ ~Idle(c) /\ call[c].pc = "waiting"
    /\ inst[call[c].inst].cycle = "none"
    /\ call' = [call EXCEPT ![c].pc = "unmountCheck"]
    /\ UNCHANGED <<row, running, inst, stopped, mounted, serverUp, overlapped, budgets>>

(* serialise(): the operations of one mount manager do not interleave;     *)
(* those of two managers of one mount point do.                            *)
MountBusy(c, i) ==
    \E d \in Calls \ {c} : /\ ~Idle(d) /\ call[d].inst = i
                           /\ call[d].pc \in {"mounting", "asserting", "probing"}

UnmountCheck(c) ==
    /\ ~Idle(c) /\ call[c].pc = "unmountCheck"
    /\ LET i == call[c].inst
       IN  /\ ~MountBusy(c, i)
           /\ IF mounted[inst[i].share]
              THEN /\ call' = [call EXCEPT ![c].pc = "unmountDo"]
                   /\ UNCHANGED <<inst, row>>
              ELSE /\ call' = [call EXCEPT ![c].pc = "next", ![c].inst = NoInstance]
                   /\ inst' = [inst EXCEPT ![i] = Moved(i, FALSE)]
                   /\ row' = MovedRow(i, FALSE)
    /\ UNCHANGED <<running, stopped, mounted, serverUp, overlapped, budgets>>

UnmountDo(c) ==
    /\ ~Idle(c) /\ call[c].pc = "unmountDo"
    /\ call' = [call EXCEPT ![c].pc = "next", ![c].inst = NoInstance]
    /\ LET i == call[c].inst
       IN  \/ /\ mounted' = [mounted EXCEPT ![inst[i].share] = FALSE]
              /\ inst' = [inst EXCEPT ![i] = Moved(i, FALSE)]
              /\ row' = MovedRow(i, FALSE)
              /\ UNCHANGED failures
           \/ /\ failures < MaxFailures /\ failures' = failures + 1
              /\ UNCHANGED <<mounted, inst, row>>
    /\ UNCHANGED <<running, stopped, serverUp, overlapped, edits, pauses, outages, restarts>>

-----------------------------------------------------------------------------
(* Second loop: startShare for each row on the list that is not running.   *)

StartNext(c) ==
    /\ ~Idle(c) /\ call[c].pc = "next" /\ call[c].stops = {}
    /\ \E s \in call[c].starts :
         LET left == [call[c] EXCEPT !.starts = @ \ {s}]
         IN  \* store.get throws for a row that is gone: the catch forgets the share
             IF running[s] # NoInstance \/ row[s] = NoRow
             THEN call' = [call EXCEPT ![c] = left]
             ELSE call' = [call EXCEPT ![c] =
                             [left EXCEPT !.pc = "preparing", !.share = s, !.print = row[s].print]]
    /\ UNCHANGED <<row, running, inst, stopped, mounted, serverUp, overlapped, budgets>>

Fresh == {i \in Instances : inst[i] = Unused}

Prepared(c) ==
    /\ ~Idle(c) /\ call[c].pc = "preparing"
    /\ LET s == call[c].share
       IN  \/ \E i \in Fresh :
                /\ \A j \in Fresh : i <= j
                /\ inst' = [inst EXCEPT ![i] =
                     [share |-> s, print |-> call[c].print, online |-> FALSE, healthy |-> FALSE,
                      paused |-> FALSE, timer |-> FALSE, cycle |-> "none"]]
                /\ running' = [running EXCEPT ![s] = i]
                /\ row' = WithStatus(s, "idle")
                /\ call' = [call EXCEPT ![c].pc = "mounting", ![c].inst = i]
                /\ UNCHANGED failures
           \/ /\ failures < MaxFailures /\ failures' = failures + 1
              /\ running' = [running EXCEPT ![s] = NoInstance]
              /\ row' = WithStatus(s, "error")
              /\ call' = [call EXCEPT ![c].pc = "next", ![c].share = NoShare]
              /\ UNCHANGED inst
    /\ UNCHANGED <<stopped, mounted, serverUp, overlapped, edits, pauses, outages, restarts>>

(* The end of startShare: the timer of its own instance, a cycle of the    *)
(* one in the map.                                                         *)
Started(c, instance, rows) ==
    LET i == call[c].inst
        s == call[c].share
        timed == [inst EXCEPT ![i] = [instance EXCEPT !.timer = TRUE]]
        j == running[s]
    IN  /\ inst' = IF j = NoInstance THEN timed
                   ELSE [timed EXCEPT ![j] = CycleOf(@)]
        /\ row' = rows
        /\ call' = [call EXCEPT ![c].pc = "next", ![c].inst = NoInstance, ![c].share = NoShare]

MountFails(c) ==
    Started(c, inst[call[c].inst], WithStatus(call[c].share, "offline"))

Mounting(c) ==
    /\ ~Idle(c) /\ call[c].pc = "mounting"
    /\ IF mounted[call[c].share] \/ serverUp
       THEN /\ mounted' = [mounted EXCEPT ![call[c].share] = TRUE]
            /\ call' = [call EXCEPT ![c].pc = "asserting"]
            /\ UNCHANGED <<inst, row>>
       ELSE MountFails(c) /\ UNCHANGED mounted
    /\ UNCHANGED <<running, stopped, serverUp, overlapped, budgets>>

Asserting(c) ==
    /\ ~Idle(c) /\ call[c].pc = "asserting"
    /\ IF mounted[call[c].share]
       THEN /\ call' = [call EXCEPT ![c].pc = "probing"]
            /\ UNCHANGED <<inst, row>>
       ELSE MountFails(c)
    /\ UNCHANGED <<running, stopped, mounted, serverUp, overlapped, budgets>>

(* A probe of an empty directory finds no marker, which counts as an       *)
(* answer.  The event says offline, and then mount() returns.              *)
Probing(c) ==
    /\ ~Idle(c) /\ call[c].pc = "probing"
    /\ IF serverUp \/ ~mounted[call[c].share]
       THEN LET i == call[c].inst
            IN  Started(c, [inst[i] EXCEPT !.healthy = TRUE, !.online = TRUE], MovedRow(i, TRUE))
       ELSE MountFails(c)
    /\ UNCHANGED <<running, stopped, mounted, serverUp, overlapped, budgets>>

(* The call is through; a DELETE that asked for it removes the cache now.  *)
Finish(c) ==
    /\ ~Idle(c) /\ call[c].pc = "next"
    /\ call[c].stops = {} /\ call[c].starts = {}
    /\ call' = [call EXCEPT ![c] = NoCall]
    /\ UNCHANGED <<row, running, inst, stopped, mounted, serverUp, overlapped, budgets>>

-----------------------------------------------------------------------------
(* stop(), and what the process leaves: the table and the mounts.          *)
Stop(c) ==
    /\ restarts < MaxRestarts
    /\ ~stopped /\ Idle(c)
    /\ stopped' = TRUE
    /\ overlapped' = (overlapped \/ ~Quiet)
    /\ call' = [call EXCEPT ![c] =
         [NewCall(row, NoShare) EXCEPT !.stops = {s \in Shares : running[s] # NoInstance},
                                       !.starts = {}, !.ends = TRUE]]
    /\ UNCHANGED <<row, running, inst, mounted, serverUp, budgets>>

StopUnderWay == \E c \in Calls : ~Idle(c) /\ call[c].ends

\* server.ts starts a reconcile and does not wait for it
Restart(c) ==
    /\ restarts < MaxRestarts /\ restarts' = restarts + 1
    /\ running' = [s \in Shares |-> NoInstance]
    /\ inst' = [i \in Instances |-> Unused]
    /\ stopped' = FALSE /\ overlapped' = FALSE
    /\ call' = [d \in Calls |-> IF d # c THEN NoCall
                                ELSE [NewCall(row, NoShare) EXCEPT !.stops = {}]]
    /\ UNCHANGED <<row, mounted, serverUp, edits, pauses, outages, failures>>

ServerLost ==
    /\ serverUp /\ outages < MaxOutages
    /\ serverUp' = FALSE /\ outages' = outages + 1
    /\ UNCHANGED <<row, running, inst, call, stopped, mounted, overlapped,
                   edits, pauses, failures, restarts>>
ServerBack ==
    /\ ~serverUp /\ serverUp' = TRUE
    /\ UNCHANGED <<row, running, inst, call, stopped, mounted, overlapped, budgets>>

Step(c) == \/ StopNext(c) \/ CycleIsOver(c) \/ UnmountCheck(c) \/ UnmountDo(c)
           \/ StartNext(c) \/ Prepared(c) \/ Mounting(c) \/ Asserting(c)
           \/ Probing(c) \/ Finish(c)
Ask(c) == \/ AskToConverge(c) \/ Stop(c) \/ Restart(c)
          \/ \E s \in Shares : UpdateShare(c, s) \/ CreateShare(c, s) \/ DeleteShare(c, s)

Next == \/ \E c \in Calls : Step(c) \/ Ask(c)
        \/ \E s \in Shares : SetPaused(s) \/ StartCycle(s)
        \/ \E i \in Instances : EndCycle(i)
        \/ ServerLost \/ ServerBack

Spec == Init /\ [][Next]_vars

Timed(s) == (\E i \in Instances : inst[i] # Unused /\ inst[i].share = s /\ inst[i].timer)
            /\ StartCycle(s)
(* Every await is answered, timers fire, cycles end.                       *)
Fairness == /\ \A c \in Calls : WF_vars(Step(c))
            /\ \A s \in Shares : WF_vars(Timed(s))
            /\ \A i \in Instances : WF_vars(EndCycle(i))
FairSpec == Spec /\ Fairness

-----------------------------------------------------------------------------
CallRecords == [stops : SUBSET Shares, starts : SUBSET Shares, ends : BOOLEAN,
                purge : Shares \cup {NoShare}, pc : Steps, share : Shares \cup {NoShare},
                inst : Instances \cup {NoInstance}, print : Prints]

\* what the constants are asked for: a marker is none of what it marks the absence of
MarkersAreApart ==
    /\ NoShare \notin Shares /\ NoInstance \notin Instances /\ NoRow \notin Rows
    /\ NoCall \notin CallRecords /\ Prints # {}

TypeOK ==
    /\ row \in [Shares -> Rows \cup {NoRow}]
    /\ running \in [Shares -> Instances \cup {NoInstance}]
    /\ inst \in [Instances -> Running \cup {Unused}]
    /\ call \in [Calls -> CallRecords \cup {NoCall}]
    /\ stopped \in BOOLEAN /\ serverUp \in BOOLEAN /\ overlapped \in BOOLEAN
    /\ mounted \in [Shares -> BOOLEAN]
    /\ \A s \in Shares : running[s] # NoInstance => inst[running[s]] # Unused

Cycling(i, s) == inst[i] # Unused /\ inst[i].share = s /\ inst[i].cycle # "none"

(* What runs is what the table asks for, once no call is under way, if the *)
(* calls came one after the other: an enabled share that is not running    *)
(* could not be started, and says so.                                      *)
Matches ==
    \A s \in Shares :
      IF running[s] # NoInstance
      THEN row[s] # NoRow /\ row[s].enabled /\ inst[running[s]].print = row[s].print
      ELSE row[s] = NoRow \/ ~row[s].enabled \/ row[s].status = "error"
ConvergesInTurn == (Quiet /\ ~stopped /\ ~overlapped) => Matches

NoUnmount ==
    \A s \in Shares : (mounted[s] /\ ~mounted'[s]) => \A i \in Instances : ~Cycling(i, s)
NoPurge ==
    \A c \in Calls : (~Idle(c) /\ call[c].purge # NoShare /\ call'[c] = NoCall /\ restarts' = restarts)
                       => \A i \in Instances : ~Cycling(i, call[c].purge)
NoCycleAfterStop ==
    (stopped' /\ ~StopUnderWay') => \A i \in Instances, s \in Shares : ~Cycling(i, s)'

(* If the calls come one after the other: an export is not unmounted and a *)
(* deleted share's cache not removed (routes/shares.ts) while a cycle of   *)
(* it is copying, and when stop() has returned no cycle is left to write   *)
(* to a database that is closing.                                          *)
NothingEndsUnderACycle ==
    [][~overlapped' => (NoUnmount /\ NoPurge /\ NoCycleAfterStop)]_vars

(* A share that runs against a server that stays away ends up, for good,   *)
(* with the status the failover service waits for.                         *)
OutageReachesTheColumn ==
    \A s \in Shares :
      <>[](running[s] # NoInstance /\ row[s] # NoRow /\ ~serverUp /\ ~stopped)
        => <>[](row[s] # NoRow /\ row[s].status = "offline")
=============================================================================
