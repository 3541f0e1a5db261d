------------------------------ MODULE Scheduler ------------------------------
(***************************************************************************)
(* The cron engine, scheduling/scheduler.ts, with its registry of jobs,    *)
(* scheduling/jobs.ts, its routes, web/routes/schedules.ts, and the rows   *)
(* that are kept in step with the configuration,                           *)
(* system/managed-schedules.ts.                                            *)
(*                                                                         *)
(* A cron expression is the distance of its occurrences; Never is one that *)
(* does not occur, or does not parse.                                      *)
(***************************************************************************)
EXTENDS Naturals, FiniteSets

CONSTANTS Ids,          \* of schedules
          Managed,      \* the id of the row that is kept in step
          NoRow, None,
          CatchupGrace,
          MaxTime,      \* bound: seconds, so to speak
          MaxEdits,     \* bound: edits of a row, and of the configuration
          MaxRuns,      \* bound: runs of one schedule at the same time
          MaxStarts     \* bound: starts of the process

Kinds == {"scan", "restart", "prune", "update"}
CatchupKinds == {"scan", "prune"}   \* and backup
Crons == {2, 3}
Never == 0

VARIABLES
    rows,        \* id -> row of schedules
    when,        \* the updates section: cron and enabled
    phase,       \* "down", "catching" up, "up", "stopping"
    fires,       \* id -> when the timer programmed for it fires next
    runs,        \* id -> runs in flight, of a timer or by hand
    missed,      \* ids start() found enabled and overdue, in the order of its list
    catching,    \* the one whose catch-up is under way
    clock,
    due, caught, \* what was overdue at the start, and how often each was caught up
    edits, starts

schedulerVars == <<rows, when, phase, fires, runs, missed, catching, clock, due, caught,
                   edits, starts>>

Row(kind, cron, enabled, next) ==
    [kind |-> kind, cron |-> cron, enabled |-> enabled, next |-> next, last |-> None]

Exists(id) == rows[id] # NoRow
Occurrence(cron) == (clock \div cron + 1) * cron
Started == phase \in {"catching", "up"}

-----------------------------------------------------------------------------
(* jobs.ts and the composition root: a handler registered for a kind takes *)
(* the place of the one before.                                            *)
Register(jobs, kind, handler) == [jobs EXCEPT ![kind] = handler]
Jobs == LET none    == [k \in Kinds |-> None]
            first   == Register(none, "prune", "cleanup")
            updates == Register(first, "update", "checkAndMaybeApply")
        IN  Register(updates, "prune", "rollUp")

(* program(): the timer is replaced, and the row told its next occurrence. *)
Programmed(row) == row # NoRow /\ Started /\ row.enabled
Program(id, row) ==
    /\ fires' = [fires EXCEPT ![id] = IF Programmed(row) THEN Occurrence(row.cron) ELSE None]
    /\ rows' = [rows EXCEPT ![id] =
                  IF Programmed(row) THEN [row EXCEPT !.next = Occurrence(row.cron)] ELSE row]

\* mutant: the row is written and its timer left as it is
UpdateRowOnly(id, cron, enabled) ==
    /\ cron # Never
    /\ rows' = [rows EXCEPT ![id] = [@ EXCEPT !.cron = cron, !.enabled = enabled,
                                               !.next = Occurrence(cron)]]
    /\ UNCHANGED fires
UpdateRow(id, cron, enabled) ==
    /\ cron # Never    \* validateCron
    /\ Program(id, [rows[id] EXCEPT !.cron = cron, !.enabled = enabled,
                                    !.next = Occurrence(cron)])
\* mutant: whatever the expression, and no timer for it
CreateRowUnchecked(id, kind, cron, enabled) ==
    /\ rows' = [rows EXCEPT ![id] = Row(kind, cron, enabled, clock)]
    /\ UNCHANGED fires
CreateRow(id, kind, cron, enabled) ==
    /\ cron # Never
    /\ Program(id, Row(kind, cron, enabled, Occurrence(cron)))

(* ensure() of managed-schedules.ts: written only when something differs,  *)
(* and left as it is when it cannot be written.                            *)
\* mutant: a switch alone is no difference
EnsureCron(w) ==
    IF ~Exists(Managed) THEN CreateRow(Managed, "update", w.cron, w.enabled)
    ELSE IF rows[Managed].cron = w.cron THEN UNCHANGED <<rows, fires>>
         ELSE UpdateRow(Managed, w.cron, w.enabled)
Ensure(w) ==
    IF w.cron = Never THEN UNCHANGED <<rows, fires>>
    ELSE IF ~Exists(Managed) THEN CreateRow(Managed, "update", w.cron, w.enabled)
    ELSE IF rows[Managed].cron = w.cron /\ rows[Managed].enabled = w.enabled
         THEN UNCHANGED <<rows, fires>>
         ELSE UpdateRow(Managed, w.cron, w.enabled)

-----------------------------------------------------------------------------
(* Rows as a run of the past left them.                                    *)
Init ==
    /\ \E kind \in Kinds, cron \in Crons : \E row \in {NoRow, Row(kind, cron, TRUE, cron)} :
         rows = [id \in Ids |-> IF id = Managed THEN NoRow ELSE row]
    /\ when = [cron |-> 2, enabled |-> TRUE]
    /\ phase = "down" /\ fires = [id \in Ids |-> None] /\ runs = [id \in Ids |-> 0]
    /\ missed = {} /\ catching = None /\ due = {} /\ caught = [id \in Ids |-> 0]
    /\ clock \in {1, MaxTime - 2}
    /\ edits = 0 /\ starts = 0

Edited == edits < MaxEdits /\ edits' = edits + 1

(* The routes.  A row that is managed is refused, and so is one that does  *)
(* not exist or a cron that never comes: 409, 404, 400.                    *)
Create(id, kind, cron, enabled) ==
    /\ Started /\ Edited
    /\ id # Managed /\ ~Exists(id)
    /\ CreateRow(id, kind, cron, enabled)
    /\ UNCHANGED <<when, phase, runs, missed, catching, clock, due, caught, starts>>

Update(id, cron, enabled) ==
    /\ Started /\ Edited
    /\ id # Managed /\ Exists(id)
    /\ UpdateRow(id, cron, enabled)
    /\ UNCHANGED <<when, phase, runs, missed, catching, clock, due, caught, starts>>

Delete(id) ==
    /\ Started /\ Edited
    /\ id # Managed /\ Exists(id)
    /\ rows' = [rows EXCEPT ![id] = NoRow] /\ fires' = [fires EXCEPT ![id] = None]
    /\ UNCHANGED <<when, phase, runs, missed, catching, clock, due, caught, starts>>

SaveUpdates(cron, enabled) ==
    /\ Started /\ Edited
    /\ when' = [cron |-> cron, enabled |-> enabled]
    /\ Ensure(when')
    /\ UNCHANGED <<phase, runs, missed, catching, clock, due, caught, starts>>

-----------------------------------------------------------------------------
(* recordResult(), and the next occurrence of the timer there is now.      *)
Recorded(id, result) ==
    LET row == rows[id]
    IN  rows' = [rows EXCEPT ![id] =
                   IF row = NoRow THEN NoRow
                   ELSE [row EXCEPT !.last = result,
                                    !.next = IF fires[id] = None THEN row.next
                                             ELSE Occurrence(row.cron)]]

(* execute(): nothing without a row, and only a note without a handler.    *)
Execute(id) ==
    IF ~Exists(id) THEN UNCHANGED <<rows, runs>>
    ELSE IF Jobs[rows[id].kind] = None
         THEN Recorded(id, "skipped") /\ UNCHANGED runs
         ELSE /\ runs[id] < MaxRuns
              /\ runs' = [runs EXCEPT ![id] = @ + 1] /\ UNCHANGED rows

(* The timer asks its callback's promise whether the run before is over;   *)
(* the callback returns none, so the answer is yes.                        *)
Fire(id) ==
    /\ fires[id] # None /\ clock >= fires[id]
    /\ fires' = [fires EXCEPT ![id] = Occurrence(rows[id].cron)]
    /\ LET next == Occurrence(rows[id].cron)
       IN  IF Jobs[rows[id].kind] = None
           THEN /\ rows' = [rows EXCEPT ![id].last = "skipped", ![id].next = next]
                /\ UNCHANGED runs
           ELSE Execute(id)
    /\ UNCHANGED <<when, phase, missed, catching, clock, due, caught, edits, starts>>

RunByHand(id) ==
    /\ Started /\ Exists(id) /\ edits < MaxEdits /\ edits' = edits + 1
    /\ Execute(id)
    /\ UNCHANGED <<when, phase, fires, missed, catching, clock, due, caught, starts>>

EndRun(id) ==
    /\ runs[id] > 0 /\ runs' = [runs EXCEPT ![id] = @ - 1]
    /\ \E result \in {"ok", "error"} : Recorded(id, result)
    /\ UNCHANGED <<when, phase, fires, missed, catching, clock, due, caught, edits, starts>>

-----------------------------------------------------------------------------
\* mutant: the list is read again once the timers have told the rows
OverdueAnew(r) == {id \in Ids : r[id] # NoRow /\ r[id].enabled /\ r[id].kind \in CatchupKinds
                                 /\ Occurrence(r[id].cron) < clock - CatchupGrace}
Overdue(r) == {id \in Ids : r[id] # NoRow /\ r[id].enabled /\ r[id].kind \in CatchupKinds
                             /\ r[id].next < clock - CatchupGrace}

(* ManagedSchedules.reconcile and then start(): every enabled row gets its *)
(* timer; what was overdue in the list read before is run.                 *)
Start ==
    /\ phase = "down" /\ starts < MaxStarts /\ starts' = starts + 1
    /\ LET mine   == Row("update", when.cron, when.enabled, Occurrence(when.cron))
           listed == [id \in Ids |-> IF id = Managed
                                      THEN IF Exists(id) /\ rows[id].cron = when.cron
                                                         /\ rows[id].enabled = when.enabled
                                           THEN rows[id]
                                           ELSE IF when.cron = Never THEN rows[id] ELSE mine
                                      ELSE rows[id]]
           On(id) == listed[id] # NoRow /\ listed[id].enabled
       IN  /\ rows' = [id \in Ids |-> IF On(id) THEN [listed[id] EXCEPT !.next = Occurrence(listed[id].cron)]
                                      ELSE listed[id]]
           /\ fires' = [id \in Ids |-> IF On(id) THEN Occurrence(listed[id].cron) ELSE None]
           /\ missed' = Overdue(listed)
           /\ due' = {id \in Ids : listed[id] # NoRow /\ listed[id].enabled
                                     /\ listed[id].kind \in CatchupKinds
                                     /\ listed[id].next < clock - CatchupGrace}
    /\ phase' = "catching" /\ catching' = None /\ caught' = [id \in Ids |-> 0]
    /\ UNCHANGED <<when, runs, clock, edits>>

(* runMissed(), one after the other.                                       *)
CatchUp(id) ==
    /\ phase = "catching" /\ catching = None
    /\ id \in missed /\ \A other \in missed : id <= other
    /\ missed' = missed \ {id}
    /\ IF Exists(id) /\ Jobs[rows[id].kind] # None
       THEN catching' = id /\ caught' = [caught EXCEPT ![id] = @ + 1] /\ UNCHANGED rows
       ELSE /\ UNCHANGED <<catching, caught>>
            /\ Recorded(id, "skipped")
    /\ UNCHANGED <<when, phase, fires, runs, clock, due, edits, starts>>

CaughtUp ==
    /\ catching # None /\ catching' = None
    /\ \E result \in {"ok", "error"} : Recorded(catching, result)
    /\ UNCHANGED <<when, phase, fires, runs, missed, clock, due, caught, edits, starts>>

Up ==
    /\ phase = "catching" /\ missed = {} /\ catching = None
    /\ phase' = "up"
    /\ UNCHANGED <<rows, when, fires, runs, missed, catching, clock, due, caught, edits, starts>>

(* stop(): the timers at once, then whatever is in flight is waited for.   *)
Stop ==
    /\ phase = "up" /\ phase' = "stopping"
    /\ fires' = [id \in Ids |-> None]
    /\ UNCHANGED <<rows, when, runs, missed, catching, clock, due, caught, edits, starts>>

Stopped ==
    /\ phase = "stopping" /\ \A id \in Ids : runs[id] = 0
    /\ phase' = "down"
    /\ UNCHANGED <<rows, when, fires, runs, missed, catching, clock, due, caught, edits, starts>>

Crash ==
    /\ phase \in {"catching", "up"} /\ phase' = "down"
    /\ fires' = [id \in Ids |-> None] /\ runs' = [id \in Ids |-> 0]
    /\ missed' = {} /\ catching' = None
    /\ UNCHANGED <<rows, when, clock, due, caught, edits, starts>>

(* A timer that is due fires before the clock goes on.                     *)
Pass ==
    /\ clock < MaxTime /\ clock' = clock + 1
    /\ \A id \in Ids : fires[id] # None => clock < fires[id]
    /\ UNCHANGED <<rows, when, phase, fires, runs, missed, catching, due, caught, edits, starts>>

Next ==
    \/ \E id \in Ids, kind \in Kinds, cron \in Crons \cup {Never}, on \in BOOLEAN :
         Create(id, kind, cron, on)
    \/ \E id \in Ids, cron \in Crons \cup {Never}, on \in BOOLEAN : Update(id, cron, on)
    \/ \E cron \in Crons \cup {Never}, on \in BOOLEAN : SaveUpdates(cron, on)
    \/ \E id \in Ids : Delete(id) \/ Fire(id) \/ RunByHand(id) \/ EndRun(id) \/ CatchUp(id)
    \/ Start \/ CaughtUp \/ Up \/ Stop \/ Stopped \/ Crash \/ Pass

Spec == Init /\ [][Next]_schedulerVars

-----------------------------------------------------------------------------
Rows == [kind : Kinds, cron : Crons, enabled : BOOLEAN, next : Nat,
         last : {None, "ok", "error", "skipped"}]
\* what the constants are asked for
SettingIsSound ==
    /\ Ids \subseteq Nat /\ Managed \in Ids /\ NoRow \notin Rows /\ None \notin Nat
    /\ MaxTime \in Nat /\ MaxTime >= 2

TypeOK ==
    /\ DOMAIN rows = Ids /\ \A id \in Ids : Exists(id) => rows[id].cron \in Crons
    /\ runs \in [Ids -> 0..MaxRuns]
    /\ missed \subseteq Ids /\ catching \in Ids \cup {None}

(* A timer stands for every row that is switched on and for no other, and  *)
(* the next run the row tells is when it fires, but for a run in flight.   *)
TimersAnswerForRows ==
    \A id \in Ids :
        /\ fires[id] # None <=> Programmed(rows[id])
        /\ (fires[id] # None /\ clock < fires[id] /\ runs[id] = 0 /\ catching # id)
             => rows[id].next = fires[id]

(* What was missed while the service was down runs once, and not again.    *)
MissedRunsOnce ==
    /\ \A id \in Ids : caught[id] <= (IF id \in due THEN 1 ELSE 0)
    /\ phase = "up" => \A id \in due : \/ caught[id] = 1
                                       \/ edits > 0 \/ Jobs[rows[id].kind] = None

(* "one owner and not two": the managed row runs when the updates section  *)
(* says, if that says when.                                                *)
ConfigOwnsWhen ==
    (Started /\ when.cron # Never) =>
        rows[Managed].cron = when.cron /\ rows[Managed].enabled = when.enabled

SchedulesHold == TimersAnswerForRows /\ MissedRunsOnce /\ ConfigOwnsWhen

(* "A job that is still running when its next tick arrives does not start  *)
(* a second copy" (scheduler.ts).                                          *)
NoOverlap == \A id \in Ids : runs[id] <= 1
=============================================================================
