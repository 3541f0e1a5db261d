------------------------------- MODULE Locks -------------------------------
(***************************************************************************)
(* The locks of one share: the lock table (locking/lock-manager.ts), the   *)
(* holders and the write bit that make a lock real on the server           *)
(* (byte-range.ts, read-only-guard.ts), and those who ask for locks:       *)
(* machines through the audit feed and smbstatus                           *)
(* (machine-lock-source.ts), operators, and the lock windows               *)
(* (schedule-windows.ts).                                                  *)
(*                                                                         *)
(* Every handler is synchronous, so nothing in the process runs in the     *)
(* middle of one; but the process may be killed between any two of its     *)
(* statements, and the table and the server's files outlive it.  A handler *)
(* is therefore a set of tasks, one per lock, worked off one statement     *)
(* that lasts at a time.  Only smbstatus is awaited.                       *)
(*                                                                         *)
(* Locks are projected as byte ranges, the default.  The marker files are  *)
(* left out but for their outcome, which is the last word on a new lock.   *)
(***************************************************************************)
EXTENDS Integers, Sequences

CONSTANTS
    Paths, Machines,
    NoMachine, NoLock, NoTask, NoStatus, StatusFailed,
    MaxEvents,   \* events the audit feed holds; it drops the rest
    MaxOpens, MaxOperator, MaxRefusals, MaxOutages, MaxCrashes

Budgets == {"open", "operator", "refusal", "outage", "crash"}

VARIABLES
    opened,    \* [Machines -> paths each has open for writing]
    bit,       \* [Paths -> who took the server file's write bit away]
    mounted,   \* whether the share's mount point is a mount
    lock,      \* [Paths -> the active row or NoLock]          (durable)
    owed,      \* [Paths -> released rows still claiming the bit]  (durable)
    held,      \* paths whose lock has a running holder
    up,        \* whether the bridge runs
    todo,      \* tasks the running handler still has
    task, step,  \* the task it is at and the statement that comes next
    events,    \* what the audit feed has not delivered yet
    status,    \* what smbstatus said, until the tick has used it
    untold,    \* history: files a kill left without a record of the bit
    spent      \* [Budgets -> Nat]

handler == <<todo, task, step>>
feeds == <<events, status>>
vars == <<opened, bit, mounted, lock, owed, held, up, handler, feeds,
          untold, spent>>

Owners == Machines \cup {NoMachine}
LockRows == [origin : {"machine", "manual", "schedule"}, owner : Owners,
          ok : BOOLEAN, ro : BOOLEAN, stale : BOOLEAN]
Ops == {"acquire", "retake", "finish", "expire", "sweep"}
Steps == {"project", "guard", "record", "mark", "give", "forget"}
Tasks == [op : Ops, path : Paths, nth : Nat,
          origin : {"machine", "manual", "schedule"}, owner : Owners]
Events == [op : {"open", "close"}, machine : Machines, path : Paths]

ASSUME LockAssumption ==
    NoMachine \notin Machines /\ NoLock \notin LockRows /\ NoTask \notin Tasks

TypeOK ==
    /\ opened \in [Machines -> SUBSET Paths]
    /\ bit \in [Paths -> {"free", "ours", "theirs"}]
    /\ lock \in [Paths -> LockRows \cup {NoLock}]
    /\ owed \in [Paths -> Nat]
    /\ held \subseteq Paths /\ untold \subseteq Paths
    /\ mounted \in BOOLEAN /\ up \in BOOLEAN
    /\ todo \subseteq Tasks
    /\ \/ task = NoTask /\ step = "none"
       \/ task \in Tasks /\ step \in Steps
    /\ events \in Seq(Events)
    /\ status \in [Paths -> SUBSET Machines] \cup {NoStatus, StatusFailed}
    /\ spent \in [Budgets -> Nat]

Init ==
    /\ opened = [m \in Machines |-> {}]
    /\ bit \in [Paths -> {"free", "theirs"}]
    /\ mounted = FALSE /\ up = TRUE
    /\ lock = [p \in Paths |-> NoLock] /\ owed = [p \in Paths |-> 0]
    /\ held = {} /\ todo = {} /\ task = NoTask /\ step = "none"
    /\ events = <<>> /\ status = NoStatus
    /\ untold = {}
    /\ spent = [b \in Budgets |-> 0]

Bound == [open |-> MaxOpens, operator |-> MaxOperator,
          refusal |-> MaxRefusals, outage |-> MaxOutages, crash |-> MaxCrashes]
Spend(b) == spent[b] < Bound[b] /\ spent' = [spent EXCEPT ![b] = @ + 1]

Active == {p \in Paths : lock[p] # NoLock}
Claimed(p) == owed[p] > 0 \/ (p \in Active /\ lock[p].ro)
Free == up /\ todo = {} /\ task = NoTask

Task(op, p) == [op |-> op, path |-> p, nth |-> 1, origin |-> "manual",
                owner |-> NoMachine]
Acquiring(origin, owner, p) ==
    [Task("acquire", p) EXCEPT !.origin = origin, !.owner = owner]

-----------------------------------------------------------------------------
(* What a handler does for one lock, statement by statement. *)

\* restoreServerLocks precedes the sweep; reconcile acquires, then releases,
\* and only then are the stale ones expired.
Phase == [retake |-> 1, acquire |-> 1, finish |-> 2, expire |-> 3, sweep |-> 4]
Precedes(t, u) ==
    Phase[t.op] <= Phase[u.op] /\ (t.path = u.path => u.nth <= t.nth)

PickUp(t) ==
    /\ task = NoTask /\ t \in todo
    /\ \A u \in todo : Precedes(t, u)
    /\ todo' = todo \ {t}
Goto(s) == step' = s /\ UNCHANGED <<todo, task>>
Done == task' = NoTask /\ step' = "none" /\ UNCHANGED todo
At(s) == task # NoTask /\ step = s

(* acquire: the row is what makes the lock; nothing is projected yet.      *)
InsertRow(t) ==
    /\ t.op = "acquire" /\ PickUp(t)
    /\ lock' = [lock EXCEPT ![t.path] =
                  [origin |-> t.origin, owner |-> t.owner, ok |-> FALSE,
                   ro |-> FALSE, stale |-> FALSE]]
    /\ task' = t /\ step' = "project"
    /\ UNCHANGED <<opened, bit, mounted, owed, held, up, feeds, untold, spent>>

(* restoreServerLocks and sweepReadOnlyLeftovers turn to the next row.     *)
TurnTo(t) ==
    /\ t.op \in {"retake", "sweep"} /\ PickUp(t)
    /\ task' = t /\ step' = IF t.op = "retake" THEN "project" ELSE "give"
    /\ UNCHANGED <<opened, bit, mounted, lock, owed, held, up, feeds, untold,
                   spent>>

(* Mutant: the released row no longer says that it took the bit. *)
ReleaseRowUnclaimed(t) ==
    /\ t.op \in {"finish", "expire"} /\ PickUp(t)
    /\ lock' = [lock EXCEPT ![t.path] = NoLock]
    /\ held' = held \ {t.path}
    /\ IF lock[t.path].ro
         THEN task' = t /\ step' = "give"
         ELSE UNCHANGED <<task, step>>
    /\ UNCHANGED <<opened, bit, mounted, owed, up, feeds, untold, spent>>

(* finish: the row is released and the holder with it; the write bit comes *)
(* after, for a row that claims it.                                        *)
ReleaseRow(t) ==
    /\ t.op \in {"finish", "expire"} /\ PickUp(t)
    /\ lock' = [lock EXCEPT ![t.path] = NoLock]
    /\ held' = held \ {t.path}
    /\ IF lock[t.path].ro
         THEN /\ owed' = [owed EXCEPT ![t.path] = @ + 1]
              /\ task' = t /\ step' = "give"
         ELSE UNCHANGED <<owed, task, step>>
    /\ UNCHANGED <<opened, bit, mounted, up, feeds, untold, spent>>

(* The byte-range lock.  Without a mount, or when the holder will not      *)
(* start, the row says so and nothing more is tried.                       *)
Project ==
    /\ At("project")
    /\ LET p == task.path IN
       \/ /\ \/ ~mounted /\ UNCHANGED spent
             \/ mounted /\ Spend("refusal")
          /\ lock' = [lock EXCEPT ![p].ok = FALSE]
          /\ Done /\ UNCHANGED held
       \/ /\ mounted
          /\ held' = held \cup {p}
          /\ lock' = [lock EXCEPT ![p].ok = (task.op = "retake")]
          /\ Goto("guard") /\ UNCHANGED spent
    /\ UNCHANGED <<opened, bit, mounted, owed, up, feeds, untold>>

AfterGuard == IF task.op = "retake" THEN Done ELSE Goto("mark")

(* Mutant: a file that is read-only already is claimed all the same. *)
TakeAnyway ==
    /\ At("guard")
    /\ \/ /\ bit' = [bit EXCEPT ![task.path] = IF @ = "free" THEN "ours" ELSE @]
          /\ Goto("record") /\ UNCHANGED spent
       \/ Spend("refusal") /\ AfterGuard /\ UNCHANGED bit
    /\ UNCHANGED <<opened, mounted, lock, owed, held, up, feeds, untold>>

(* applyReadOnly: a file that is read-only already is left alone. *)
TakeWritePermission ==
    /\ At("guard")
    /\ \/ /\ bit[task.path] = "free"
          /\ bit' = [bit EXCEPT ![task.path] = "ours"]
          /\ Goto("record") /\ UNCHANGED spent
       \/ /\ \/ bit[task.path] # "free" /\ UNCHANGED spent
             \/ Spend("refusal")
          /\ AfterGuard /\ UNCHANGED bit
    /\ UNCHANGED <<opened, mounted, lock, owed, held, up, feeds, untold>>

RecordIt ==
    /\ At("record")
    /\ lock' = [lock EXCEPT ![task.path].ro = TRUE]
    /\ AfterGuard
    /\ UNCHANGED <<opened, bit, mounted, owed, held, up, feeds, untold, spent>>

(* The marker beside the file decides whether the lock counts as projected. *)
Mark ==
    /\ At("mark")
    /\ \/ lock' = [lock EXCEPT ![task.path].ok = TRUE] /\ UNCHANGED spent
       \/ lock' = [lock EXCEPT ![task.path].ok = FALSE] /\ Spend("refusal")
    /\ Done
    /\ UNCHANGED <<opened, bit, mounted, owed, held, up, feeds, untold>>

(* Mutant: the row forgets its claim when nothing could be given back. *)
GiveBackOrForget ==
    /\ At("give")
    /\ \/ /\ \/ ~mounted /\ UNCHANGED spent
             \/ mounted /\ Spend("refusal")
          /\ UNCHANGED <<bit, untold>>
       \/ /\ mounted
          /\ bit' = [bit EXCEPT ![task.path] = "free"]
          /\ untold' = untold \ {task.path}
          /\ UNCHANGED spent
    /\ Goto("forget")
    /\ UNCHANGED <<opened, mounted, lock, owed, held, up, feeds>>

(* giveWritePermissionBack: not over a mount that is not there. *)
GiveBack ==
    /\ At("give")
    /\ \/ /\ \/ ~mounted /\ UNCHANGED spent
             \/ mounted /\ Spend("refusal")
          /\ Done /\ UNCHANGED <<bit, untold>>
       \/ /\ mounted
          /\ bit' = [bit EXCEPT ![task.path] = "free"]
          /\ untold' = untold \ {task.path}
          /\ Goto("forget") /\ UNCHANGED spent
    /\ UNCHANGED <<opened, mounted, lock, owed, held, up, feeds>>

Forget ==
    /\ At("forget")
    /\ owed' = [owed EXCEPT ![task.path] = @ - 1]
    /\ Done
    /\ UNCHANGED <<opened, bit, mounted, lock, held, up, feeds, untold, spent>>

Handle ==
    \/ \E t \in todo : InsertRow(t) \/ TurnTo(t) \/ ReleaseRow(t)
    \/ Project \/ TakeWritePermission \/ RecordIt \/ Mark
    \/ GiveBack \/ Forget

-----------------------------------------------------------------------------
(* Who asks for locks. *)

HandlerOnly == UNCHANGED <<opened, bit, mounted, lock, owed, held, up, task,
                           step, untold>>

(* MachineLockSource.handleEvent; a deletion or a rename is a close too. *)
Asked(e) ==
    IF e.op = "open"
      THEN {Acquiring("machine", e.machine, e.path) : p \in {e.path} \ Active}
      ELSE {Task("finish", p) : p \in {q \in Active \cap {e.path} :
              lock[q].origin = "machine"
                /\ lock[q].owner \in {e.machine, NoMachine}}}
HandleEvent ==
    /\ Free /\ events # <<>>
    /\ todo' = Asked(Head(events))
    /\ events' = Tail(events)
    /\ HandlerOnly /\ UNCHANGED <<status, spent>>

(* The tick asks Samba who has what open; the answer is used later. *)
AskStatus ==
    /\ Free /\ status = NoStatus
    /\ \/ status' = [p \in Paths |-> {m \in Machines : p \in opened[m]}]
          /\ UNCHANGED spent
       \/ status' = StatusFailed /\ Spend("refusal")
    /\ HandlerOnly /\ UNCHANGED <<todo, events>>

(* reconcile, when there is an answer, then expireStale.  The owner of a   *)
(* lock found this way is a machine that has the file open, or unknown.    *)
OpenInStatus == {p \in Paths : status[p] # {}}
(* Mutants: reconciliation only releases, or only acquires. *)
MissingNothing(owner) == {}
Missing(owner) == {Acquiring("machine", owner[p], p) : p \in OpenInStatus \ Active}
SurplusNone == {}
Surplus == {p \in Active \ OpenInStatus : lock[p].origin = "machine"}
Stale == {p \in Active : lock[p].stale}
Tick ==
    /\ Free /\ status # NoStatus
    /\ \/ /\ status = StatusFailed
          /\ todo' = {Task("expire", p) : p \in Stale}
       \/ /\ status # StatusFailed
          /\ \E owner \in [Paths -> Owners] :
               /\ \A p \in Paths : owner[p] \in status[p] \cup {NoMachine}
               /\ todo' = Missing(owner) \cup {Task("finish", p) : p \in Surplus}
                            \cup {Task("expire", p) : p \in Stale \ Surplus}
    /\ status' = NoStatus
    /\ HandlerOnly /\ UNCHANGED <<events, spent>>

(* Operators, over the API and through the schedule.  A lock window locks  *)
(* what its pattern matches of the paths without a lock.                   *)
Operator ==
    /\ Free /\ Spend("operator")
    /\ \/ \E p \in Paths \ Active : todo' = {Acquiring("manual", NoMachine, p)}
       \/ \E p \in Active : todo' = {Task("finish", p)}
       \/ \E match \in SUBSET Paths :
            todo' = {Acquiring("schedule", NoMachine, p) : p \in match \ Active}
       \/ todo' = {Task("finish", p) :
                     p \in {q \in Active : lock[q].origin = "schedule"}}
    /\ HandlerOnly /\ UNCHANGED feeds

-----------------------------------------------------------------------------
(* The rest of the world. *)

(* A machine opens or closes a file for writing.  The audit feed may lose  *)
(* any event, and hears nothing while the bridge is down.                  *)
Audit(op, m, p) ==
    \/ /\ up /\ Len(events) < MaxEvents
       /\ events' = Append(events, [op |-> op, machine |-> m, path |-> p])
    \/ UNCHANGED events
OpenFile(m, p) ==
    /\ p \notin opened[m] /\ Spend("open")
    /\ opened' = [opened EXCEPT ![m] = @ \cup {p}]
    /\ Audit("open", m, p)
    /\ UNCHANGED <<bit, mounted, lock, owed, held, up, handler, status, untold>>
CloseFile(m, p) ==
    /\ p \in opened[m]
    /\ opened' = [opened EXCEPT ![m] = @ \ {p}]
    /\ Audit("close", m, p)
    /\ UNCHANGED <<bit, mounted, lock, owed, held, up, handler, status, untold,
                   spent>>

TimePasses(p) ==
    /\ p \in Active /\ ~lock[p].stale
    /\ lock' = [lock EXCEPT ![p].stale = TRUE]
    /\ UNCHANGED <<opened, bit, mounted, owed, held, up, handler, feeds, untold,
                   spent>>

(* Mutant: the loss of a holder is not written to the row. *)
HolderLostSilently(p) ==
    /\ Free /\ p \in held /\ Spend("outage")
    /\ held' = held \ {p}
    /\ UNCHANGED <<opened, bit, mounted, lock, owed, up, handler, feeds, untold>>

(* The exit of a holder the bridge did not release. *)
HolderLost(p) ==
    /\ Free /\ p \in held /\ Spend("outage")
    /\ held' = held \ {p}
    /\ lock' = [lock EXCEPT ![p].ok = FALSE]
    /\ UNCHANGED <<opened, bit, mounted, owed, up, handler, feeds, untold>>

MountLost ==
    /\ mounted /\ mounted' = FALSE /\ Spend("outage")
    /\ UNCHANGED <<opened, bit, lock, owed, held, up, handler, feeds, untold>>
MountBack ==
    /\ Free /\ ~mounted /\ mounted' = TRUE
    /\ UNCHANGED <<opened, bit, lock, owed, held, up, handler, feeds, untold,
                   spent>>

(* Someone on the server changes a file's write bit: never one whose bit a *)
(* row claims or is about to.                                              *)
ServerChmod(p) ==
    /\ ~Claimed(p) /\ ~(At("record") /\ task.path = p) /\ Spend("operator")
    /\ bit' = [bit EXCEPT ![p] = IF @ = "free" THEN "theirs" ELSE "free"]
    /\ untold' = untold \ {p}
    /\ UNCHANGED <<opened, mounted, lock, owed, held, up, handler, feeds>>

Gone == /\ up' = FALSE /\ held' = {} /\ events' = <<>> /\ status' = NoStatus
        /\ todo' = {} /\ task' = NoTask /\ step' = "none"
Crash ==
    /\ up /\ Spend("crash") /\ Gone
    /\ untold' = untold \cup (IF At("record") THEN {task.path} ELSE {})
    /\ UNCHANGED <<opened, bit, mounted, lock, owed>>
(* A clean stop closes the holders, keeps the rows, and unmounts. *)
Stop ==
    /\ Free /\ Spend("crash") /\ Gone
    /\ mounted' = FALSE
    /\ UNCHANGED <<opened, bit, lock, owed, untold>>
Sweeps(p) == {[Task("sweep", p) EXCEPT !.nth = n] : n \in 1..owed[p]}
(* The shares are being mounted again, without this waiting for them. *)
Start ==
    /\ ~up /\ up' = TRUE
    /\ todo' = {Task("retake", p) : p \in Active}
                 \cup UNION {Sweeps(p) : p \in Paths}
    /\ UNCHANGED <<opened, bit, mounted, lock, owed, held, task, step, feeds,
                   untold, spent>>

Next ==
    \/ Handle
    \/ HandleEvent \/ AskStatus \/ Tick \/ Operator
    \/ \E m \in Machines, p \in Paths : OpenFile(m, p) \/ CloseFile(m, p)
    \/ \E p \in Paths : TimePasses(p) \/ HolderLost(p) \/ ServerChmod(p)
    \/ MountLost \/ MountBack \/ Crash \/ Stop \/ Start

Spec == Init /\ [][Next]_vars
FairSpec == Spec /\ WF_vars(Handle) /\ WF_vars(HandleEvent)
                 /\ WF_vars(AskStatus) /\ WF_vars(Tick) /\ WF_vars(Start)

-----------------------------------------------------------------------------
(* What the locks promise. *)

Retaking(p) ==
    \/ \E t \in todo : t.op = "retake" /\ t.path = p
    \/ task # NoTask /\ task.op = "retake" /\ task.path = p

(* What the table says of the server is so: a lock shown as enforced has a *)
(* running holder, and a holder runs for no file but a locked one; between *)
(* a start and the end of restoreServerLocks a row may still speak of the  *)
(* run before (lock-manager.ts, recordProjectionLoss and                   *)
(* restoreServerLocks; byte-range.ts on orphaned holders).                 *)
OkIsEnforced ==
    up => /\ held \subseteq Active
          /\ \A p \in Active : lock[p].ok /\ ~Retaking(p) => p \in held

(* A file the bridge made read-only is one that some row will lead back to,*)
(* through outages, refusals, kills and restarts; the only exception is a  *)
(* kill between the chmod and its record (read-only-guard.ts, "The failure *)
(* that matters").                                                         *)
TakenIsOnRecord ==
    \A p \in Paths : bit[p] = "ours" =>
        \/ Claimed(p) \/ p \in untold
        \/ At("record") /\ task.path = p

(* The bridge never makes writable a file that somebody else protected,    *)
(* though it knows only a flag on a row (read-only-guard.ts, "an operator  *)
(* who protected a file deliberately keeps their protection").             *)
NotOursStaysTheirs ==
    [][\A p \in Paths : bit[p] = "theirs" =>
         bit'[p] = "theirs" \/ spent'["operator"] > spent["operator"]]_vars

(* However many events are lost, a file open on a machine gets a lock, and *)
(* a machine's lock on a file nobody has open any more goes away: what     *)
(* reconciliation is for (machine-lock-source.ts, "repairs whatever the    *)
(* event stream missed").                                                  *)
IsOpen(p) == \E m \in Machines : p \in opened[m]
HasMachineLock(p) == p \in Active /\ lock[p].origin = "machine"
OpenGetsLocked == \A p \in Paths : IsOpen(p) ~> (p \in Active \/ ~IsOpen(p))
ClosedGetsUnlocked ==
    \A p \in Paths :
      (HasMachineLock(p) /\ ~IsOpen(p)) ~> (~HasMachineLock(p) \/ IsOpen(p))
LocksFollowPrograms == OpenGetsLocked /\ ClosedGetsUnlocked
=============================================================================
