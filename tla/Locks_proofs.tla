---------------------------- MODULE Locks_proofs ----------------------------
(***************************************************************************)
(* Proofs about Locks, for any paths, machines and bounds: its types, that *)
(* the table tells the truth about the holders, that every bit the bridge  *)
(* took is on record, and that it undoes nobody else's.                    *)
(*                                                                         *)
(* The inductive invariant adds what a handler may rely on while it works: *)
(* its tasks are of one kind, name a path once, and agree with the rows.   *)
(***************************************************************************)
EXTENDS Locks, SequenceTheorems, TLAPS

Restoring == {"retake", "sweep"}
Running == {"acquire", "finish", "expire"}
Projecting == {"project", "guard", "record", "mark"}
Giving == {"give", "forget"}

(* A handler either brings back what was there before the start, or serves *)
(* a request.                                                              *)
OneKind ==
    \/ /\ \A t \in todo : t.op \in Restoring
       /\ task # NoTask => task.op \in Restoring
    \/ /\ \A t \in todo : t.op \in Running
       /\ task # NoTask => task.op \in Running

(* The tasks left agree with the rows as they are.                         *)
TasksFit ==
    \A t \in todo :
      /\ t.op = "acquire" => t.path \notin Active
      /\ t.op \in {"retake", "finish", "expire"} => t.path \in Active
      /\ t.op # "sweep" => t.nth = 1
      /\ t.op = "sweep" => t.nth >= 1 /\ t.nth <= owed[t.path]
      /\ t.op = "sweep" /\ step \in Giving /\ t.path = task.path
           => t.nth < task.nth

(* No row is to be handled twice. *)
TasksDiffer ==
    \A t, u \in todo :
      /\ t.path = u.path /\ t.nth = u.nth
      /\ t.op = "sweep" <=> u.op = "sweep"
      => t = u

(* What the statement about to run may rely on.                            *)
StepFits ==
    /\ step \in Projecting =>
         task # NoTask /\ task.op \in {"acquire", "retake"} /\ task.path \in Active
    /\ step \in {"guard", "record", "mark"} => task.path \in held
    /\ step = "record" => bit[task.path] = "ours"
    /\ step \in Giving =>
         /\ task # NoTask /\ task.op \in {"finish", "expire", "sweep"}
         /\ task.nth >= 1 /\ owed[task.path] >= task.nth
    /\ step = "forget" => bit[task.path] # "ours"

DownIsIdle == ~up => held = {} /\ todo = {} /\ task = NoTask /\ step = "none"

(* A row never claims a file somebody else protected. *)
ClaimsAreOurs == \A p \in Paths : Claimed(p) => bit[p] # "theirs"

IInv ==
    /\ TypeOK /\ OneKind /\ TasksFit /\ TasksDiffer /\ StepFits /\ DownIsIdle
    /\ OkIsEnforced /\ TakenIsOnRecord /\ ClaimsAreOurs

-----------------------------------------------------------------------------
(* The tasks handlers are made of are tasks.                               *)
LEMMA TaskFields ==
    ASSUME NEW op \in Ops, NEW p \in Paths
    PROVE  /\ Task(op, p) \in Tasks
           /\ Task(op, p).op = op /\ Task(op, p).path = p /\ Task(op, p).nth = 1
BY DEF Task, Tasks, Ops, Owners

LEMMA AcquiringFields ==
    ASSUME NEW origin \in {"machine", "manual", "schedule"},
           NEW owner \in Owners, NEW p \in Paths
    PROVE  /\ Acquiring(origin, owner, p) \in Tasks
           /\ Acquiring(origin, owner, p).op = "acquire"
           /\ Acquiring(origin, owner, p).path = p
           /\ Acquiring(origin, owner, p).nth = 1
BY DEF Acquiring, Task, Tasks, Ops, Owners

LEMMA SweepFields ==
    ASSUME NEW p \in Paths, NEW n \in Nat
    PROVE  LET t == [Task("sweep", p) EXCEPT !.nth = n]
           IN  t \in Tasks /\ t.op = "sweep" /\ t.path = p /\ t.nth = n
BY DEF Task, Tasks, Ops, Owners

(* Budgets stay numbers. *)
LEMMA SpendType ==
    ASSUME TypeOK, NEW b \in Budgets, Spend(b)
    PROVE  /\ spent' \in [Budgets -> Nat]
           /\ spent'[b] > spent[b]
           /\ \A c \in Budgets : c # b => spent'[c] = spent[c]
BY DEF TypeOK, Spend

(* A field of an active row may change without moving any row. *)
LEMMA RowChange ==
    ASSUME TypeOK, NEW p \in Active,
           NEW row \in LockRows, lock' = [lock EXCEPT ![p] = row]
    PROVE  /\ lock' \in [Paths -> LockRows \cup {NoLock}]
           /\ Active' = Active
           /\ lock'[p] = row
           /\ \A q \in Paths : q # p => lock'[q] = lock[q]
BY LockAssumption DEF TypeOK, Active

(* What concerns only the world outside leaves the invariant alone.        *)
LEMMA WorldStep ==
    ASSUME IInv, TypeOK', UNCHANGED <<bit, lock, owed, held, up, handler, untold>>
    PROVE  IInv'
BY DEF IInv, OneKind, TasksFit, TasksDiffer, StepFits, DownIsIdle, OkIsEnforced,
       TakenIsOnRecord, ClaimsAreOurs, handler, Active, Claimed, At, Retaking

(* A handler that is free may be given tasks that fit the rows.            *)
LEMMA NewTasks ==
    ASSUME IInv, Free, TypeOK', OneKind', TasksFit', TasksDiffer',
           \A t \in todo' : t.op # "retake",
           UNCHANGED <<bit, lock, owed, held, up, task, step, untold>>
    PROVE  IInv'
<1>1. task = NoTask /\ step = "none" /\ task' = NoTask /\ step' = "none"
  BY LockAssumption DEF IInv, TypeOK, Free
<1>2. StepFits' /\ DownIsIdle'
  BY <1>1 DEF IInv, StepFits, DownIsIdle, Free, Projecting, Giving
<1>3. OkIsEnforced'
  BY <1>1 DEF IInv, OkIsEnforced, Free, Retaking, Active
<1>4. TakenIsOnRecord' /\ ClaimsAreOurs'
  BY <1>1 DEF IInv, TakenIsOnRecord, ClaimsAreOurs, Claimed, Active, At
<1> QED
  BY <1>2, <1>3, <1>4 DEF IInv

-----------------------------------------------------------------------------
(* The world, and those who ask. *)

LEMMA InitInvariant == Init => IInv
<1> SUFFICES ASSUME Init PROVE IInv
  OBVIOUS
<1>1. events \in Seq(Events)
  BY EmptySeq DEF Init
<1>2. TypeOK
  BY <1>1 DEF Init, TypeOK
<1>3. todo = {} /\ task = NoTask /\ step = "none" /\ up /\ held = {} /\ Active = {}
  BY DEF Init, Active
<1>4. OneKind /\ TasksFit /\ TasksDiffer /\ StepFits /\ DownIsIdle
  BY <1>3 DEF OneKind, TasksFit, TasksDiffer, StepFits, DownIsIdle, Projecting, Giving
<1>5. OkIsEnforced /\ TakenIsOnRecord /\ ClaimsAreOurs
  BY <1>3 DEF Init, OkIsEnforced, TakenIsOnRecord, ClaimsAreOurs, Claimed
<1> QED
  BY <1>2, <1>4, <1>5 DEF IInv

LEMMA MachineStep ==
    ASSUME IInv, NEW m \in Machines, NEW p \in Paths,
           OpenFile(m, p) \/ CloseFile(m, p)
    PROVE  IInv'
<1>1. TypeOK
  BY DEF IInv
<1>2. ASSUME NEW op \in {"open", "close"}, Audit(op, m, p)
      PROVE  events' \in Seq(Events)
  <2>1. [op |-> op, machine |-> m, path |-> p] \in Events
    BY DEF Events
  <2>2. events \in Seq(Events)
    BY <1>1 DEF TypeOK
  <2>3. Append(events, [op |-> op, machine |-> m, path |-> p]) \in Seq(Events)
    BY <2>1, <2>2, AppendProperties
  <2> QED
    BY <1>2, <2>2, <2>3 DEF Audit
<1>3. events' \in Seq(Events)
  BY <1>2 DEF OpenFile, CloseFile
<1>4. opened' \in [Machines -> SUBSET Paths]
  <2>1. opened \in [Machines -> SUBSET Paths]
    BY <1>1 DEF TypeOK
  <2>2. CASE OpenFile(m, p)
    BY <2>1, <2>2 DEF OpenFile
  <2>3. CASE CloseFile(m, p)
    BY <2>1, <2>3 DEF CloseFile
  <2> QED
    BY <2>2, <2>3
<1>5. spent' \in [Budgets -> Nat]
  <2>1. CASE OpenFile(m, p)
    BY <1>1, <2>1, SpendType DEF OpenFile, Budgets
  <2>2. CASE CloseFile(m, p)
    BY <1>1, <2>2 DEF CloseFile, TypeOK
  <2> QED
    BY <2>1, <2>2
<1>6. UNCHANGED <<bit, mounted, lock, owed, held, up, handler, status, untold>>
  BY DEF OpenFile, CloseFile
<1>7. TypeOK'
  BY <1>1, <1>3, <1>4, <1>5, <1>6 DEF TypeOK, handler
<1> QED
  BY <1>6, <1>7, WorldStep DEF handler

LEMMA MountStep == ASSUME IInv, MountLost \/ MountBack PROVE IInv'
<1>1. TypeOK
  BY DEF IInv
<1>2. spent' \in [Budgets -> Nat]
  <2>1. CASE MountLost
    BY <1>1, <2>1, SpendType DEF MountLost, Budgets
  <2>2. CASE MountBack
    BY <1>1, <2>2 DEF MountBack, TypeOK
  <2> QED
    BY <2>1, <2>2
<1>3. /\ mounted' \in BOOLEAN
      /\ UNCHANGED <<opened, bit, lock, owed, held, up, handler, feeds, untold>>
  BY DEF MountLost, MountBack
<1>4. TypeOK'
  BY <1>1, <1>2, <1>3 DEF TypeOK, handler, feeds
<1> QED
  BY <1>3, <1>4, WorldStep DEF handler

LEMMA StatusStep == ASSUME IInv, AskStatus PROVE IInv'
<1>1. TypeOK
  BY DEF IInv
<1>2. spent' \in [Budgets -> Nat]
  BY <1>1, SpendType DEF AskStatus, Budgets, TypeOK
<1>3. status' \in [Paths -> SUBSET Machines] \cup {NoStatus, StatusFailed}
  BY DEF AskStatus
<1>4. UNCHANGED <<opened, bit, mounted, lock, owed, held, up, todo, task, step,
                  events, untold>>
  BY DEF AskStatus, HandlerOnly
<1>5. TypeOK'
  BY <1>1, <1>2, <1>3, <1>4 DEF TypeOK
<1> QED
  BY <1>4, <1>5, WorldStep DEF handler

(* What makes a set of tasks fit: acquisitions of paths without a lock,    *)
(* one each, and releases.                                                 *)
LEMMA FittingTasks ==
    ASSUME IInv, Free, UNCHANGED <<lock, owed, task, step>>,
           todo' \subseteq Tasks,
           \A t \in todo' : t.op \in Running /\ t.nth = 1,
           \A t \in todo' : t.op = "acquire" <=> t.path \notin Active,
           \A t, u \in todo' : t.path = u.path => t = u
    PROVE  OneKind' /\ TasksFit' /\ TasksDiffer'
BY LockAssumption DEF Free, OneKind, TasksFit, TasksDiffer, Running, Active

LEMMA EventStep == ASSUME IInv, HandleEvent PROVE IInv'
<1> DEFINE e == Head(events)
<1>1. TypeOK /\ Free
  BY DEF IInv, HandleEvent
<1>2. /\ e \in Events /\ e.path \in Paths /\ e.machine \in Machines
      /\ Tail(events) \in Seq(Events)
  <2>1. events \in Seq(Events) /\ events # <<>>
    BY <1>1 DEF TypeOK, HandleEvent
  <2>2. e \in Events /\ Tail(events) \in Seq(Events)
    BY <2>1, HeadTailProperties
  <2> QED
    BY <2>2 DEF Events
<1>3. /\ todo' = Asked(e) /\ events' = Tail(events)
      /\ UNCHANGED <<opened, bit, mounted, lock, owed, held, up, task, step,
                     status, untold, spent>>
  BY DEF HandleEvent, HandlerOnly
<1> HIDE DEF e
<1>4. e.machine \in Owners
  BY <1>2 DEF Owners
<1>5. ASSUME NEW t \in todo'
      PROVE  \/ /\ t = Acquiring("machine", e.machine, e.path)
                /\ e.path \notin Active /\ e.op = "open"
             \/ /\ t = Task("finish", e.path)
                /\ e.path \in Active /\ e.op # "open"
  BY <1>3, <1>5 DEF Asked
<1>6. ASSUME NEW t \in todo'
      PROVE  /\ t \in Tasks /\ t.op \in Running /\ t.nth = 1 /\ t.path = e.path
             /\ t.op = "acquire" <=> e.path \notin Active
  BY <1>2, <1>4, <1>5, TaskFields, AcquiringFields DEF Ops, Running
<1>7. \A t, u \in todo' : t = u
  BY <1>5
<1>8. OneKind' /\ TasksFit' /\ TasksDiffer'
  BY <1>1, <1>3, <1>6, <1>7, FittingTasks
<1>9. TypeOK'
  BY <1>1, <1>2, <1>3, <1>6 DEF TypeOK
<1> QED
  BY <1>1, <1>3, <1>6, <1>8, <1>9, NewTasks DEF Running

LEMMA TickStep == ASSUME IInv, Tick PROVE IInv'
<1> DEFINE Way(t, owner, released) ==
             \/ \E p \in Paths \ Active : t = Acquiring("machine", owner[p], p)
             \/ \E p \in Active \cap released : t = Task("finish", p)
             \/ \E p \in Active \ released : t = Task("expire", p)
<1>1. TypeOK /\ Free
  BY DEF IInv, Tick
<1>2. /\ status' = NoStatus
      /\ UNCHANGED <<opened, bit, mounted, lock, owed, held, up, task, step,
                     events, untold, spent>>
  BY DEF Tick, HandlerOnly
<1>3. PICK owner \in [Paths -> Owners], released \in SUBSET Paths :
        \A t \in todo' : Way(t, owner, released)
  <2>1. CASE todo' = {Task("expire", p) : p \in Stale}
    <3>1. [p \in Paths |-> NoMachine] \in [Paths -> Owners] /\ {} \in SUBSET Paths
      BY DEF Owners
    <3>2. \A t \in todo' : Way(t, [p \in Paths |-> NoMachine], {})
      BY <2>1 DEF Stale, Active
    <3> QED
      BY <3>1, <3>2
  <2>2. ASSUME NEW owner \in [Paths -> Owners],
               todo' = Missing(owner) \cup {Task("finish", p) : p \in Surplus}
                         \cup {Task("expire", p) : p \in Stale \ Surplus}
        PROVE  \A t \in todo' : Way(t, owner, Surplus)
    BY <2>2 DEF Missing, Surplus, Stale, Active, OpenInStatus
  <2>3. Surplus \in SUBSET Paths
    BY DEF Surplus, Active
  <2> HIDE DEF Way
  <2> QED
    BY <2>1, <2>2, <2>3 DEF Tick
<1>4. ASSUME NEW p \in Paths
      PROVE  /\ owner[p] \in Owners
             /\ Acquiring("machine", owner[p], p) \in Tasks
             /\ Acquiring("machine", owner[p], p).op = "acquire"
             /\ Acquiring("machine", owner[p], p).path = p
             /\ Acquiring("machine", owner[p], p).nth = 1
  <2>1. owner[p] \in Owners
    BY <1>3
  <2> QED
    BY <2>1, AcquiringFields
<1>5. ASSUME NEW t \in todo'
      PROVE  /\ t \in Tasks /\ t.op \in Running /\ t.nth = 1
             /\ t.op = "acquire" <=> t.path \notin Active
             /\ t = IF t.path \notin Active
                      THEN Acquiring("machine", owner[t.path], t.path)
                      ELSE IF t.path \in released THEN Task("finish", t.path)
                                                  ELSE Task("expire", t.path)
  <2>1. CASE \E p \in Paths \ Active : t = Acquiring("machine", owner[p], p)
    BY <1>4, <2>1 DEF Running
  <2>2. CASE \E p \in Active \cap released : t = Task("finish", p)
    BY <2>2, TaskFields DEF Ops, Running, Active
  <2>3. CASE \E p \in Active \ released : t = Task("expire", p)
    BY <2>3, TaskFields DEF Ops, Running, Active
  <2> QED
    BY <1>3, <2>1, <2>2, <2>3
<1>6. \A t, u \in todo' : t.path = u.path => t = u
  BY <1>5
<1>7. OneKind' /\ TasksFit' /\ TasksDiffer'
  BY <1>1, <1>2, <1>5, <1>6, FittingTasks
<1>8. TypeOK'
  BY <1>1, <1>2, <1>5 DEF TypeOK
<1> QED
  BY <1>1, <1>2, <1>5, <1>7, <1>8, NewTasks DEF Running

LEMMA OperatorStep == ASSUME IInv, Operator PROVE IInv'
<1>1. TypeOK /\ Free
  BY DEF IInv, Operator
<1>2. UNCHANGED <<opened, bit, mounted, lock, owed, held, up, task, step,
                  events, status, untold>>
  BY DEF Operator, HandlerOnly, feeds
<1>3. spent' \in [Budgets -> Nat]
  BY <1>1, SpendType DEF Operator, Budgets
<1>4. PICK origin \in {"manual", "schedule"} :
        \A t \in todo' :
          \/ \E p \in Paths \ Active : t = Acquiring(origin, NoMachine, p)
          \/ \E p \in Active : t = Task("finish", p)
  BY DEF Operator
<1>5. ASSUME NEW p \in Paths
      PROVE  /\ Acquiring(origin, NoMachine, p) \in Tasks
             /\ Acquiring(origin, NoMachine, p).op = "acquire"
             /\ Acquiring(origin, NoMachine, p).path = p
             /\ Acquiring(origin, NoMachine, p).nth = 1
  BY AcquiringFields DEF Owners
<1>6. ASSUME NEW t \in todo'
      PROVE  /\ t \in Tasks /\ t.op \in Running /\ t.nth = 1
             /\ t.op = "acquire" <=> t.path \notin Active
             /\ t = IF t.path \notin Active THEN Acquiring(origin, NoMachine, t.path)
                                            ELSE Task("finish", t.path)
  <2>1. CASE \E p \in Paths \ Active : t = Acquiring(origin, NoMachine, p)
    BY <1>5, <2>1 DEF Running
  <2>2. CASE \E p \in Active : t = Task("finish", p)
    BY <2>2, TaskFields DEF Ops, Running, Active
  <2> QED
    BY <1>4, <2>1, <2>2
<1>7. OneKind' /\ TasksFit' /\ TasksDiffer'
  <2>1. \A t, u \in todo' : t.path = u.path => t = u
    BY <1>6
  <2> QED
    BY <1>1, <1>2, <1>6, <2>1, FittingTasks
<1>8. TypeOK'
  BY <1>1, <1>2, <1>3, <1>6 DEF TypeOK
<1> QED
  BY <1>1, <1>2, <1>6, <1>7, <1>8, NewTasks DEF Running

-----------------------------------------------------------------------------
(* What befalls the rows, the files and the process between handlers.      *)

LEMMA RowFields ==
    ASSUME TypeOK, NEW p \in Active, NEW v \in BOOLEAN
    PROVE  /\ p \in Paths /\ lock[p] \in LockRows
           /\ [lock[p] EXCEPT !.ok = v] \in LockRows
           /\ [lock[p] EXCEPT !.ok = v].ok = v
           /\ [lock[p] EXCEPT !.ok = v].ro = lock[p].ro
           /\ [lock[p] EXCEPT !.ro = v] \in LockRows
           /\ [lock[p] EXCEPT !.ro = v].ro = v
           /\ [lock[p] EXCEPT !.ro = v].ok = lock[p].ok
           /\ [lock[p] EXCEPT !.stale = v] \in LockRows
           /\ [lock[p] EXCEPT !.stale = v].ok = lock[p].ok
           /\ [lock[p] EXCEPT !.stale = v].ro = lock[p].ro
<1>1. p \in Paths /\ lock[p] \in LockRows
  BY DEF TypeOK, Active
<1> QED
  BY <1>1 DEF LockRows

LEMMA TimeStep ==
    ASSUME IInv, NEW p \in Paths, TimePasses(p)
    PROVE  IInv'
<1> DEFINE row == [lock[p] EXCEPT !.stale = TRUE]
<1>1. TypeOK /\ p \in Active
  BY DEF IInv, TimePasses
<1>2. row \in LockRows /\ row.ok = lock[p].ok /\ row.ro = lock[p].ro
  BY <1>1, RowFields
<1>3. /\ lock' = [lock EXCEPT ![p] = row]
      /\ UNCHANGED <<opened, bit, mounted, owed, held, up, todo, task, step,
                     events, status, untold, spent>>
  BY DEF TimePasses, handler, feeds
<1> HIDE DEF row
<1>4. /\ lock' \in [Paths -> LockRows \cup {NoLock}] /\ Active' = Active
      /\ lock'[p] = row /\ \A q \in Paths : q # p => lock'[q] = lock[q]
  BY <1>1, <1>2, <1>3, RowChange
<1>5. \A q \in Active : lock'[q].ok = lock[q].ok /\ lock'[q].ro = lock[q].ro
  BY <1>2, <1>4 DEF Active
<1>6. TypeOK'
  BY <1>1, <1>3, <1>4 DEF TypeOK
<1>7. OneKind' /\ TasksFit' /\ TasksDiffer' /\ StepFits' /\ DownIsIdle'
  BY <1>3, <1>4 DEF IInv, OneKind, TasksFit, TasksDiffer, StepFits, DownIsIdle
<1>8. OkIsEnforced'
  BY <1>3, <1>4, <1>5 DEF IInv, OkIsEnforced, Retaking
<1>9. \A q \in Paths : Claimed(q)' = Claimed(q)
  BY <1>3, <1>4, <1>5 DEF Claimed
<1>10. TakenIsOnRecord' /\ ClaimsAreOurs'
  BY <1>3, <1>9 DEF IInv, TakenIsOnRecord, ClaimsAreOurs, At
<1> QED
  BY <1>6, <1>7, <1>8, <1>10 DEF IInv

LEMMA HolderStep ==
    ASSUME IInv, NEW p \in Paths, HolderLost(p)
    PROVE  IInv'
<1> DEFINE row == [lock[p] EXCEPT !.ok = FALSE]
<1>1. TypeOK /\ Free /\ p \in Active
  BY DEF IInv, HolderLost, OkIsEnforced, Free
<1>2. row \in LockRows /\ row.ok = FALSE /\ row.ro = lock[p].ro
  BY <1>1, RowFields
<1>3. /\ lock' = [lock EXCEPT ![p] = row] /\ held' = held \ {p}
      /\ UNCHANGED <<opened, bit, mounted, owed, up, todo, task, step,
                     events, status, untold>>
  BY DEF HolderLost, handler, feeds
<1> HIDE DEF row
<1>4. /\ lock' \in [Paths -> LockRows \cup {NoLock}] /\ Active' = Active
      /\ lock'[p] = row /\ \A q \in Paths : q # p => lock'[q] = lock[q]
  BY <1>1, <1>2, <1>3, RowChange
<1>5. \A q \in Active : lock'[q].ro = lock[q].ro
  BY <1>2, <1>4 DEF Active
<1>6. spent' \in [Budgets -> Nat]
  BY <1>1, SpendType DEF HolderLost, Budgets
<1>7. TypeOK'
  BY <1>1, <1>3, <1>4, <1>6 DEF TypeOK
<1>8. OneKind' /\ TasksFit' /\ TasksDiffer' /\ DownIsIdle'
  BY <1>3, <1>4 DEF IInv, OneKind, TasksFit, TasksDiffer, DownIsIdle
<1>9. StepFits'
  BY <1>1, <1>3, LockAssumption
     DEF IInv, TypeOK, Free, StepFits, Projecting, Giving
<1>10. OkIsEnforced'
  BY <1>1, <1>2, <1>3, <1>4 DEF IInv, OkIsEnforced, Retaking, Free, Active
<1>11. \A q \in Paths : Claimed(q)' = Claimed(q)
  BY <1>3, <1>4, <1>5 DEF Claimed
<1>12. TakenIsOnRecord' /\ ClaimsAreOurs'
  BY <1>3, <1>11 DEF IInv, TakenIsOnRecord, ClaimsAreOurs, At
<1> QED
  BY <1>7, <1>8, <1>9, <1>10, <1>12 DEF IInv

LEMMA ChmodStep ==
    ASSUME IInv, NEW p \in Paths, ServerChmod(p)
    PROVE  IInv'
<1>1. TypeOK /\ ~Claimed(p) /\ ~(step = "record" /\ task.path = p)
  BY DEF IInv, ServerChmod, At, StepFits, Projecting
<1>2. /\ bit' = [bit EXCEPT ![p] = IF bit[p] = "free" THEN "theirs" ELSE "free"]
      /\ untold' = untold \ {p}
      /\ UNCHANGED <<opened, mounted, lock, owed, held, up, todo, task, step,
                     events, status>>
  BY DEF ServerChmod, handler, feeds
<1>3. /\ bit' \in [Paths -> {"free", "ours", "theirs"}] /\ bit'[p] # "ours"
      /\ \A q \in Paths : q # p => bit'[q] = bit[q]
  BY <1>1, <1>2 DEF TypeOK
<1>4. spent' \in [Budgets -> Nat]
  BY <1>1, SpendType DEF ServerChmod, Budgets
<1>5. TypeOK'
  BY <1>1, <1>2, <1>3, <1>4 DEF TypeOK
<1>6. Active' = Active /\ \A q \in Paths : Claimed(q)' = Claimed(q)
  BY <1>2 DEF Active, Claimed
<1>7. OneKind' /\ TasksFit' /\ TasksDiffer' /\ DownIsIdle' /\ OkIsEnforced'
  BY <1>2, <1>6
     DEF IInv, OneKind, TasksFit, TasksDiffer, DownIsIdle, OkIsEnforced, Retaking
<1>8. StepFits'
  <2>1. task # NoTask => task.path \in Paths
    BY <1>1 DEF TypeOK, Tasks
  <2> QED
    BY <1>1, <1>2, <1>3, <1>6, <2>1 DEF IInv, StepFits, Projecting, Giving
<1>9. TakenIsOnRecord' /\ ClaimsAreOurs'
  BY <1>1, <1>2, <1>3, <1>6 DEF IInv, TakenIsOnRecord, ClaimsAreOurs, At
<1> QED
  BY <1>5, <1>7, <1>8, <1>9 DEF IInv

LEMMA EndStep == ASSUME IInv, Crash \/ Stop PROVE IInv'
<1>1. TypeOK
  BY DEF IInv
<1>2. /\ ~up' /\ held' = {} /\ events' = <<>> /\ status' = NoStatus
      /\ todo' = {} /\ task' = NoTask /\ step' = "none"
      /\ UNCHANGED <<opened, bit, lock, owed>>
  BY DEF Crash, Stop, Gone
<1>3. /\ untold' \subseteq Paths /\ untold \subseteq untold'
      /\ \A p \in Paths : At("record") /\ task.path = p => p \in untold'
  <2>1. task # NoTask => task.path \in Paths
    BY <1>1 DEF TypeOK, Tasks
  <2>2. CASE Crash
    BY <1>1, <2>1, <2>2 DEF Crash, TypeOK, At
  <2>3. CASE Stop
    BY <1>1, <2>3 DEF Stop, TypeOK, At, Free
  <2> QED
    BY <2>2, <2>3
<1>4. spent' \in [Budgets -> Nat] /\ mounted' \in BOOLEAN /\ up' \in BOOLEAN
  BY <1>1, SpendType DEF Crash, Stop, Gone, Budgets, TypeOK
<1>5. events' \in Seq(Events)
  BY <1>2, EmptySeq
<1>6. TypeOK'
  BY <1>1, <1>2, <1>3, <1>4, <1>5 DEF TypeOK
<1>7. OneKind' /\ TasksFit' /\ TasksDiffer' /\ StepFits' /\ DownIsIdle' /\ OkIsEnforced'
  BY <1>2 DEF OneKind, TasksFit, TasksDiffer, StepFits, DownIsIdle, OkIsEnforced,
              Projecting, Giving
<1>8. \A p \in Paths : Claimed(p)' = Claimed(p)
  BY <1>2 DEF Claimed, Active
<1>9. TakenIsOnRecord' /\ ClaimsAreOurs'
  BY <1>2, <1>3, <1>8 DEF IInv, TakenIsOnRecord, ClaimsAreOurs
<1> QED
  BY <1>6, <1>7, <1>9 DEF IInv

LEMMA StartStep == ASSUME IInv, Start PROVE IInv'
<1>1. TypeOK /\ ~up /\ held = {} /\ task = NoTask /\ step = "none"
  BY DEF IInv, Start, DownIsIdle
<1>2. /\ up' = TRUE
      /\ UNCHANGED <<opened, bit, mounted, lock, owed, held, task, step, events,
                     status, untold, spent>>
  BY DEF Start, feeds
<1>3. ASSUME NEW t \in todo'
      PROVE  \/ \E p \in Active : t = Task("retake", p)
             \/ \E p \in Paths : \E n \in 1..owed[p] :
                  t = [Task("sweep", p) EXCEPT !.nth = n]
  BY <1>3 DEF Start, Sweeps
<1>4. ASSUME NEW t \in todo'
      PROVE  /\ t \in Tasks /\ t.op \in Restoring
             /\ t.op = "retake" => /\ t.path \in Active /\ t.nth = 1
                                   /\ t = Task("retake", t.path)
             /\ t.op = "sweep" =>
                  /\ t.nth >= 1 /\ t.nth <= owed[t.path] /\ t.path \in Paths
                  /\ t = [Task("sweep", t.path) EXCEPT !.nth = t.nth]
  <2>1. CASE \E p \in Active : t = Task("retake", p)
    BY <2>1, TaskFields DEF Ops, Restoring, Active
  <2>2. CASE \E p \in Paths : \E n \in 1..owed[p] :
               t = [Task("sweep", p) EXCEPT !.nth = n]
    <3>1. PICK p \in Paths : \E n \in 1..owed[p] :
               t = [Task("sweep", p) EXCEPT !.nth = n]
      BY <2>2
    <3>2. owed[p] \in Nat
      BY <1>1 DEF TypeOK
    <3>3. PICK n \in 1..owed[p] : t = [Task("sweep", p) EXCEPT !.nth = n]
      BY <3>1
    <3>4. n \in Nat /\ n >= 1 /\ n <= owed[p]
      BY <3>2, <3>3
    <3>5. t \in Tasks /\ t.op = "sweep" /\ t.path = p /\ t.nth = n
      BY <3>3, <3>4, SweepFields
    <3> QED
      BY <3>3, <3>4, <3>5 DEF Restoring
  <2> QED
    BY <1>3, <2>1, <2>2
<1>5. TypeOK'
  BY <1>1, <1>2, <1>4 DEF TypeOK
<1>6. Active' = Active /\ \A p \in Paths : Claimed(p)' = Claimed(p)
  BY <1>2 DEF Active, Claimed
<1>7. OneKind' /\ TasksFit'
  BY <1>1, <1>2, <1>4, <1>6 DEF OneKind, TasksFit, Restoring, Giving
<1>8. TasksDiffer'
  BY <1>4 DEF TasksDiffer, Restoring
<1>9. StepFits' /\ DownIsIdle'
  BY <1>1, <1>2 DEF StepFits, DownIsIdle, Projecting, Giving
<1>10. OkIsEnforced'
  <2>1. \A p \in Active : Task("retake", p) \in todo'
    BY DEF Start
  <2>2. \A p \in Active : Task("retake", p).op = "retake" /\ Task("retake", p).path = p
    BY TaskFields DEF Ops, Active
  <2> QED
    BY <1>1, <1>2, <1>6, <2>1, <2>2 DEF OkIsEnforced, Retaking
<1>11. TakenIsOnRecord' /\ ClaimsAreOurs'
  BY <1>1, <1>2, <1>6 DEF IInv, TakenIsOnRecord, ClaimsAreOurs, At
<1> QED
  BY <1>5, <1>7, <1>8, <1>9, <1>10, <1>11 DEF IInv

-----------------------------------------------------------------------------
(* The statements of a handler.                                            *)

(* What picking a task up says of it and of those left.                    *)
LEMMA Picked ==
    ASSUME IInv, NEW t \in todo, PickUp(t)
    PROVE  /\ t \in Tasks /\ t.path \in Paths /\ t # NoTask
           /\ task = NoTask /\ step = "none" /\ up
           /\ todo' \subseteq todo /\ todo' = todo \ {t}
           /\ \A u \in todo' : u.path = t.path /\ u.nth = t.nth =>
                ~(u.op = "sweep" <=> t.op = "sweep")
           /\ t.op \in Restoring => \A u \in todo : u.op \in Restoring
           /\ t.op \in Running => \A u \in todo : u.op \in Running
<1>1. TypeOK
  BY DEF IInv
<1>2. t \in Tasks /\ t.path \in Paths /\ t # NoTask
  BY <1>1, LockAssumption DEF TypeOK, Tasks
<1>3. task = NoTask /\ step = "none" /\ todo' = todo \ {t}
  BY <1>1, LockAssumption DEF PickUp, TypeOK
<1>4. up
  BY DEF IInv, DownIsIdle
<1>5. \A u \in todo' : u.path = t.path /\ u.nth = t.nth =>
        ~(u.op = "sweep" <=> t.op = "sweep")
  BY <1>3 DEF IInv, TasksDiffer
<1> QED
  BY <1>2, <1>3, <1>4, <1>5 DEF IInv, OneKind, Restoring, Running

LEMMA InsertStep ==
    ASSUME IInv, NEW t \in todo, InsertRow(t)
    PROVE  IInv'
<1> DEFINE p == t.path
           row == [origin |-> t.origin, owner |-> t.owner, ok |-> FALSE,
                   ro |-> FALSE, stale |-> FALSE]
<1>1. /\ t.op = "acquire" /\ PickUp(t)
      /\ lock' = [lock EXCEPT ![p] = row] /\ task' = t /\ step' = "project"
      /\ UNCHANGED <<opened, bit, mounted, owed, held, up, events, status,
                     untold, spent>>
  BY DEF InsertRow, feeds
<1>2. TypeOK /\ p \in Paths /\ p \notin Active
  BY <1>1, Picked DEF IInv, TasksFit
<1>3. row \in LockRows /\ row # NoLock /\ ~row.ok /\ ~row.ro
  <2>1. t \in Tasks
    BY DEF IInv, TypeOK
  <2>2. t.origin \in {"machine", "manual", "schedule"} /\ t.owner \in Owners
    BY <2>1 DEF Tasks
  <2>3. row \in LockRows
    BY <2>2 DEF LockRows
  <2>4. row # NoLock
    BY <2>3, LockAssumption
  <2> QED
    BY <2>3, <2>4
<1> HIDE DEF p, row
<1>4. /\ lock' \in [Paths -> LockRows \cup {NoLock}]
      /\ lock'[p] = row /\ \A q \in Paths : q # p => lock'[q] = lock[q]
  BY <1>1, <1>2, <1>3 DEF TypeOK
<1>5. Active' = Active \cup {p}
  BY <1>2, <1>3, <1>4 DEF Active
<1>6. /\ t \in Tasks /\ t # NoTask /\ task = NoTask /\ step = "none" /\ up
      /\ todo' \subseteq todo /\ \A u \in todo : u.op \in Running
      /\ t.path = p /\ t.nth = 1
      /\ \A u \in todo' : u.path = p /\ u.nth = 1 => u.op = "sweep"
  BY <1>1, Picked DEF Running, p, IInv, TasksFit
<1>7. TypeOK'
  BY <1>1, <1>2, <1>4, <1>6 DEF TypeOK, Steps
<1>8. OneKind' /\ TasksDiffer' /\ DownIsIdle'
  BY <1>1, <1>6 DEF IInv, OneKind, TasksDiffer, DownIsIdle, Running
<1>9. TasksFit'
  BY <1>1, <1>5, <1>6 DEF IInv, TasksFit, Running, Giving
<1>10. StepFits'
  BY <1>1, <1>5, <1>6 DEF StepFits, Projecting, Giving
<1>11. OkIsEnforced'
  BY <1>1, <1>3, <1>4, <1>5, <1>6 DEF IInv, OkIsEnforced, Retaking, Running, Active
<1>12. \A q \in Paths : Claimed(q)' = Claimed(q)
  BY <1>1, <1>2, <1>3, <1>4, <1>5 DEF Claimed
<1>13. TakenIsOnRecord' /\ ClaimsAreOurs'
  BY <1>1, <1>6, <1>12 DEF IInv, TakenIsOnRecord, ClaimsAreOurs, At
<1> QED
  BY <1>7, <1>8, <1>9, <1>10, <1>11, <1>13 DEF IInv

LEMMA TurnStep ==
    ASSUME IInv, NEW t \in todo, TurnTo(t)
    PROVE  IInv'
<1>1. /\ t.op \in Restoring /\ PickUp(t) /\ task' = t
      /\ step' = IF t.op = "retake" THEN "project" ELSE "give"
      /\ UNCHANGED <<opened, bit, mounted, lock, owed, held, up, events, status,
                     untold, spent>>
  BY DEF TurnTo, feeds, Restoring
<1>2. /\ t \in Tasks /\ t.path \in Paths /\ t # NoTask
      /\ task = NoTask /\ step = "none" /\ up
      /\ todo' = todo \ {t} /\ \A u \in todo : u.op \in Restoring
      /\ \A u \in todo' : u.path = t.path /\ u.nth = t.nth =>
           ~(u.op = "sweep" <=> t.op = "sweep")
  BY <1>1, Picked
<1>3. \A u \in todo : u \in Tasks /\ u.nth \in Nat /\ owed[u.path] \in Nat
  BY DEF IInv, TypeOK, Tasks
<1>4. TypeOK'
  BY <1>1, <1>2 DEF IInv, TypeOK, Steps
<1>5. OneKind' /\ TasksDiffer' /\ DownIsIdle'
  BY <1>1, <1>2 DEF IInv, OneKind, TasksDiffer, DownIsIdle
<1>6. Active' = Active /\ \A q \in Paths : Claimed(q)' = Claimed(q)
  BY <1>1 DEF Active, Claimed
<1>7. TasksFit'
  <2>1. ASSUME NEW u \in todo', u.op = "sweep", step' \in Giving, u.path = t.path
        PROVE  u.nth < t.nth
    <3>1. t.op = "sweep"
      BY <1>1, <2>1 DEF Giving, Restoring
    <3>2. u.nth <= t.nth /\ u.nth # t.nth
      BY <1>1, <1>2, <2>1, <3>1 DEF PickUp, Precedes
    <3>3. u \in todo
      BY <1>2
    <3> QED
      BY <1>3, <3>2, <3>3
  <2> QED
    BY <1>1, <1>2, <1>6, <2>1 DEF IInv, TasksFit
<1>8. StepFits'
  <2>1. t.op = "retake" => t.path \in Active
    BY DEF IInv, TasksFit
  <2>2. t.op = "sweep" => t.nth >= 1 /\ t.nth <= owed[t.path]
    BY DEF IInv, TasksFit
  <2> QED
    BY <1>1, <1>2, <1>3, <1>6, <2>1, <2>2 DEF StepFits, Projecting, Giving, Restoring
<1>9. OkIsEnforced'
  BY <1>1, <1>2, <1>6 DEF IInv, OkIsEnforced, Retaking
<1>10. TakenIsOnRecord' /\ ClaimsAreOurs'
  BY <1>1, <1>2, <1>6 DEF IInv, TakenIsOnRecord, ClaimsAreOurs, At
<1> QED
  BY <1>4, <1>5, <1>7, <1>8, <1>9, <1>10 DEF IInv

LEMMA ReleaseStep ==
    ASSUME IInv, NEW t \in todo, ReleaseRow(t)
    PROVE  IInv'
<1> DEFINE p == t.path
<1>1. /\ t.op \in {"finish", "expire"} /\ PickUp(t)
      /\ lock' = [lock EXCEPT ![p] = NoLock] /\ held' = held \ {p}
      /\ UNCHANGED <<opened, bit, mounted, up, events, status, untold, spent>>
      /\ IF lock[p].ro
           THEN owed' = [owed EXCEPT ![p] = @ + 1] /\ task' = t /\ step' = "give"
           ELSE UNCHANGED <<owed, task, step>>
  BY DEF ReleaseRow, feeds
<1>2. TypeOK /\ p \in Active /\ p \in Paths /\ t.nth = 1
  BY <1>1, Picked DEF IInv, TasksFit
<1>3. /\ t \in Tasks /\ t # NoTask /\ task = NoTask /\ step = "none" /\ up
      /\ todo' \subseteq todo /\ \A u \in todo : u.op \in Running
      /\ \A u \in todo' : u.path = p /\ u.nth = 1 => u.op = "sweep"
  BY <1>1, <1>2, Picked DEF Running
<1>4. \A u \in todo' : u.op \in {"finish", "expire"} /\ u.nth = 1 /\ u.path \in Active \ {p}
  <2>1. ASSUME NEW u \in todo' PROVE u.op # "acquire"
    BY <1>1, <1>3 DEF PickUp, Precedes, Phase
  <2> QED
    BY <1>3, <2>1 DEF IInv, TasksFit, Running
<1>5. lock[p] \in LockRows
  BY <1>2, RowFields
<1> HIDE DEF p
<1>6. /\ lock' \in [Paths -> LockRows \cup {NoLock}] /\ Active' = Active \ {p}
      /\ \A q \in Paths : q # p => lock'[q] = lock[q]
  BY <1>1, <1>2 DEF TypeOK, Active
<1>7. /\ owed' \in [Paths -> Nat]
      /\ \A q \in Paths : q # p => owed'[q] = owed[q]
      /\ lock[p].ro => owed'[p] = owed[p] + 1
      /\ ~lock[p].ro => owed'[p] = owed[p]
      /\ owed[p] \in Nat
  BY <1>1, <1>2 DEF TypeOK
<1>8. TypeOK'
  BY <1>1, <1>2, <1>3, <1>6, <1>7 DEF TypeOK, Steps
<1>9. OneKind' /\ TasksDiffer' /\ DownIsIdle'
  BY <1>1, <1>3, <1>4 DEF IInv, OneKind, TasksDiffer, DownIsIdle, Running
<1>10. TasksFit'
  BY <1>4, <1>6 DEF TasksFit
<1>11. StepFits'
  <2>1. CASE lock[p].ro
    <3>1. task' = t /\ step' = "give" /\ t.path = p /\ owed'[p] >= 1
      BY <1>1, <1>7, <2>1 DEF p
    <3> QED
      BY <1>1, <1>2, <1>3, <3>1 DEF StepFits, Projecting, Giving
  <2>2. CASE ~lock[p].ro
    BY <1>1, <1>3, <2>2 DEF StepFits, Projecting, Giving
  <2> QED
    BY <2>1, <2>2
<1>12. OkIsEnforced'
  <2>1. \A q \in Paths : Retaking(q) => FALSE
    BY <1>3 DEF Retaking, Running
  <2> QED
    BY <1>1, <1>3, <1>6, <2>1 DEF IInv, OkIsEnforced, Active
<1>13. \A q \in Paths : Claimed(q)' = Claimed(q)
  <2>1. ASSUME NEW q \in Paths, q # p PROVE Claimed(q)' = Claimed(q)
    BY <1>6, <1>7, <2>1 DEF Claimed
  <2>2. Claimed(p)' = Claimed(p)
    BY <1>2, <1>6, <1>7 DEF Claimed
  <2> QED
    BY <2>1, <2>2
<1>14. TakenIsOnRecord' /\ ClaimsAreOurs'
  BY <1>1, <1>3, <1>13 DEF IInv, TakenIsOnRecord, ClaimsAreOurs, At
<1> QED
  BY <1>8, <1>9, <1>10, <1>11, <1>12, <1>14 DEF IInv

(* What holds of the task at hand while its lock is being projected.       *)
LEMMA WhileProjecting ==
    ASSUME IInv, step \in Projecting
    PROVE  /\ TypeOK /\ task \in Tasks /\ task # NoTask /\ task.path \in Active
           /\ task.path \in Paths /\ task.op \in {"acquire", "retake"} /\ up
           /\ lock[task.path] \in LockRows
<1>1. TypeOK /\ task # NoTask /\ task.path \in Active /\ task.op \in {"acquire", "retake"}
  BY DEF IInv, StepFits
<1>2. task \in Tasks /\ up
  BY <1>1 DEF IInv, TypeOK, DownIsIdle
<1> QED
  BY <1>1, <1>2, RowFields DEF Active

LEMMA ProjectStep == ASSUME IInv, Project PROVE IInv'
<1> DEFINE p == task.path
<1>1. /\ step = "project" /\ step \in Projecting
      /\ UNCHANGED <<opened, bit, mounted, owed, up, todo, events, status, untold>>
  BY DEF Project, At, feeds, Projecting, Done, Goto
<1>2. /\ TypeOK /\ task \in Tasks /\ p \in Active /\ p \in Paths
      /\ task # NoTask /\ task.op \in {"acquire", "retake"} /\ up
  BY <1>1, WhileProjecting
<1>3. PICK v \in BOOLEAN : lock' = [lock EXCEPT ![p] = [lock[p] EXCEPT !.ok = v]]
           /\ \/ ~v /\ task' = NoTask /\ step' = "none" /\ UNCHANGED held
              \/ /\ held' = held \cup {p} /\ task' = task /\ step' = "guard"
  BY DEF Project, Done, Goto
<1> DEFINE row == [lock[p] EXCEPT !.ok = v]
<1>4. row \in LockRows /\ row.ok = v /\ row.ro = lock[p].ro
  BY <1>2, RowFields
<1>5. lock' = [lock EXCEPT ![p] = row]
  BY <1>3
<1>6. spent' \in [Budgets -> Nat]
  BY <1>2, SpendType DEF Project, Budgets, TypeOK
<1> HIDE DEF row, p
<1>7. /\ lock' \in [Paths -> LockRows \cup {NoLock}] /\ Active' = Active
      /\ lock'[p] = row /\ \A q \in Paths : q # p => lock'[q] = lock[q]
  BY <1>2, <1>4, <1>5, RowChange
<1>8. TypeOK'
  BY <1>1, <1>2, <1>3, <1>6, <1>7 DEF TypeOK, Steps
<1>9. OneKind' /\ TasksDiffer' /\ DownIsIdle'
  BY <1>1, <1>2, <1>3 DEF IInv, OneKind, TasksDiffer, DownIsIdle
<1>10. TasksFit'
  BY <1>1, <1>3, <1>7 DEF IInv, TasksFit, Giving
<1>11. StepFits'
  BY <1>1, <1>2, <1>3, <1>7 DEF StepFits, Projecting, Giving, p
<1>12. OkIsEnforced'
  <2>1. ASSUME NEW q \in Active, q # p, lock[q].ok, ~Retaking(q)'
        PROVE  ~Retaking(q)
    BY <1>1, <1>3, <2>1 DEF Retaking, p
  <2>2. held \subseteq Active /\ \A q \in Active : lock[q].ok /\ ~Retaking(q) => q \in held
    BY <1>2 DEF IInv, OkIsEnforced
  <2> QED
    BY <1>2, <1>3, <1>4, <1>7, <2>1, <2>2 DEF OkIsEnforced, Active
<1>13. \A q \in Paths : Claimed(q)' = Claimed(q)
  BY <1>1, <1>4, <1>7 DEF Claimed
<1>14. TakenIsOnRecord' /\ ClaimsAreOurs'
  BY <1>1, <1>13 DEF IInv, TakenIsOnRecord, ClaimsAreOurs, At
<1> QED
  BY <1>8, <1>9, <1>10, <1>11, <1>12, <1>14 DEF IInv

(* The guard leaves to the marker, or ends the retake.                     *)
LEMMA AfterGuardStep ==
    ASSUME IInv, step \in {"guard", "record"}, AfterGuard,
           TypeOK', Active' = Active, TakenIsOnRecord', ClaimsAreOurs',
           \A q \in Active : lock'[q].ok = lock[q].ok,
           UNCHANGED <<owed, held, up>>
    PROVE  IInv'
<1>1. /\ task \in Tasks /\ task.path \in Active /\ task # NoTask
      /\ task.op \in {"acquire", "retake"} /\ up /\ task.path \in held
  BY WhileProjecting DEF Projecting, IInv, StepFits
<1>2. todo' = todo /\ \/ task.op = "retake" /\ task' = NoTask /\ step' = "none"
                      \/ task' = task /\ step' = "mark"
  BY <1>1 DEF AfterGuard, Done, Goto
<1>3. OneKind' /\ TasksDiffer' /\ DownIsIdle'
  BY <1>1, <1>2 DEF IInv, OneKind, TasksDiffer, DownIsIdle
<1>4. TasksFit'
  BY <1>2 DEF IInv, TasksFit, Giving
<1>5. StepFits'
  BY <1>1, <1>2 DEF StepFits, Projecting, Giving
<1>6. OkIsEnforced'
  <2>1. ASSUME NEW q \in Active, q # task.path, ~Retaking(q)'
        PROVE  ~Retaking(q)
    BY <1>2, <2>1 DEF Retaking
  <2> QED
    BY <1>1, <2>1 DEF IInv, OkIsEnforced
<1> QED
  BY <1>3, <1>4, <1>5, <1>6 DEF IInv

LEMMA GuardStep == ASSUME IInv, TakeWritePermission PROVE IInv'
<1> DEFINE p == task.path
<1>1. /\ step = "guard" /\ step \in Projecting
      /\ UNCHANGED <<opened, mounted, lock, owed, held, up, todo, events, status,
                     untold>>
  BY DEF TakeWritePermission, At, feeds, Projecting, Done, Goto, AfterGuard
<1>2. /\ TypeOK /\ task \in Tasks /\ p \in Active /\ p \in Paths
      /\ task # NoTask /\ task.op \in {"acquire", "retake"} /\ up
  BY <1>1, WhileProjecting
<1>3. spent' \in [Budgets -> Nat]
  BY <1>2, SpendType DEF TakeWritePermission, Budgets, TypeOK
<1>4. Active' = Active /\ \A q \in Paths : Claimed(q)' = Claimed(q)
  BY <1>1 DEF Active, Claimed
<1>5. CASE /\ bit[p] = "free" /\ bit' = [bit EXCEPT ![p] = "ours"]
           /\ task' = task /\ step' = "record"
  <2>1. /\ bit' \in [Paths -> {"free", "ours", "theirs"}] /\ bit'[p] = "ours"
        /\ \A q \in Paths : q # p => bit'[q] = bit[q]
    BY <1>2, <1>5 DEF TypeOK
  <2>2. TypeOK'
    BY <1>1, <1>2, <1>3, <1>5, <2>1 DEF TypeOK, Steps
  <2>3. OneKind' /\ TasksDiffer' /\ DownIsIdle' /\ OkIsEnforced'
    BY <1>1, <1>2, <1>4, <1>5
       DEF IInv, OneKind, TasksDiffer, DownIsIdle, OkIsEnforced, Retaking
  <2>4. TasksFit'
    BY <1>1, <1>4, <1>5 DEF IInv, TasksFit, Giving
  <2>5. StepFits'
    BY <1>1, <1>2, <1>4, <1>5, <2>1 DEF IInv, StepFits, Projecting, Giving
  <2>6. TakenIsOnRecord' /\ ClaimsAreOurs'
    BY <1>1, <1>2, <1>4, <1>5, <2>1
       DEF IInv, TakenIsOnRecord, ClaimsAreOurs, At
  <2> QED
    BY <2>2, <2>3, <2>4, <2>5, <2>6 DEF IInv
<1>6. CASE AfterGuard /\ UNCHANGED bit
  <2>1. task' \in {task, NoTask} /\ (task' = NoTask <=> step' = "none")
        /\ (task' = task => step' = "mark")
    BY <1>2, <1>6 DEF AfterGuard, Done, Goto
  <2>2. TypeOK'
    BY <1>1, <1>2, <1>3, <1>6, <2>1 DEF TypeOK, Steps
  <2>3. TakenIsOnRecord' /\ ClaimsAreOurs'
    BY <1>1, <1>4, <1>6 DEF IInv, TakenIsOnRecord, ClaimsAreOurs, At
  <2>4. \A q \in Active : lock'[q].ok = lock[q].ok
    BY <1>1
  <2> QED
    BY <1>1, <1>4, <1>6, <2>2, <2>3, <2>4, AfterGuardStep
<1> QED
  BY <1>5, <1>6 DEF TakeWritePermission, Goto

LEMMA RecordStep == ASSUME IInv, RecordIt PROVE IInv'
<1>0. PICK p : p = task.path
  OBVIOUS
<1> DEFINE row == [lock[p] EXCEPT !.ro = TRUE]
<1>1. /\ step = "record" /\ step \in Projecting /\ AfterGuard
      /\ lock' = [lock EXCEPT ![p] = row]
      /\ UNCHANGED <<opened, bit, mounted, owed, held, up, events, status,
                     untold, spent>>
  BY <1>0 DEF RecordIt, At, feeds, Projecting
<1>2. /\ TypeOK /\ task \in Tasks /\ p \in Active /\ p \in Paths
      /\ task # NoTask /\ up /\ bit[p] = "ours"
  BY <1>0, <1>1, WhileProjecting DEF IInv, StepFits
<1>3. row \in LockRows /\ row.ro = TRUE /\ row.ok = lock[p].ok
  BY <1>2, RowFields
<1> HIDE DEF row
<1>4. /\ lock' \in [Paths -> LockRows \cup {NoLock}] /\ Active' = Active
      /\ lock'[p] = row /\ \A q \in Paths : q # p => lock'[q] = lock[q]
  BY <1>1, <1>2, <1>3, RowChange
<1>5. todo' = todo /\ \/ task' = NoTask /\ step' = "none"
                      \/ task' = task /\ step' = "mark"
  BY <1>1 DEF AfterGuard, Done, Goto
<1>6. TypeOK'
  BY <1>1, <1>2, <1>4, <1>5 DEF TypeOK, Steps
<1>7. /\ Claimed(p)' /\ \A q \in Paths : q # p => (Claimed(q)' <=> Claimed(q))
  <2>1. /\ p \in Active' /\ lock'[p].ro
    BY <1>2, <1>3, <1>4
  <2>2. ASSUME NEW q \in Paths, q # p
        PROVE  /\ lock'[q] = lock[q] /\ owed'[q] = owed[q]
               /\ (q \in Active' <=> q \in Active)
    BY <1>1, <1>4, <2>2
  <2>3. Claimed(p)'
    BY <2>1 DEF Claimed
  <2>4. ASSUME NEW q \in Paths, q # p
        PROVE  Claimed(q)' <=> Claimed(q)
    BY <2>2, <2>4 DEF Claimed
  <2> QED
    BY <2>3, <2>4
<1>8. TakenIsOnRecord' /\ ClaimsAreOurs'
  <2>1. /\ bit' = bit /\ untold' = untold /\ (At("record") => task.path = p)
    BY <1>0, <1>1
  <2>2. ASSUME NEW q \in Paths, bit'[q] = "ours"
        PROVE  Claimed(q)' \/ q \in untold'
    BY <1>7, <2>1, <2>2 DEF IInv, TakenIsOnRecord, At
  <2>3. ASSUME NEW q \in Paths, Claimed(q)'
        PROVE  bit'[q] # "theirs"
    BY <1>2, <1>7, <2>1, <2>3 DEF IInv, ClaimsAreOurs
  <2> QED
    BY <2>2, <2>3 DEF TakenIsOnRecord, ClaimsAreOurs
<1>9. \A q \in Active : lock'[q].ok = lock[q].ok
  BY <1>3, <1>4 DEF Active
<1> QED
  BY <1>1, <1>4, <1>6, <1>8, <1>9, AfterGuardStep

LEMMA MarkStep == ASSUME IInv, Mark PROVE IInv'
<1> DEFINE p == task.path
<1>1. /\ step = "mark" /\ step \in Projecting
      /\ todo' = todo /\ task' = NoTask /\ step' = "none"
      /\ UNCHANGED <<opened, bit, mounted, owed, held, up, events, status, untold>>
  BY DEF Mark, At, feeds, Projecting, Done
<1>2. /\ TypeOK /\ p \in Active /\ p \in Paths /\ task # NoTask /\ up /\ p \in held
  BY <1>1, WhileProjecting DEF IInv, StepFits
<1>3. PICK v \in BOOLEAN : lock' = [lock EXCEPT ![p] = [lock[p] EXCEPT !.ok = v]]
  BY DEF Mark
<1> DEFINE row == [lock[p] EXCEPT !.ok = v]
<1>4. row \in LockRows /\ row.ok = v /\ row.ro = lock[p].ro
  BY <1>2, RowFields
<1>5. lock' = [lock EXCEPT ![p] = row]
  BY <1>3
<1>6. spent' \in [Budgets -> Nat]
  BY <1>2, SpendType DEF Mark, Budgets, TypeOK
<1> HIDE DEF row, p
<1>7. /\ lock' \in [Paths -> LockRows \cup {NoLock}] /\ Active' = Active
      /\ lock'[p] = row /\ \A q \in Paths : q # p => lock'[q] = lock[q]
  BY <1>2, <1>4, <1>5, RowChange
<1>8. TypeOK'
  BY <1>1, <1>2, <1>6, <1>7 DEF TypeOK
<1>9. OneKind' /\ TasksDiffer' /\ DownIsIdle' /\ StepFits'
  BY <1>1, <1>2 DEF IInv, OneKind, TasksDiffer, DownIsIdle, StepFits, Projecting, Giving
<1>10. TasksFit'
  BY <1>1, <1>7 DEF IInv, TasksFit, Giving
<1>11. OkIsEnforced'
  <2>1. ASSUME NEW q \in Active, q # p, ~Retaking(q)'
        PROVE  ~Retaking(q)
    BY <1>1, <2>1 DEF Retaking, p
  <2> QED
    BY <1>1, <1>2, <1>7, <2>1 DEF IInv, OkIsEnforced, Active
<1>12. \A q \in Paths : Claimed(q)' = Claimed(q)
  BY <1>1, <1>4, <1>7 DEF Claimed
<1>13. TakenIsOnRecord' /\ ClaimsAreOurs'
  BY <1>1, <1>12 DEF IInv, TakenIsOnRecord, ClaimsAreOurs, At
<1> QED
  BY <1>8, <1>9, <1>10, <1>11, <1>13 DEF IInv

LEMMA GiveStep == ASSUME IInv, GiveBack PROVE IInv'
<1> DEFINE p == task.path
<1>1. /\ step = "give" /\ task # NoTask /\ todo' = todo
      /\ UNCHANGED <<opened, mounted, lock, owed, held, up, events, status>>
  BY DEF GiveBack, At, feeds, Done, Goto
<1>2. /\ TypeOK /\ task \in Tasks /\ p \in Paths /\ up
      /\ task.op \in {"finish", "expire", "sweep"}
      /\ task.nth >= 1 /\ owed[p] >= task.nth
  BY <1>1 DEF IInv, TypeOK, Tasks, StepFits, Giving, DownIsIdle
<1>3. spent' \in [Budgets -> Nat]
  BY <1>2, SpendType DEF GiveBack, Budgets, TypeOK
<1>4. Active' = Active /\ \A q \in Paths : Claimed(q)' = Claimed(q)
  BY <1>1 DEF Active, Claimed
<1>5. \/ task' = NoTask /\ step' = "none" /\ UNCHANGED <<bit, untold>>
      \/ /\ task' = task /\ step' = "forget"
         /\ bit' = [bit EXCEPT ![p] = "free"] /\ untold' = untold \ {p}
  BY DEF GiveBack, Done, Goto
<1>6. /\ bit' \in [Paths -> {"free", "ours", "theirs"}] /\ untold' \subseteq Paths
      /\ step' = "forget" => bit'[p] = "free"
      /\ \A q \in Paths : \/ bit'[q] = bit[q] /\ (q \in untold => q \in untold')
                          \/ bit'[q] = "free"
  BY <1>2, <1>5 DEF TypeOK
<1>7. TypeOK'
  BY <1>1, <1>2, <1>3, <1>5, <1>6 DEF TypeOK, Steps
<1>8. OneKind' /\ TasksDiffer' /\ DownIsIdle'
  BY <1>1, <1>2, <1>5 DEF IInv, OneKind, TasksDiffer, DownIsIdle
<1>9. TasksFit'
  BY <1>1, <1>4, <1>5 DEF IInv, TasksFit, Giving
<1>10. StepFits'
  BY <1>1, <1>2, <1>5, <1>6 DEF StepFits, Projecting, Giving
<1>11. OkIsEnforced'
  BY <1>1, <1>2, <1>4, <1>5 DEF IInv, OkIsEnforced, Retaking
<1>12. TakenIsOnRecord' /\ ClaimsAreOurs'
  BY <1>1, <1>4, <1>6 DEF IInv, TakenIsOnRecord, ClaimsAreOurs, At
<1> QED
  BY <1>7, <1>8, <1>9, <1>10, <1>11, <1>12 DEF IInv

LEMMA ForgetStep == ASSUME IInv, Forget PROVE IInv'
<1> DEFINE p == task.path
<1>1. /\ step = "forget" /\ task # NoTask /\ todo' = todo
      /\ task' = NoTask /\ step' = "none"
      /\ owed' = [owed EXCEPT ![p] = @ - 1]
      /\ UNCHANGED <<opened, bit, mounted, lock, held, up, events, status, untold,
                     spent>>
  BY DEF Forget, At, feeds, Done
<1>2. /\ TypeOK /\ task \in Tasks /\ p \in Paths /\ up /\ task.nth \in Nat
      /\ task.op \in {"finish", "expire", "sweep"}
      /\ task.nth >= 1 /\ owed[p] >= task.nth /\ bit[p] # "ours"
  BY <1>1 DEF IInv, TypeOK, Tasks, StepFits, Giving, DownIsIdle
<1>3. /\ owed' \in [Paths -> Nat] /\ owed'[p] = owed[p] - 1 /\ owed[p] \in Nat
      /\ \A q \in Paths : q # p => owed'[q] = owed[q]
  BY <1>1, <1>2 DEF TypeOK
<1>4. TypeOK'
  BY <1>1, <1>2, <1>3 DEF TypeOK
<1>5. Active' = Active
  BY <1>1 DEF Active
<1>6. OneKind' /\ TasksDiffer' /\ DownIsIdle' /\ StepFits'
  BY <1>1, <1>2 DEF IInv, OneKind, TasksDiffer, DownIsIdle, StepFits, Projecting, Giving
<1>7. TasksFit'
  <2>1. ASSUME NEW u \in todo, u.op = "sweep" PROVE u.nth <= owed'[u.path]
    <3>1. u \in Tasks /\ u.nth \in Nat /\ u.path \in Paths /\ u.nth <= owed[u.path]
      BY <1>2, <2>1 DEF IInv, TypeOK, Tasks, TasksFit
    <3>2. u.path = p => u.nth < task.nth
      BY <1>1, <2>1 DEF IInv, TasksFit, Giving
    <3> QED
      BY <1>2, <1>3, <3>1, <3>2
  <2> QED
    BY <1>1, <1>5, <2>1 DEF IInv, TasksFit, Giving
<1>8. OkIsEnforced'
  BY <1>1, <1>2, <1>5 DEF IInv, OkIsEnforced, Retaking
<1>9. \A q \in Paths : /\ Claimed(q)' => Claimed(q)
                       /\ q # p => Claimed(q)' = Claimed(q)
  BY <1>1, <1>3, <1>5 DEF Claimed
<1>10. TakenIsOnRecord' /\ ClaimsAreOurs'
  BY <1>1, <1>2, <1>9 DEF IInv, TakenIsOnRecord, ClaimsAreOurs, At
<1> QED
  BY <1>4, <1>6, <1>7, <1>8, <1>10 DEF IInv

-----------------------------------------------------------------------------
(* The theorems.                                                           *)

LEMMA NextInvariant == ASSUME IInv, [Next]_vars PROVE IInv'
<1>1. CASE Handle
  BY <1>1, InsertStep, TurnStep, ReleaseStep, ProjectStep, GuardStep, RecordStep,
     MarkStep, GiveStep, ForgetStep DEF Handle
<1>2. CASE HandleEvent \/ AskStatus \/ Tick \/ Operator
  BY <1>2, EventStep, StatusStep, TickStep, OperatorStep
<1>3. CASE \E m \in Machines, p \in Paths : OpenFile(m, p) \/ CloseFile(m, p)
  BY <1>3, MachineStep
<1>4. CASE \E p \in Paths : TimePasses(p) \/ HolderLost(p) \/ ServerChmod(p)
  BY <1>4, TimeStep, HolderStep, ChmodStep
<1>5. CASE MountLost \/ MountBack \/ Crash \/ Stop \/ Start
  BY <1>5, MountStep, EndStep, StartStep
<1>6. CASE UNCHANGED vars
  <2>1. UNCHANGED <<opened, bit, mounted, lock, owed, held, up, handler, todo, task,
                    step, feeds, events, status, untold, spent>>
    BY <1>6 DEF vars, handler, feeds
  <2>2. TypeOK'
    BY <2>1 DEF IInv, TypeOK
  <2> QED
    BY <2>1, <2>2, WorldStep
<1> QED
  BY <1>1, <1>2, <1>3, <1>4, <1>5, <1>6 DEF Next

THEOREM Invariant == Spec => []IInv
BY InitInvariant, NextInvariant, PTL DEF Spec

(* Every variable keeps its type.                                          *)
THEOREM LockTypes == Spec => []TypeOK
<1>1. IInv => TypeOK
  BY DEF IInv
<1> QED
  BY <1>1, Invariant, PTL

(* A lock shown as enforced has a running holder, and only a locked file   *)
(* has one (lock-manager.ts, recordProjectionLoss and restoreServerLocks). *)
THEOREM EnforcedLocksAreHeld == Spec => []OkIsEnforced
<1>1. IInv => OkIsEnforced
  BY DEF IInv
<1> QED
  BY <1>1, Invariant, PTL

(* A row leads back to every file the bridge made read-only, but for a     *)
(* kill between the chmod and its record (read-only-guard.ts, lock-manager *)
(* .ts, takeWritePermission).                                              *)
THEOREM TakenBitsAreOnRecord == Spec => []TakenIsOnRecord
<1>1. IInv => TakenIsOnRecord
  BY DEF IInv
<1> QED
  BY <1>1, Invariant, PTL

(* No step of the bridge gives back a write bit that somebody else took    *)
(* (read-only-guard.ts, clearReadOnly).                                    *)
THEOREM OthersProtectionStays == Spec => NotOursStaysTheirs
<1> DEFINE Kept == \A p \in Paths : bit[p] = "theirs" =>
                     bit'[p] = "theirs" \/ spent'["operator"] > spent["operator"]
<1>1. ASSUME IInv, [Next]_vars PROVE Kept
  <2>1. SUFFICES ASSUME NEW p \in Paths, bit[p] = "theirs", bit' # bit
                 PROVE  bit'[p] = "theirs" \/ spent'["operator"] > spent["operator"]
    OBVIOUS
  <2>2. TypeOK
    BY <1>1 DEF IInv
  <2>3. \/ TakeWritePermission \/ GiveBack
        \/ \E q \in Paths : ServerChmod(q)
    BY <1>1, <2>1 DEF Next, vars, Handle, InsertRow, TurnTo, ReleaseRow, Project,
       RecordIt, Mark, Forget, HandleEvent, AskStatus, Tick, Operator, HandlerOnly,
       OpenFile, CloseFile, TimePasses, HolderLost, MountLost, MountBack, Crash,
       Stop, Start
  <2>4. CASE TakeWritePermission
    BY <2>1, <2>2, <2>4 DEF TakeWritePermission, TypeOK
  <2>5. CASE GiveBack
    <3>1. /\ bit' = [bit EXCEPT ![task.path] = "free"]
          /\ step = "give" /\ task # NoTask
      BY <2>1, <2>5 DEF GiveBack, At
    <3>2. /\ task.path \in Paths /\ owed[task.path] \in Nat /\ task.nth \in Nat
          /\ owed[task.path] >= task.nth /\ task.nth >= 1
      BY <1>1, <2>2, <3>1 DEF IInv, StepFits, Giving, TypeOK, Tasks
    <3>3. Claimed(task.path)
      BY <3>2 DEF Claimed
    <3>4. bit[task.path] # "theirs"
      BY <1>1, <3>2, <3>3 DEF IInv, ClaimsAreOurs
    <3> QED
      BY <2>1, <2>2, <3>1, <3>4 DEF TypeOK
  <2>6. CASE \E q \in Paths : ServerChmod(q)
    BY <2>2, <2>6, SpendType DEF ServerChmod, Budgets
  <2> QED
    BY <2>3, <2>4, <2>5, <2>6
<1>2. IInv /\ [Next]_vars => [Kept]_vars
  BY <1>1
<1> QED
  BY <1>2, Invariant, PTL DEF Spec, NotOursStaysTheirs
=============================================================================
