---------------------------- MODULE Orchestrator ----------------------------
(***************************************************************************)
(* One running share: the sync orchestrator (sync/orchestrator.ts) over    *)
(* its filesystem ports (sync/filesystem-ports.ts, sync/transfer.ts), with *)
(* the machines writing the local cache, the office writing the server     *)
(* copy, the mount coming and going, and the process being killed.         *)
(*                                                                         *)
(* A reconciliation is split where the code awaits: the two stats, the     *)
(* stat, read and rename of the copy, the removal, the commit.  Between    *)
(* two of those steps anything else may happen.                            *)
(*                                                                         *)
(* A file is NoSide (absent) or a record of its data and its mtime.  Every *)
(* save produces data of its own, numbered in order, and stamps it with    *)
(* that number: size and mtime together are one stamp.  A file_index row   *)
(* with no base, no retries and no wait stands for "no row" as well, since *)
(* the code treats the two alike.  Times are kept as what remains of them: *)
(* wait is nextRetryAt less the clock, cooldown what the breaker still     *)
(* has to wait.                                                            *)
(***************************************************************************)
EXTENDS DiffEngine, FiniteSets, Sequences

CONSTANTS
    Paths,
    Concurrency,       \* TransferQueue's limit
    BreakerThreshold,  \* consecutive failures that open the breaker
    BreakerCooldown,   \* ticks it stays open
    RetryDelays,       \* ticks to wait, by retry count
    MaxSyncs,          \* EchoGuard: more syncs of a path than this is a loop
    Mode, Tolerance, ProtectDeletes,   \* the share's settings
    BadPaths,          \* paths whose transfers are always refused
    FirstVersions,     \* versions the two sides may agree on at first
    OfficeWrites,      \* whether the server copy has other writers
    MidCycleLoss,      \* whether the mount may go while a cycle runs
    MaxEdits, MaxFailures, MaxOutages, MaxLocks, MaxCrashes, MaxOperator

ASSUME BreakerAssumption ==
    /\ BreakerThreshold \in Nat \ {0}
    /\ BreakerCooldown \in Nat
    /\ RetryDelays \in Seq(Nat) /\ RetryDelays # <<>>
ASSUME ShareAssumption ==
    /\ Concurrency \in Nat \ {0} /\ MaxSyncs \in Nat
    /\ Mode \in ConflictModes /\ Tolerance \in Nat /\ ProtectDeletes \in BOOLEAN
    /\ BadPaths \subseteq Paths
    /\ {OfficeWrites, MidCycleLoss} \subseteq BOOLEAN
    /\ FirstVersions \in Nat
    /\ IsFiniteSet(Paths)
    /\ NoSide \notin [data : Nat \ {0}, mtime : Nat \ {0}]
    /\ NoSide \notin [size : {1}, mtime : Nat \ {0}, hash : {NoHash}]

Budgets == {"edit", "failure", "outage", "lock", "crash", "operator"}

VARIABLES
    local, remote,   \* [Paths -> file]: the cache, the server's export
    reachable,       \* whether the mounted export answers
    locked,          \* paths with an active lock row
    index,           \* [Paths -> row of file_index]   (durable)
    breaker, failures, cooldown, probeUsed,
    paused,
    cycle,           \* [phase, online]: what runCycle is doing
    queue, due,      \* paths still queued; those whose retry was due at `now`
    job,             \* [Paths -> the reconciliation in flight]
    syncs,           \* [Paths -> Nat]: EchoGuard's count
    captures, vault, \* captures scheduled but not run; data held as versions
    spent            \* [Budgets -> Nat]: how much of each bound is used

disk    == <<local, remote>>
circuit == <<breaker, failures, cooldown, probeUsed>>
control == <<paused, cycle, queue, due>>
world   == <<reachable, locked, spent>>
vars    == <<disk, world, index, circuit, control, job, syncs, captures, vault>>

-----------------------------------------------------------------------------
File(version) == [data |-> version, mtime |-> version]
Row(base, retries, wait) == [base |-> base, retries |-> retries, wait |-> wait]
NoJob == [pc |-> "none", record |-> Row(NoSide, 0, 0), seen |-> {},
          loc |-> NoSide, rem |-> NoSide, action |-> "NOOP", temp |-> NoSide]
InFlight == {p \in Paths : job[p].pc # "none"}
Newest == spent.edit + FirstVersions + 1

(* statSide: what a stat tells of a file.  Nothing is hashed. *)
Stat(file) == IF file = NoSide THEN NoSide
              ELSE [size |-> 1, mtime |-> file.mtime, hash |-> NoHash]

Init ==
    /\ \E version \in [Paths -> (1..FirstVersions) \cup {NoSide}] :
         /\ local = [p \in Paths |-> IF version[p] = NoSide THEN NoSide
                                     ELSE File(version[p])]
         /\ remote = local
         /\ index = [p \in Paths |-> Row(Stat(local[p]), 0, 0)]
    /\ reachable = TRUE
    /\ locked = {}
    /\ breaker = "closed" /\ failures = 0 /\ cooldown = 0 /\ probeUsed = FALSE
    /\ paused = FALSE
    /\ cycle = [phase |-> "idle", online |-> FALSE]
    /\ queue = {} /\ due = {}
    /\ job = [p \in Paths |-> NoJob]
    /\ syncs = [p \in Paths |-> 0]
    /\ captures = {} /\ vault = {}
    /\ spent = [b \in Budgets |-> 0]

Bound == [edit |-> MaxEdits, failure |-> MaxFailures, outage |-> MaxOutages,
          lock |-> MaxLocks, crash |-> MaxCrashes, operator |-> MaxOperator]
Spend(b) == spent[b] < Bound[b] /\ spent' = [spent EXCEPT ![b] = @ + 1]

-----------------------------------------------------------------------------
(* The cycle. *)

(* runCycle up to the probe of the server; a paused share or a breaker     *)
(* that has not cooled down returns at once and changes nothing.           *)
StartCycle ==
    /\ cycle.phase = "idle" /\ ~paused
    /\ breaker = "open" => cooldown = 0
    /\ IF breaker = "open"
         THEN breaker' = "half_open" /\ probeUsed' = FALSE
         ELSE UNCHANGED <<breaker, probeUsed>>
    /\ cycle' = [phase |-> "listing", online |-> reachable]
    /\ UNCHANGED <<disk, world, index, failures, cooldown, paused, queue, due,
                   job, syncs, captures, vault>>

(* listPaths: the server side is walked only when it was usable, and a     *)
(* walk that fails yields nothing.  `now` is read once, here, for the      *)
(* whole cycle.                                                            *)
(* Mutant: a path that failed as often as there are delays is given up. *)
ListPathsGivesUp ==
    /\ cycle.phase = "listing"
    /\ LET listed == {p \in Paths : \/ local[p] # NoSide
                                    \/ cycle.online /\ reachable /\ remote[p] # NoSide}
       IN  /\ queue' = listed
           /\ due' = {p \in listed : index[p].retries < Len(RetryDelays)}
    /\ cycle' = [cycle EXCEPT !.phase = "working"]
    /\ UNCHANGED <<disk, world, index, circuit, paused, job, syncs, captures, vault>>

ListPaths ==
    /\ cycle.phase = "listing"
    /\ LET listed == {p \in Paths : \/ local[p] # NoSide
                                    \/ cycle.online /\ reachable /\ remote[p] # NoSide}
       IN  /\ queue' = listed
           /\ due' = {p \in listed : index[p].wait = 0}
    /\ cycle' = [cycle EXCEPT !.phase = "working"]
    /\ UNCHANGED <<disk, world, index, circuit, paused, job, syncs, captures, vault>>

EndCycle ==
    /\ cycle.phase = "working" /\ queue = {} /\ InFlight = {}
    /\ cycle' = [phase |-> "idle", online |-> FALSE]
    /\ due' = {}
    /\ UNCHANGED <<disk, world, index, circuit, paused, queue, job, syncs,
                   captures, vault>>

-----------------------------------------------------------------------------
(* reconcile(), up to its first await: the breaker lets the path in, the   *)
(* probe is spent, and the path runs unless its retry is not due or the    *)
(* guard has quarantined it.                                               *)

Quarantined(p) == syncs[p] > MaxSyncs
BreakerLetsIn == breaker = "closed" \/ (breaker = "half_open" /\ ~probeUsed)
(* Mutant: the probe is never spent. *)
KeepProbe == UNCHANGED probeUsed

SpendProbe == probeUsed' = (probeUsed \/ (breaker = "half_open" /\ BreakerLetsIn))

(* Mutant: a path that is not due stays in the queue. *)
BeginWhenDue(p) ==
    /\ cycle.phase = "working" /\ p \in queue \cap due
    /\ Cardinality(InFlight) < Concurrency
    /\ queue' = queue \ {p}
    /\ SpendProbe
    /\ IF BreakerLetsIn /\ ~Quarantined(p)
         THEN job' = [job EXCEPT ![p] = [NoJob EXCEPT !.pc = "stat",
                                                     !.record = index[p]]]
         ELSE UNCHANGED job
    /\ UNCHANGED <<disk, world, index, breaker, failures, cooldown, paused, cycle,
                   due, syncs, captures, vault>>

Begin(p) ==
    /\ cycle.phase = "working" /\ p \in queue
    /\ Cardinality(InFlight) < Concurrency
    /\ queue' = queue \ {p}
    /\ SpendProbe
    /\ IF BreakerLetsIn /\ p \in due /\ ~Quarantined(p)
         THEN job' = [job EXCEPT ![p] = [NoJob EXCEPT !.pc = "stat",
                                                     !.record = index[p]]]
         ELSE UNCHANGED job
    /\ UNCHANGED <<disk, world, index, breaker, failures, cooldown, paused, cycle,
                   due, syncs, captures, vault>>

(* Both sides are stat'ed at once, and answer in either order.  A server   *)
(* that does not answer reads as a file that is not there.                 *)
StatLocal(p) ==
    /\ job[p].pc = "stat" /\ "local" \notin job[p].seen
    /\ job' = [job EXCEPT ![p].seen = @ \cup {"local"}, ![p].loc = Stat(local[p])]
    /\ UNCHANGED <<disk, world, index, circuit, control, syncs, captures, vault>>

StatRemote(p) ==
    /\ job[p].pc = "stat" /\ "remote" \notin job[p].seen
    /\ job' = [job EXCEPT ![p].seen = @ \cup {"remote"},
                          ![p].rem = IF reachable THEN Stat(remote[p]) ELSE NoSide]
    /\ UNCHANGED <<disk, world, index, circuit, control, syncs, captures, vault>>

-----------------------------------------------------------------------------
(* The outcomes of a reconciliation. *)

(* Mutant: the server is asked again for every path. *)
DiffConfigNow(p) ==
    [mode |-> Mode, tolerance |-> Tolerance, protectDeletes |-> ProtectDeletes,
     maxFileSize |-> 1, excluded |-> FALSE, caseCollision |-> FALSE,
     readOnly |-> FALSE, serverOffline |-> ~reachable, locked |-> p \in locked]

DiffConfig(p) ==
    [mode |-> Mode, tolerance |-> Tolerance, protectDeletes |-> ProtectDeletes,
     maxFileSize |-> 1, excluded |-> FALSE, caseCollision |-> FALSE,
     readOnly |-> FALSE, serverOffline |-> ~cycle.online, locked |-> p \in locked]

VerdictFor(p) == Decide(job[p].loc, job[p].rem, job[p].record.base, DiffConfig(p))

OnSuccess ==
    /\ failures' = 0
    /\ breaker' = "closed"
    /\ UNCHANGED <<cooldown, probeUsed>>

(* Mutant: a failed probe opens the breaker without a new cooldown. *)
OnFailureWarm ==
    /\ failures' = IF failures < BreakerThreshold THEN failures + 1 ELSE failures
    /\ IF breaker = "half_open" \/ failures' >= BreakerThreshold
         THEN /\ breaker' = "open"
              /\ cooldown' = IF breaker = "closed" THEN BreakerCooldown ELSE cooldown
         ELSE UNCHANGED <<breaker, cooldown>>
    /\ UNCHANGED probeUsed

OnFailure ==
    /\ failures' = IF failures < BreakerThreshold THEN failures + 1 ELSE failures
    /\ IF breaker = "half_open" \/ failures' >= BreakerThreshold
         THEN breaker' = "open" /\ cooldown' = BreakerCooldown
         ELSE UNCHANGED <<breaker, cooldown>>
    /\ UNCHANGED probeUsed

Survivor(p, action) ==
    CASE action = "PULL" -> job[p].rem
      [] action = "PUSH" -> job[p].loc
      [] action = "CONVERGE" -> job[p].loc
      [] OTHER -> NoSide

(* recordSync, commitSuccess and onSuccess.  A path the guard has already  *)
(* quarantined is not counted further.                                     *)
Succeed(p, action) ==
    /\ syncs' = [syncs EXCEPT ![p] = IF Quarantined(p) THEN @ ELSE @ + 1]
    /\ index' = [index EXCEPT ![p] = Row(Survivor(p, action), 0, 0)]
    /\ job' = [job EXCEPT ![p] = NoJob]
    /\ OnSuccess

(* recordFailure, from the record read when the job began.  The retry count *)
(* only selects the delay, and the last delay repeats: it is kept no higher *)
(* than the number of delays.                                               *)
Fail(p) ==
    /\ LET retries == IF job[p].record.retries < Len(RetryDelays)
                        THEN job[p].record.retries + 1 ELSE Len(RetryDelays)
       IN  index' = [index EXCEPT
                       ![p] = Row(job[p].record.base, retries, RetryDelays[retries])]
    /\ job' = [job EXCEPT ![p] = NoJob]
    /\ OnFailure
    /\ UNCHANGED syncs

Decided(p) == job[p].pc = "stat" /\ job[p].seen = {"local", "remote"}
Inert == {"NOOP", "DEFER", "EXCLUDE", "SKIP", "ERROR"}

(* An inert verdict: commitInert keeps the base and the retry count. *)
DecideInert(p) ==
    /\ Decided(p) /\ VerdictFor(p).action \in Inert
    /\ index' = [index EXCEPT
                    ![p] = Row(job[p].record.base, job[p].record.retries, 0)]
    /\ job' = [job EXCEPT ![p] = NoJob]
    /\ UNCHANGED <<disk, world, circuit, control, syncs, captures, vault>>

DecideConverge(p) ==
    /\ Decided(p) /\ VerdictFor(p).action = "CONVERGE"
    /\ Succeed(p, "CONVERGE")
    /\ UNCHANGED <<disk, world, control, captures, vault>>

(* Mutant: the base is committed before the transfer. *)
DecideApplyCommitsFirst(p) ==
    /\ Decided(p) /\ VerdictFor(p).action \in ServerMutating \cup LocalMutating
    /\ index' = [index EXCEPT ![p] = Row(Survivor(p, VerdictFor(p).action), 0, 0)]
    /\ job' = [job EXCEPT ![p].action = VerdictFor(p).action,
                 ![p].pc = IF VerdictFor(p).action \in {"PUSH", "PULL"} THEN "copy"
                           ELSE "remove"]
    /\ UNCHANGED <<disk, world, circuit, control, syncs, captures, vault>>

(* apply(), up to its first real wait: the capture is handed to the        *)
(* versioning engine, which schedules it and returns at once.              *)
DecideApply(p) ==
    /\ Decided(p) /\ VerdictFor(p).action \in ServerMutating \cup LocalMutating
    /\ LET v == VerdictFor(p)
       IN  /\ captures' = IF v.capture = "none" THEN captures
                          ELSE captures \cup {[path |-> p, side |-> v.capture]}
           /\ job' = [job EXCEPT ![p].action = v.action,
                        ![p].pc = IF v.action \in {"PUSH", "PULL"} THEN "copy"
                                  ELSE "remove"]
    /\ UNCHANGED <<disk, world, index, circuit, control, syncs, vault>>

-----------------------------------------------------------------------------
(* transferFile: stat the source, read it into a temporary file, give that *)
(* the stat'ed mtime, rename it over the destination.                      *)

Source(p) == IF job[p].action = "PUSH" THEN local[p]
             ELSE IF reachable THEN remote[p] ELSE NoSide
CanWrite(p) == p \notin BadPaths
               /\ (job[p].action \in ServerMutating => reachable)

CopyStat(p) ==
    /\ job[p].pc = "copy" /\ Source(p) # NoSide
    /\ job' = [job EXCEPT ![p].pc = "read", ![p].temp = Source(p)]
    /\ UNCHANGED <<disk, world, index, circuit, control, syncs, captures, vault>>

CopyRead(p) ==
    /\ job[p].pc = "read" /\ Source(p) # NoSide
    /\ job' = [job EXCEPT ![p].pc = "rename", ![p].temp.data = Source(p).data]
    /\ UNCHANGED <<disk, world, index, circuit, control, syncs, captures, vault>>

(* Mutant: the copy takes the mtime its source has after the read. *)
CopyRenameStampsLate(p) ==
    /\ job[p].pc = "rename" /\ CanWrite(p) /\ Source(p) # NoSide
    /\ LET file == [job[p].temp EXCEPT !.mtime = Source(p).mtime]
       IN  IF job[p].action = "PUSH"
             THEN remote' = [remote EXCEPT ![p] = file] /\ UNCHANGED local
             ELSE local' = [local EXCEPT ![p] = file] /\ UNCHANGED remote
    /\ job' = [job EXCEPT ![p].pc = "commit", ![p].temp = NoSide]
    /\ UNCHANGED <<world, index, circuit, control, syncs, captures, vault>>

CopyRename(p) ==
    /\ job[p].pc = "rename" /\ CanWrite(p)
    /\ IF job[p].action = "PUSH"
         THEN remote' = [remote EXCEPT ![p] = job[p].temp] /\ UNCHANGED local
         ELSE local' = [local EXCEPT ![p] = job[p].temp] /\ UNCHANGED remote
    /\ job' = [job EXCEPT ![p].pc = "commit", ![p].temp = NoSide]
    /\ UNCHANGED <<world, index, circuit, control, syncs, captures, vault>>

(* deleteLocal, deleteRemote: a file already gone is no error. *)
Remove(p) ==
    /\ job[p].pc = "remove" /\ CanWrite(p)
    /\ IF job[p].action = "DELETE_REMOTE"
         THEN remote' = [remote EXCEPT ![p] = NoSide] /\ UNCHANGED local
         ELSE local' = [local EXCEPT ![p] = NoSide] /\ UNCHANGED remote
    /\ job' = [job EXCEPT ![p].pc = "commit"]
    /\ UNCHANGED <<world, index, circuit, control, syncs, captures, vault>>

Commit(p) ==
    /\ job[p].pc = "commit"
    /\ Succeed(p, job[p].action)
    /\ UNCHANGED <<disk, world, control, captures, vault>>

(* A transfer that cannot go on, because its source is gone or its         *)
(* destination refuses, ends in recordFailure.                             *)
Blocked(p) ==
    \/ job[p].pc \in {"copy", "read"} /\ Source(p) = NoSide
    \/ job[p].pc \in {"rename", "remove"} /\ ~CanWrite(p)

TransferBlocked(p) ==
    /\ Blocked(p)
    /\ Fail(p)
    /\ UNCHANGED <<disk, world, control, captures, vault>>

(* A transient error: the copy starts over from an empty temporary file, or *)
(* the attempts are used up.                                                *)
TransferFails(p) ==
    /\ job[p].pc \in {"copy", "read", "rename", "remove"}
    /\ Spend("failure")
    /\ \/ /\ job[p].pc \in {"read", "rename"}
          /\ job' = [job EXCEPT ![p].pc = "copy", ![p].temp = NoSide]
          /\ UNCHANGED <<index, circuit, syncs>>
       \/ Fail(p)
    /\ UNCHANGED <<disk, reachable, locked, control, captures, vault>>

-----------------------------------------------------------------------------
(* The versioning engine, in its own time: it reads the file as it finds   *)
(* it, and keeps nothing if the file cannot be read, the disk is nearly    *)
(* full or the capture fails.                                              *)
RunCapture(c) ==
    /\ c \in captures
    /\ captures' = captures \ {c}
    /\ LET file == IF c.side = "local" THEN local[c.path]
                   ELSE IF reachable THEN remote[c.path] ELSE NoSide
       IN  vault' \in {vault} \cup {vault \cup {f.data} : f \in {file} \ {NoSide}}
    /\ UNCHANGED <<disk, world, index, circuit, control, job, syncs>>

(* Time. *)
(* Mutant: what remains of a wait may fall below zero. *)
LessUnclamped(n) == n - 1

Less(n) == IF n = 0 THEN 0 ELSE n - 1
Tick ==
    /\ cooldown > 0 \/ \E p \in Paths : index[p].wait > 0
    /\ cooldown' = Less(cooldown)
    /\ index' = [p \in Paths |-> [index[p] EXCEPT !.wait = Less(@)]]
    /\ UNCHANGED <<disk, world, breaker, failures, probeUsed, control, job, syncs,
                   captures, vault>>

(* The operator: pause, resume, full resync. *)
Pause ==
    /\ ~paused /\ Spend("operator")
    /\ paused' = TRUE
    /\ UNCHANGED <<disk, reachable, locked, index, circuit, cycle, queue, due, job,
                   syncs, captures, vault>>
Resume ==
    /\ paused
    /\ paused' = FALSE
    /\ UNCHANGED <<disk, world, index, circuit, cycle, queue, due, job, syncs,
                   captures, vault>>
FullResync ==
    /\ Spend("operator")
    /\ index' = [p \in Paths |-> Row(NoSide, 0, 0)]
    /\ syncs' = [p \in Paths |-> 0]
    /\ failures' = 0 /\ breaker' = "closed"
    /\ due' = due \cup queue
    /\ UNCHANGED <<disk, reachable, locked, cooldown, probeUsed, paused, cycle, queue,
                   job, captures, vault>>

(* The process is killed and starts again: the index and the disks are all *)
(* that is left.                                                           *)
Crash ==
    /\ Spend("crash")
    /\ breaker' = "closed" /\ failures' = 0 /\ cooldown' = 0 /\ probeUsed' = FALSE
    /\ paused' = FALSE
    /\ cycle' = [phase |-> "idle", online |-> FALSE]
    /\ queue' = {} /\ due' = {}
    /\ job' = [p \in Paths |-> NoJob]
    /\ syncs' = [p \in Paths |-> 0]
    /\ captures' = {}
    /\ UNCHANGED <<disk, reachable, locked, index, vault>>

-----------------------------------------------------------------------------
(* The world around the bridge. *)

MachineWrites(p) ==
    /\ Spend("edit")
    /\ \E file \in {File(Newest), NoSide} :
         file # local[p] /\ local' = [local EXCEPT ![p] = file]
    /\ UNCHANGED <<remote, reachable, locked, index, circuit, control, job, syncs,
                   captures, vault>>

OfficeWritesTo(p) ==
    /\ OfficeWrites /\ Spend("edit")
    /\ \E file \in {File(Newest), NoSide} :
         file # remote[p] /\ remote' = [remote EXCEPT ![p] = file]
    /\ UNCHANGED <<local, reachable, locked, index, circuit, control, job, syncs,
                   captures, vault>>

MachineOpens(p) ==
    /\ p \notin locked /\ Spend("lock")
    /\ locked' = locked \cup {p}
    /\ UNCHANGED <<disk, reachable, index, circuit, control, job, syncs, captures,
                   vault>>
MachineCloses(p) ==
    /\ p \in locked
    /\ locked' = locked \ {p}
    /\ UNCHANGED <<disk, reachable, spent, index, circuit, control, job, syncs,
                   captures, vault>>

ServerLost ==
    /\ reachable /\ Spend("outage")
    /\ MidCycleLoss \/ cycle.phase = "idle"
    /\ reachable' = FALSE
    /\ UNCHANGED <<disk, locked, index, circuit, control, job, syncs, captures, vault>>
ServerBack ==
    /\ ~reachable
    /\ reachable' = TRUE
    /\ UNCHANGED <<disk, locked, spent, index, circuit, control, job, syncs,
                   captures, vault>>

-----------------------------------------------------------------------------
JobStep(p) ==
    \/ Begin(p) \/ StatLocal(p) \/ StatRemote(p)
    \/ DecideInert(p) \/ DecideConverge(p) \/ DecideApply(p)
    \/ CopyStat(p) \/ CopyRead(p) \/ CopyRename(p) \/ Remove(p) \/ Commit(p)
    \/ TransferBlocked(p)
CycleStep == StartCycle \/ ListPaths \/ EndCycle
Bridge == \/ CycleStep
          \/ \E p \in Paths : JobStep(p) \/ TransferFails(p)
Capture == \E c \in captures : RunCapture(c)
Operator == Pause \/ Resume \/ FullResync
Environment ==
    \/ \E p \in Paths : MachineWrites(p) \/ OfficeWritesTo(p)
                        \/ MachineOpens(p) \/ MachineCloses(p)
    \/ ServerLost \/ ServerBack

Next == Bridge \/ Capture \/ Tick \/ Operator \/ Crash \/ Environment

(* The event loop runs what is ready: cycles are started by a timer, and   *)
(* every await is answered.  A paused share is resumed.  Nothing is asked  *)
(* of the users; the server comes back and programs are closed.            *)
Fairness ==
    /\ WF_vars(CycleStep) /\ WF_vars(Tick) /\ WF_vars(Capture) /\ WF_vars(Resume)
    /\ \A p \in Paths : WF_vars(JobStep(p)) /\ WF_vars(MachineCloses(p))
    /\ WF_vars(ServerBack)

Spec == Init /\ [][Next]_vars
FairSpec == Spec /\ Fairness

-----------------------------------------------------------------------------
(* Properties. *)

Saves == [data : Nat \ {0}, mtime : Nat \ {0}]
Files == Saves \cup {NoSide}
Stats == [size : {1}, mtime : Nat \ {0}, hash : {NoHash}] \cup {NoSide}
Rows == [base : Stats, retries : 0..Len(RetryDelays), wait : Nat]
PCs == {"none", "stat", "copy", "read", "rename", "remove", "commit"}
Jobs == [pc : PCs, record : Rows, seen : SUBSET {"local", "remote"},
         loc : Stats, rem : Stats, action : Actions, temp : Files]

(* What every variable holds. *)
TypeOK ==
    /\ local \in [Paths -> Files] /\ remote \in [Paths -> Files]
    /\ reachable \in BOOLEAN /\ locked \subseteq Paths
    /\ spent \in [Budgets -> Nat]
    /\ index \in [Paths -> Rows]
    /\ breaker \in {"closed", "open", "half_open"}
    /\ failures \in 0..BreakerThreshold
    /\ cooldown \in 0..BreakerCooldown
    /\ probeUsed \in BOOLEAN /\ paused \in BOOLEAN
    /\ cycle \in [phase : {"idle", "listing", "working"}, online : BOOLEAN]
    /\ queue \subseteq Paths /\ due \subseteq Paths
    /\ job \in [Paths -> Jobs]
    /\ syncs \in [Paths -> Nat]
    /\ captures \subseteq [path : Paths, side : {"local", "remote"}]
    /\ vault \subseteq Nat \ {0}

(* Two copies that look alike are alike: whatever is saved while a copy is  *)
(* under way, and wherever the process is killed, the two sides never carry *)
(* the same stamp over different data, which no later cycle would notice.   *)
NoSilentDivergence ==
    \A p \in Paths :
      (local[p] # NoSide /\ remote[p] # NoSide /\ local[p].mtime = remote[p].mtime)
        => local[p].data = remote[p].data

(* The share implements the circuit breaker it documents: no attempt begins *)
(* while the breaker is open, half open allows one at a time, and nothing   *)
(* but outcomes, the cooldown, a resync and a restart moves it.             *)
Breaker == INSTANCE CircuitBreaker
             WITH Threshold <- BreakerThreshold, Cooldown <- BreakerCooldown,
                  state <- breaker, attempts <- Cardinality(InFlight)
BreakerImplements == Breaker!BSpec

(* A half-open breaker has at most one reconciliation in flight: the probe. *)
OneProbe == breaker = "half_open" => Cardinality(InFlight) <= 1

(* A cycle that began without the server writes nothing to it and removes   *)
(* nothing from the cache, even when the server returns half way through.   *)
UsersIdle == spent'.edit = spent.edit
OfflineCycleDestroysNothing ==
    [][(cycle.phase = "working" /\ ~cycle.online /\ UsersIdle) =>
         /\ remote' = remote
         /\ \A p \in Paths : local[p] # NoSide => local'[p] # NoSide]_vars

(* While the office leaves the server alone, the bridge never replaces or   *)
(* removes a machine's file it has looked at: nothing it did itself, a copy *)
(* taken in the middle of a save, a retry and a restart between a transfer  *)
(* and its commit included, comes back as a change of the server's that     *)
(* beats a newer save.                                                      *)
KeepsSeenWork ==
    UsersIdle => \A p \in Paths :
      (local[p] # NoSide /\ job[p].loc = Stat(local[p])) => local'[p] = local[p]

(* Every cycle ends, or the process does. *)
CyclesEnd == cycle.phase = "working" ~> cycle.phase = "idle"

(* When the users have stopped, the server is back and the programs are     *)
(* closed, the two sides come to agree on every path that can be written    *)
(* and is not quarantined, and stay so.                                     *)
Agrees(p) == Stat(local[p]) = Stat(remote[p])
SidesSettle == <>[](\A p \in Paths \ BadPaths : Quarantined(p) \/ Agrees(p))

-----------------------------------------------------------------------------
(* What comments and documents say of the program, and its code does not   *)
(* keep; a run refutes it.                                                 *)

(* "One failing file does not stop the share" (orchestrator.ts, rule 1):    *)
(* the other paths go on settling while one keeps failing.                  *)
OneFailingFileDoesNotStopTheShare == SidesSettle
=============================================================================
