------------------------ MODULE Orchestrator_proofs ------------------------
(***************************************************************************)
(* What Orchestrator keeps for every set of paths, every bound and every   *)
(* setting: its types, that two copies that look alike are alike, the      *)
(* single probe of a half-open breaker, that it implements CircuitBreaker, *)
(* and, where the machine is alone with the bridge, that its work is kept. *)
(***************************************************************************)
EXTENDS Orchestrator, TLAPS, FiniteSetTheorems

-----------------------------------------------------------------------------
(* The decision engine always returns a verdict, whatever it is given.     *)

LEMMA Names ==
    /\ {"NOOP", "PUSH", "PULL", "DELETE_REMOTE", "DELETE_LOCAL",
        "CONVERGE", "DEFER", "EXCLUDE", "SKIP", "ERROR"} \subseteq Actions
    /\ {"synced", "pending_push", "pending_pull", "conflict", "deferred_locked",
        "error", "excluded"} \subseteq FileStates
    /\ {"none", "local", "remote"} \subseteq NamedSides
BY DEF Actions, FileStates, NamedSides

LEMMA VerdictIsAVerdict ==
    ASSUME NEW a \in Actions, NEW s \in Reasons, NEW k \in NamedSides, NEW n \in FileStates
    PROVE  Verdict(a, s, k, n) \in Verdicts
<1>1. "none" \in NamedSides
  BY Names
<1> QED
  BY <1>1 DEF Verdict, Verdicts

LEMMA ResolveIsAVerdict ==
    ASSUME NEW l, NEW r, NEW c
    PROVE  ResolveConflict(l, r, c) \in Verdicts
<1> DEFINE w == Winner(l, r, c)
           k == IF (IF w = "local" THEN r ELSE l) = NoSide THEN "none"
                ELSE IF w = "local" THEN "remote" ELSE "local"
<1>1. w \in {"local", "remote"}
  BY DEF Winner
<1>2. ConflictAction(w, l, r) \in Actions
  BY <1>1, Names DEF ConflictAction
<1>3. w \in NamedSides /\ k \in NamedSides
  BY <1>1, Names
<1>4. ResolveConflict(l, r, c)
        = [action |-> ConflictAction(w, l, r), reason |-> "conflict_resolved",
           capture |-> k, nextState |-> "conflict", winner |-> w]
  BY DEF ResolveConflict
<1>5. "conflict_resolved" \in Reasons /\ "conflict" \in FileStates
  BY Names DEF Reasons
<1> HIDE DEF w, k
<1> QED
  BY <1>2, <1>3, <1>4, <1>5 DEF Verdicts

LEMMA DecideCoreIsAVerdict ==
    ASSUME NEW l, NEW r, NEW b, NEW c
    PROVE  DecideCore(l, r, b, c) \in Verdicts
<1>1. /\ CaptureIf(NeedsCapture(r, l), "remote") \in NamedSides
      /\ CaptureIf(NeedsCapture(l, r), "local") \in NamedSides
  BY Names DEF CaptureIf
<1>2. {"in_sync", "both_deleted", "converged", "local_created", "remote_created",
       "delete_protected", "local_deleted", "remote_deleted", "local_changed",
       "remote_changed"} \subseteq Reasons
  BY DEF Reasons
<1>3. /\ Verdict("NOOP", "in_sync", "none", "synced") \in Verdicts
      /\ Verdict("NOOP", "both_deleted", "none", "synced") \in Verdicts
      /\ Verdict("CONVERGE", "converged", "none", "synced") \in Verdicts
      /\ Verdict("PUSH", "local_created", "none", "pending_push") \in Verdicts
      /\ Verdict("PULL", "remote_created", "none", "pending_pull") \in Verdicts
      /\ Verdict("PULL", "delete_protected", "none", "pending_pull") \in Verdicts
      /\ Verdict("PUSH", "delete_protected", "none", "pending_push") \in Verdicts
      /\ Verdict("DELETE_REMOTE", "local_deleted", "remote", "pending_push") \in Verdicts
      /\ Verdict("DELETE_LOCAL", "remote_deleted", "local", "pending_pull") \in Verdicts
  BY <1>2, VerdictIsAVerdict, Names
<1>4. /\ Verdict("PUSH", "local_changed", CaptureIf(NeedsCapture(r, l), "remote"),
                 "pending_push") \in Verdicts
      /\ Verdict("PULL", "remote_changed", CaptureIf(NeedsCapture(l, r), "local"),
                 "pending_pull") \in Verdicts
  BY <1>1, <1>2, VerdictIsAVerdict, Names
<1>5. ResolveConflict(l, r, c) \in Verdicts
  BY ResolveIsAVerdict
<1> QED
  BY <1>3, <1>4, <1>5 DEF DecideCore

LEMMA DecideIsAVerdict ==
    ASSUME NEW l, NEW r, NEW b, NEW c
    PROVE  Decide(l, r, b, c) \in Verdicts
<1>1. {"excluded", "oversized", "case_collision", "server_offline", "read_only",
       "locked_by_machine"} \subseteq Reasons
  BY DEF Reasons
<1>2. ASSUME NEW v \in Verdicts, NEW s \in Reasons, NEW n \in FileStates
      PROVE  Deferred(v, s, n) \in Verdicts
  BY Names DEF Deferred, Verdicts
<1>3. ASSUME NEW v \in Verdicts PROVE v.nextState \in FileStates
  BY DEF Verdicts
<1>4. ASSUME NEW v \in Verdicts PROVE DeferForServer(v, c) \in Verdicts
  BY <1>1, <1>2, <1>3 DEF DeferForServer
<1>5. ASSUME NEW v \in Verdicts PROVE DeferForMachine(v, c) \in Verdicts
  BY <1>1, <1>2, Names DEF DeferForMachine
<1>6. ApplyAvailabilityOverrides(DecideCore(l, r, b, c), c) \in Verdicts
  BY <1>4, <1>5, DecideCoreIsAVerdict DEF ApplyAvailabilityOverrides
<1>7. /\ Verdict("EXCLUDE", "excluded", "none", "excluded") \in Verdicts
      /\ Verdict("ERROR", "case_collision", "none", "error") \in Verdicts
      /\ Verdict("SKIP", "oversized", "none", "error") \in Verdicts
  BY <1>1, VerdictIsAVerdict, Names
<1> QED
  BY <1>6, <1>7 DEF Decide

-----------------------------------------------------------------------------
(* Type correctness.  A copy that has read its source holds a file.        *)

Temps == \A p \in Paths : job[p].pc \in {"read", "rename"} => job[p].temp \in Saves
TypeInv == TypeOK /\ Temps

LEMMA StatIsAStat ==
    ASSUME NEW file \in Files
    PROVE  Stat(file) \in Stats
BY DEF Files, Saves, Stats, Stat

LEMMA NewFile ==
    ASSUME spent \in [Budgets -> Nat]
    PROVE  File(Newest) \in Files /\ Newest \in Nat \ {0}
<1>1. spent.edit \in Nat
  BY DEF Budgets
<1> QED
  BY <1>1, ShareAssumption DEF File, Files, Saves, Newest

LEMMA DelaysAreNats ==
    /\ Len(RetryDelays) \in Nat \ {0}
    /\ \A n \in 1..Len(RetryDelays) : RetryDelays[n] \in Nat
BY BreakerAssumption

LEMMA NoJobIsAJob == NoJob \in Jobs /\ NoJob.pc = "none"
BY Names DEF NoJob, Jobs, PCs, Rows, Row, Stats, Files

LEMMA TypeInit == Init => TypeInv
<1> SUFFICES ASSUME Init PROVE TypeInv
  OBVIOUS
<1>1. PICK version \in [Paths -> (1..FirstVersions) \cup {NoSide}] :
        /\ local = [p \in Paths |-> IF version[p] = NoSide THEN NoSide
                                    ELSE File(version[p])]
        /\ remote = local
        /\ index = [p \in Paths |-> Row(Stat(local[p]), 0, 0)]
  BY DEF Init
<1>2. local \in [Paths -> Files] /\ remote \in [Paths -> Files]
  BY <1>1, ShareAssumption DEF File, Files, Saves
<1>3. index \in [Paths -> Rows]
  BY <1>1, <1>2, StatIsAStat, DelaysAreNats DEF Row, Rows
<1>4. job \in [Paths -> Jobs] /\ Temps
  BY NoJobIsAJob DEF Init, Temps
<1> QED
  <2>1. spent \in [Budgets -> Nat] /\ syncs \in [Paths -> Nat]
    BY DEF Init
  <2>2. failures \in 0..BreakerThreshold /\ cooldown \in 0..BreakerCooldown
    BY BreakerAssumption DEF Init
  <2>3. cycle \in [phase : {"idle", "listing", "working"}, online : BOOLEAN]
    BY DEF Init
  <2> QED
    BY <1>2, <1>3, <1>4, <2>1, <2>2, <2>3 DEF Init, TypeInv, TypeOK

(* One job's record changes. *)
LEMMA JobUpdate ==
    ASSUME job \in [Paths -> Jobs], Temps, NEW p \in Paths, NEW r \in Jobs,
           job' = [job EXCEPT ![p] = r],
           r.pc \in {"read", "rename"} => r.temp \in Saves
    PROVE  job' \in [Paths -> Jobs] /\ Temps'
BY DEF Temps

LEMMA PCNames == {"none", "stat", "copy", "read", "rename", "remove", "commit"} \subseteq PCs
BY DEF PCs

LEMMA JobMoves ==
    ASSUME NEW j \in Jobs, NEW pc \in PCs
    PROVE  [j EXCEPT !.pc = pc] \in Jobs /\ [j EXCEPT !.pc = pc].pc = pc
BY DEF Jobs

LEMMA JobActs ==
    ASSUME NEW j \in Jobs, NEW pc \in PCs, NEW a \in Actions
    PROVE  /\ [j EXCEPT !.action = a, !.pc = pc] \in Jobs
           /\ [j EXCEPT !.action = a, !.pc = pc].pc = pc
BY DEF Jobs

LEMMA JobCopies ==
    ASSUME NEW j \in Jobs, NEW pc \in PCs, NEW f \in Files
    PROVE  /\ [j EXCEPT !.pc = pc, !.temp = f] \in Jobs
           /\ [j EXCEPT !.pc = pc, !.temp = f].pc = pc
           /\ [j EXCEPT !.pc = pc, !.temp = f].temp = f
BY DEF Jobs

LEMMA JobSees ==
    ASSUME NEW j \in Jobs, NEW s \in Stats, NEW side \in {"local", "remote"}
    PROVE  /\ [j EXCEPT !.seen = @ \cup {side}, !.loc = s] \in Jobs
           /\ [j EXCEPT !.seen = @ \cup {side}, !.loc = s].pc = j.pc
           /\ [j EXCEPT !.seen = @ \cup {side}, !.rem = s] \in Jobs
           /\ [j EXCEPT !.seen = @ \cup {side}, !.rem = s].pc = j.pc
BY DEF Jobs

LEMMA TypeNext == TypeInv /\ [Next]_vars => TypeInv'
<1> SUFFICES ASSUME TypeInv, [Next]_vars PROVE TypeInv'
  OBVIOUS
<1> USE DEF TypeInv
<1>1. CASE StartCycle
  BY <1>1 DEF StartCycle, TypeOK, Temps, disk, world, InFlight
<1>2. CASE ListPaths
  BY <1>2 DEF ListPaths, TypeOK, Temps, disk, world, circuit
<1>3. CASE EndCycle
  BY <1>3 DEF EndCycle, TypeOK, Temps, disk, world, circuit
<1>4. ASSUME NEW p \in Paths, Begin(p) PROVE TypeInv'
  <2>1. [NoJob EXCEPT !.pc = "stat", !.record = index[p]] \in Jobs
    BY NoJobIsAJob DEF TypeOK, Jobs, PCs
  <2>2. job' \in [Paths -> Jobs] /\ Temps'
    <3>1. CASE UNCHANGED job
      BY <3>1 DEF TypeOK, Temps
    <3>2. CASE job' = [job EXCEPT ![p] = [NoJob EXCEPT !.pc = "stat", !.record = index[p]]]
      BY <3>2, <2>1, JobUpdate DEF TypeOK, NoJob
    <3> QED
      BY <1>4, <3>1, <3>2 DEF Begin
  <2>3. probeUsed' \in BOOLEAN
    BY <1>4 DEF Begin, SpendProbe, TypeOK
  <2> QED
    BY <1>4, <2>2, <2>3 DEF Begin, TypeOK, disk, world
<1>5. ASSUME NEW p \in Paths, StatLocal(p) PROVE TypeInv'
  <2> DEFINE r == [job[p] EXCEPT !.seen = @ \cup {"local"}, !.loc = Stat(local[p])]
  <2>1. Stat(local[p]) \in Stats /\ job[p] \in Jobs
    BY StatIsAStat, SMTT(40) DEF TypeOK
  <2>2. r \in Jobs /\ r.pc = job[p].pc
    BY <2>1, JobSees
  <2>3. job' = [job EXCEPT ![p] = r] /\ job[p].pc = "stat"
    BY <1>5 DEF StatLocal
  <2>4. job' \in [Paths -> Jobs] /\ Temps'
    BY <2>2, <2>3, JobUpdate DEF TypeOK
  <2> QED
    BY <1>5, <2>4 DEF StatLocal, TypeOK, disk, world, circuit, control
<1>6. ASSUME NEW p \in Paths, StatRemote(p) PROVE TypeInv'
  <2>1. (IF reachable THEN Stat(remote[p]) ELSE NoSide) \in Stats
    BY StatIsAStat, SMTT(40) DEF TypeOK, Stats
  <2> DEFINE r == [job[p] EXCEPT !.seen = @ \cup {"remote"},
                                 !.rem = IF reachable THEN Stat(remote[p]) ELSE NoSide]
  <2>2. r \in Jobs /\ r.pc = job[p].pc
    BY <2>1, JobSees DEF TypeOK
  <2>3. job' = [job EXCEPT ![p] = r] /\ job[p].pc = "stat"
    BY <1>6 DEF StatRemote
  <2>4. job' \in [Paths -> Jobs] /\ Temps'
    BY <2>2, <2>3, JobUpdate DEF TypeOK
  <2> QED
    BY <1>6, <2>4 DEF StatRemote, TypeOK, disk, world, circuit, control
<1>7. ASSUME NEW p \in Paths, DecideInert(p) PROVE TypeInv'
  <2>1. index' \in [Paths -> Rows]
    BY <1>7, DelaysAreNats DEF DecideInert, TypeOK, Jobs, Rows, Row
  <2>2. job' \in [Paths -> Jobs] /\ Temps'
    BY <1>7, NoJobIsAJob DEF DecideInert, TypeOK, Temps
  <2> QED
    BY <1>7, <2>1, <2>2 DEF DecideInert, TypeOK, disk, world, circuit, control
<1>8. ASSUME NEW p \in Paths, NEW a, Succeed(p, a),
             UNCHANGED <<disk, world, control, captures, vault>>
      PROVE  TypeInv'
  <2>1. Survivor(p, a) \in Stats
    BY DEF Survivor, TypeOK, Jobs, Stats
  <2>2. index' \in [Paths -> Rows]
    BY <1>8, <2>1, DelaysAreNats DEF Succeed, TypeOK, Rows, Row
  <2>3. job' \in [Paths -> Jobs] /\ Temps'
    BY <1>8, NoJobIsAJob DEF Succeed, TypeOK, Temps
  <2>4. syncs' \in [Paths -> Nat]
    BY <1>8 DEF Succeed, TypeOK
  <2> QED
    BY <1>8, <2>2, <2>3, <2>4, BreakerAssumption
       DEF Succeed, OnSuccess, TypeOK, disk, world, control
<1>9. ASSUME NEW p \in Paths, Fail(p), UNCHANGED <<disk, reachable, locked, control,
             captures, vault>>, spent' \in [Budgets -> Nat]
      PROVE  TypeInv'
  <2> DEFINE retries == IF job[p].record.retries < Len(RetryDelays)
                          THEN job[p].record.retries + 1 ELSE Len(RetryDelays)
  <2>1. job[p].record.retries \in 0..Len(RetryDelays) /\ job[p].record.base \in Stats
    BY DEF TypeOK, Jobs, Rows
  <2>2. retries \in 1..Len(RetryDelays) /\ RetryDelays[retries] \in Nat
    BY <2>1, DelaysAreNats
  <2>3. Row(job[p].record.base, retries, RetryDelays[retries]) \in Rows
    BY <2>1, <2>2, DelaysAreNats DEF Row, Rows
  <2>4. index' \in [Paths -> Rows]
    BY <1>9, <2>3 DEF Fail, TypeOK
  <2>5. job' \in [Paths -> Jobs] /\ Temps'
    BY <1>9, NoJobIsAJob DEF Fail, TypeOK, Temps
  <2>6. /\ failures' \in 0..BreakerThreshold
        /\ breaker' \in {"closed", "open", "half_open"}
        /\ cooldown' \in 0..BreakerCooldown
    BY <1>9, BreakerAssumption DEF Fail, OnFailure, TypeOK
  <2> QED
    BY <1>9, <2>4, <2>5, <2>6 DEF Fail, OnFailure, TypeOK, disk, control
<1>10. ASSUME NEW p \in Paths, DecideApply(p) PROVE TypeInv'
  <2> DEFINE v == VerdictFor(p)
             pc == IF v.action \in {"PUSH", "PULL"} THEN "copy" ELSE "remove"
  <2>1. v \in Verdicts
    BY DecideIsAVerdict DEF VerdictFor
  <2>2. v.action \in Actions /\ v.capture \in NamedSides
    BY <2>1 DEF Verdicts
  <2> HIDE DEF v
  <2>3. captures' \subseteq [path : Paths, side : {"local", "remote"}]
    BY <1>10, <2>2 DEF DecideApply, TypeOK, NamedSides, v
  <2> DEFINE r == [job[p] EXCEPT !.action = v.action, !.pc = pc]
  <2>4. r \in Jobs /\ r.pc = pc
    <3>1. job[p] \in Jobs /\ pc \in PCs
      BY DEF TypeOK, PCs
    <3>2. v.action \in Actions
      BY <2>2
    <3> HIDE DEF pc
    <3> QED
      BY <3>1, <3>2, JobActs
  <2>5. job' = [job EXCEPT ![p] = r]
    BY <1>10 DEF DecideApply, v
  <2>6. job' \in [Paths -> Jobs] /\ Temps'
    <3>1. pc \notin {"read", "rename"}
      OBVIOUS
    <3> HIDE DEF pc, r
    <3> QED
      BY <2>4, <2>5, <3>1, JobUpdate DEF TypeOK
  <2> QED
    BY <1>10, <2>3, <2>6 DEF DecideApply, TypeOK, disk, world, circuit, control
<1>11. ASSUME NEW p \in Paths, CopyStat(p) PROVE TypeInv'
  <2> DEFINE r == [job[p] EXCEPT !.pc = "read", !.temp = Source(p)]
  <2>1. Source(p) \in Saves /\ Source(p) \in Files
    BY <1>11 DEF CopyStat, Source, TypeOK, Files
  <2>2. job' = [job EXCEPT ![p] = r]
    BY <1>11 DEF CopyStat
  <2>3. r \in Jobs /\ r.temp = Source(p)
    <3>1. job[p] \in Jobs /\ "read" \in PCs
      BY PCNames DEF TypeOK
    <3> QED
      BY <2>1, <3>1 DEF Jobs
  <2> HIDE DEF r
  <2>4. job' \in [Paths -> Jobs] /\ Temps'
    BY <2>1, <2>2, <2>3, JobUpdate DEF TypeOK
  <2> QED
    BY <1>11, <2>4 DEF CopyStat, TypeOK, disk, world, circuit, control
<1>12. ASSUME NEW p \in Paths, CopyRead(p) PROVE TypeInv'
  <2> DEFINE temp == [job[p].temp EXCEPT !.data = Source(p).data]
             r == [job[p] EXCEPT !.pc = "rename", !.temp = temp]
  <2>1. Source(p) \in Saves /\ job[p].temp \in Saves
    BY <1>12 DEF CopyRead, Source, TypeOK, Temps, Files
  <2>2. temp \in Saves /\ temp \in Files
    BY <2>1 DEF Saves, Files
  <2>3. job' = [job EXCEPT ![p] = r]
    BY <1>12 DEF CopyRead
  <2> HIDE DEF temp
  <2>4. r \in Jobs /\ r.temp = temp
    <3>1. job[p] \in Jobs /\ "rename" \in PCs
      BY PCNames DEF TypeOK
    <3> QED
      BY <2>2, <3>1 DEF Jobs
  <2> HIDE DEF r
  <2>5. job' \in [Paths -> Jobs] /\ Temps'
    BY <2>2, <2>3, <2>4, JobUpdate DEF TypeOK
  <2> QED
    BY <1>12, <2>5 DEF CopyRead, TypeOK, disk, world, circuit, control
<1>13. ASSUME NEW p \in Paths, CopyRename(p) PROVE TypeInv'
  <2>1. job[p].temp \in Files /\ NoSide \in Files
    BY DEF TypeOK, Jobs, Files
  <2>2. local' \in [Paths -> Files] /\ remote' \in [Paths -> Files]
    BY <1>13, <2>1 DEF CopyRename, TypeOK
  <2> DEFINE r == [job[p] EXCEPT !.pc = "commit", !.temp = NoSide]
  <2>3. job' = [job EXCEPT ![p] = r]
    BY <1>13 DEF CopyRename
  <2>4. r \in Jobs /\ r.pc = "commit"
    <3>1. job[p] \in Jobs /\ "commit" \in PCs
      BY PCNames DEF TypeOK
    <3> QED
      BY <2>1, <3>1 DEF Jobs
  <2> HIDE DEF r
  <2>5. job' \in [Paths -> Jobs] /\ Temps'
    BY <2>3, <2>4, JobUpdate DEF TypeOK
  <2> QED
    BY <1>13, <2>2, <2>5 DEF CopyRename, TypeOK, world, circuit, control
<1>14. ASSUME NEW p \in Paths, Remove(p) PROVE TypeInv'
  <2>1. NoSide \in Files
    BY DEF Files
  <2>2. local' \in [Paths -> Files] /\ remote' \in [Paths -> Files]
    BY <1>14, <2>1 DEF Remove, TypeOK
  <2>3. job' \in [Paths -> Jobs] /\ Temps'
    <3>1. job' = [job EXCEPT ![p] = [job[p] EXCEPT !.pc = "commit"]]
      BY <1>14 DEF Remove
    <3> QED
      BY <3>1, JobMoves, JobUpdate DEF TypeOK, PCs
  <2> QED
    BY <1>14, <2>2, <2>3 DEF Remove, TypeOK, world, circuit, control
<1>15. ASSUME NEW p \in Paths, TransferFails(p) PROVE TypeInv'
  <2>1. spent' \in [Budgets -> Nat]
    BY <1>15 DEF TransferFails, Spend, TypeOK, Budgets
  <2>2. CASE Fail(p)
    BY <1>9, <1>15, <2>1, <2>2 DEF TransferFails
  <2>3. CASE job' = [job EXCEPT ![p].pc = "copy", ![p].temp = NoSide]
             /\ UNCHANGED <<index, circuit, syncs>>
    <3> DEFINE r == [job[p] EXCEPT !.pc = "copy", !.temp = NoSide]
    <3>1. r \in Jobs /\ r.pc = "copy"
      <4>1. job[p] \in Jobs /\ "copy" \in PCs /\ NoSide \in Files
        BY PCNames DEF TypeOK, Files
      <4> QED
        BY <4>1, JobCopies, ZenonT(60)
    <3>2. job' = [job EXCEPT ![p] = r]
      BY <2>3
    <3> HIDE DEF r
    <3>3. job' \in [Paths -> Jobs] /\ Temps'
      BY <3>1, <3>2, JobUpdate DEF TypeOK
    <3> QED
      BY <1>15, <2>1, <2>3, <3>3 DEF TransferFails, TypeOK, disk, circuit, control
  <2> QED
    BY <1>15, <2>2, <2>3 DEF TransferFails
<1>16. ASSUME NEW c \in captures, RunCapture(c) PROVE TypeInv'
  <2> DEFINE file == IF c.side = "local" THEN local[c.path]
                     ELSE IF reachable THEN remote[c.path] ELSE NoSide
  <2>1. file \in Files
    BY DEF TypeOK, Files
  <2>2. vault' \subseteq Nat \ {0}
    BY <1>16, <2>1 DEF RunCapture, TypeOK, Files, Saves
  <2> QED
    BY <1>16, <2>2 DEF RunCapture, TypeOK, Temps, disk, world, circuit, control
<1>17. CASE Tick
  <2>1. \A n \in Nat : Less(n) \in Nat /\ Less(n) <= n
    BY DEF Less
  <2>2. index' \in [Paths -> Rows]
    <3>1. \A p \in Paths : [index[p] EXCEPT !.wait = Less(@)] \in Rows
      BY <2>1 DEF TypeOK, Rows
    <3> QED
      BY <1>17, <3>1 DEF Tick
  <2>3. cooldown' \in 0..BreakerCooldown
    BY <1>17, <2>1, BreakerAssumption DEF Tick, TypeOK
  <2> QED
    BY <1>17, <2>2, <2>3 DEF Tick, TypeOK, Temps, disk, world, control
<1>18. CASE Operator
  <2>1. CASE Pause
    BY <2>1 DEF Pause, Spend, TypeOK, Temps, Budgets, disk, circuit
  <2>2. CASE Resume
    BY <2>2 DEF Resume, TypeOK, Temps, disk, world, circuit
  <2>3. CASE FullResync
    <3>1. index' \in [Paths -> Rows]
      BY <2>3, DelaysAreNats DEF FullResync, Row, Rows, Stats
    <3>2. syncs' \in [Paths -> Nat] /\ spent' \in [Budgets -> Nat]
      BY <2>3 DEF FullResync, Spend, TypeOK, Budgets
    <3> QED
      BY <2>3, <3>1, <3>2, BreakerAssumption DEF FullResync, TypeOK, Temps, disk
  <2> QED
    BY <1>18, <2>1, <2>2, <2>3 DEF Operator
<1>19. CASE Crash
  <2>1. job' \in [Paths -> Jobs] /\ Temps'
    BY <1>19, NoJobIsAJob DEF Crash, Temps
  <2>2. spent' \in [Budgets -> Nat] /\ syncs' \in [Paths -> Nat]
    BY <1>19 DEF Crash, Spend, TypeOK, Budgets
  <2>3. failures' \in 0..BreakerThreshold /\ cooldown' \in 0..BreakerCooldown
    BY <1>19, BreakerAssumption DEF Crash
  <2>4. cycle' \in [phase : {"idle", "listing", "working"}, online : BOOLEAN]
    BY <1>19 DEF Crash
  <2> QED
    BY <1>19, <2>1, <2>2, <2>3, <2>4 DEF Crash, TypeOK, disk
<1>20. CASE Environment
  <2>1. File(Newest) \in Files /\ NoSide \in Files
    BY NewFile DEF TypeOK, Files
  <2>2. ASSUME NEW p \in Paths, MachineWrites(p) \/ OfficeWritesTo(p) PROVE TypeInv'
    <3>1. local' \in [Paths -> Files] /\ remote' \in [Paths -> Files]
      BY <2>1, <2>2 DEF MachineWrites, OfficeWritesTo, TypeOK
    <3>2. spent' \in [Budgets -> Nat]
      BY <2>2 DEF MachineWrites, OfficeWritesTo, Spend, TypeOK, Budgets
    <3> QED
      BY <2>2, <3>1, <3>2
         DEF MachineWrites, OfficeWritesTo, TypeOK, Temps, circuit, control
  <2>3. ASSUME NEW p \in Paths, MachineOpens(p) \/ MachineCloses(p) PROVE TypeInv'
    <3>1. spent' \in [Budgets -> Nat]
      BY <2>3 DEF MachineOpens, MachineCloses, Spend, TypeOK, Budgets
    <3>2. locked' \subseteq Paths
      BY <2>3 DEF MachineOpens, MachineCloses, TypeOK
    <3> QED
      BY <2>3, <3>1, <3>2
         DEF MachineOpens, MachineCloses, TypeOK, Temps, disk, circuit, control
  <2>4. CASE ServerLost \/ ServerBack
    <3>1. spent' \in [Budgets -> Nat]
      BY <2>4 DEF ServerLost, ServerBack, Spend, TypeOK, Budgets
    <3> QED
      BY <2>4, <3>1 DEF ServerLost, ServerBack, TypeOK, Temps, disk, circuit, control
  <2> QED
    BY <1>20, <2>2, <2>3, <2>4 DEF Environment
<1>21. CASE UNCHANGED vars
  BY <1>21 DEF vars, TypeOK, Temps, disk, world, circuit, control
<1>22. ASSUME NEW p \in Paths, DecideConverge(p) PROVE TypeInv'
  BY <1>8, <1>22 DEF DecideConverge
<1>23. ASSUME NEW p \in Paths, Commit(p) PROVE TypeInv'
  BY <1>8, <1>23 DEF Commit
<1>24. ASSUME NEW p \in Paths, TransferBlocked(p) PROVE TypeInv'
  BY <1>9, <1>24 DEF TransferBlocked, TypeOK, world
<1> QED
  BY <1>1, <1>2, <1>3, <1>4, <1>5, <1>6, <1>7, <1>10, <1>11, <1>12, <1>13, <1>14,
     <1>15, <1>16, <1>17, <1>18, <1>19, <1>20, <1>21, <1>22, <1>23, <1>24
     DEF Next, Bridge, CycleStep, JobStep, Capture

LEMMA TypeInvariant == Spec => []TypeInv
BY TypeInit, TypeNext, PTL DEF Spec

(* Every variable holds what it is meant to hold. *)
THEOREM TypeCorrect == Spec => []TypeOK
BY TypeInvariant, PTL DEF TypeInv

-----------------------------------------------------------------------------
(* The probe.  Between cycles nothing is in flight; what is queued has not *)
(* begun; and while the breaker is half open, a probe not yet spent means  *)
(* that nothing is in flight, and a spent one that at most one path is.    *)

Probing ==
    /\ cycle.phase # "working" => InFlight = {}
    /\ queue \cap InFlight = {}
    /\ breaker = "half_open" => /\ ~probeUsed => InFlight = {}
                                /\ \A p, q \in InFlight : p = q

LEMMA Stays ==
    ASSUME job \in [Paths -> Jobs], NEW p \in Paths, job[p].pc # "none", NEW r,
           r.pc # "none", job' = [job EXCEPT ![p] = r]
    PROVE  InFlight' = InFlight
BY DEF InFlight

LEMMA Leaves ==
    ASSUME job \in [Paths -> Jobs], NEW p \in Paths, job[p].pc # "none",
           job' = [job EXCEPT ![p] = NoJob]
    PROVE  InFlight' = InFlight \ {p} /\ p \in InFlight
BY NoJobIsAJob DEF InFlight

(* The steps that only take a reconciliation further.                      *)
LEMMA FlightGoesOn ==
    ASSUME TypeInv, NEW p \in Paths,
           \/ StatLocal(p) \/ StatRemote(p) \/ DecideApply(p) \/ CopyStat(p)
           \/ CopyRead(p) \/ CopyRename(p) \/ Remove(p)
    PROVE  InFlight' = InFlight /\ UNCHANGED <<circuit, control>>
<1> USE DEF TypeInv
<1>0. job \in [Paths -> Jobs] /\ job[p] \in Jobs
  BY DEF TypeOK
<1>1. CASE StatLocal(p) \/ StatRemote(p)
  <2>1. PICK s \in Stats : \/ job' = [job EXCEPT ![p] = [job[p] EXCEPT
                                        !.seen = @ \cup {"local"}, !.loc = s]]
                           \/ job' = [job EXCEPT ![p] = [job[p] EXCEPT
                                        !.seen = @ \cup {"remote"}, !.rem = s]]
    <3>1. Stat(local[p]) \in Stats
      BY StatIsAStat DEF TypeOK
    <3>2. (IF reachable THEN Stat(remote[p]) ELSE NoSide) \in Stats
      BY StatIsAStat DEF TypeOK, Stats
    <3> QED
      BY <1>1, <3>1, <3>2, ZenonT(60) DEF StatLocal, StatRemote
  <2>2. job[p].pc = "stat"
    BY <1>1 DEF StatLocal, StatRemote
  <2>3. /\ [job[p] EXCEPT !.seen = @ \cup {"local"}, !.loc = s].pc = "stat"
        /\ [job[p] EXCEPT !.seen = @ \cup {"remote"}, !.rem = s].pc = "stat"
    BY <1>0, <2>2, JobSees
  <2>4. InFlight' = InFlight
    BY <1>0, <2>1, <2>2, <2>3, Stays
  <2> QED
    BY <1>1, <2>4, SMTT(40) DEF StatLocal, StatRemote
<1>2. CASE DecideApply(p)
  <2> DEFINE a == VerdictFor(p).action
             pc == IF a \in {"PUSH", "PULL"} THEN "copy" ELSE "remove"
             r == [job[p] EXCEPT !.action = a, !.pc = pc]
  <2>1. job' = [job EXCEPT ![p] = r] /\ job[p].pc # "none"
    BY <1>2 DEF DecideApply, Decided
  <2>2. r.pc # "none"
    BY <1>0 DEF Jobs
  <2> HIDE DEF r
  <2>3. InFlight' = InFlight
    BY <1>0, <2>1, <2>2, Stays
  <2> QED
    BY <1>2, <2>3 DEF DecideApply
<1>3. CASE CopyStat(p) \/ CopyRead(p) \/ CopyRename(p) \/ Remove(p)
  <2>1. job[p].pc # "none" /\ job'[p].pc # "none"
    BY <1>0, <1>3 DEF CopyStat, CopyRead, CopyRename, Remove, Jobs
  <2>2. \A q \in Paths \ {p} : job'[q] = job[q]
    BY <1>0, <1>3 DEF CopyStat, CopyRead, CopyRename, Remove
  <2>3. InFlight' = InFlight
    BY <2>1, <2>2 DEF InFlight
  <2> QED
    BY <1>3, <2>3 DEF CopyStat, CopyRead, CopyRename, Remove
<1> QED
  BY <1>1, <1>2, <1>3

(* The steps that end a reconciliation.                                    *)
LEMMA FlightEnds ==
    ASSUME TypeInv, NEW p \in Paths,
           \/ DecideInert(p) /\ UNCHANGED circuit
           \/ DecideConverge(p) /\ OnSuccess
           \/ Commit(p) /\ OnSuccess
           \/ Blocked(p) /\ Fail(p) /\ OnFailure
           \/ job[p].pc \in {"copy", "read", "rename", "remove"} /\ Fail(p) /\ OnFailure
    PROVE  InFlight' = InFlight \ {p} /\ p \in InFlight
<1>1. job \in [Paths -> Jobs]
  BY DEF TypeInv, TypeOK
<1>2. job[p].pc # "none"
  BY DEF DecideInert, DecideConverge, Decided, Commit, Blocked
<1>3. job' = [job EXCEPT ![p] = NoJob]
  BY DEF DecideInert, DecideConverge, Commit, Succeed, Fail
<1> QED
  BY <1>1, <1>2, <1>3, Leaves

LEMMA ProbeInit == Init => Probing
BY NoJobIsAJob DEF Init, Probing, InFlight

(* What keeps the invariant: no path enters, the probe and the queue stay  *)
(* as they are, the breaker does not become half open and the cycle goes on.*)
LEMMA ProbeKept ==
    ASSUME Probing, InFlight' \subseteq InFlight, queue' = queue,
           cycle'.phase = cycle.phase,
           breaker' = "half_open" => breaker = "half_open" /\ probeUsed' = probeUsed
    PROVE  Probing'
BY DEF Probing

LEMMA ProbeNext == TypeInv /\ Probing /\ [Next]_vars => Probing'
<1> SUFFICES ASSUME TypeInv, Probing, [Next]_vars PROVE Probing'
  OBVIOUS
<1>0. job \in [Paths -> Jobs]
  BY DEF TypeInv, TypeOK
<1>1. CASE StartCycle
  <2>1. InFlight' = InFlight /\ InFlight = {}
    BY <1>1 DEF StartCycle, Probing, InFlight
  <2> QED
    BY <1>1, <2>1 DEF StartCycle, Probing
<1>2. CASE ListPaths
  <2>1. InFlight' = InFlight /\ InFlight = {}
    BY <1>2 DEF ListPaths, Probing, InFlight
  <2> QED
    BY <1>2, <2>1 DEF ListPaths, Probing, circuit
<1>3. CASE EndCycle
  <2>1. InFlight' = InFlight /\ InFlight = {}
    BY <1>3 DEF EndCycle, InFlight
  <2> QED
    BY <1>3, <2>1 DEF EndCycle, Probing, circuit
<1>4. ASSUME NEW p \in Paths, Begin(p) PROVE Probing'
  <2>1. p \in queue /\ queue' = queue \ {p} /\ UNCHANGED <<breaker, cycle>>
    BY <1>4 DEF Begin
  <2>2. InFlight' \subseteq InFlight \cup {p}
    BY <1>0, <1>4 DEF Begin, InFlight
  <2>3. CASE ~BreakerLetsIn
    <3>1. InFlight' = InFlight
      BY <1>4, <2>3 DEF Begin, InFlight
    <3>2. breaker = "half_open" => probeUsed /\ probeUsed'
      BY <1>4, <2>3 DEF Begin, SpendProbe, BreakerLetsIn
    <3> QED
      BY <1>4, <2>1, <3>1, <3>2 DEF Probing, Begin
  <2>4. CASE BreakerLetsIn
    <3>1. breaker = "half_open" => InFlight = {} /\ probeUsed'
      BY <1>4, <2>4 DEF Begin, SpendProbe, BreakerLetsIn, Probing
    <3>2. cycle.phase = "working"
      BY <1>4 DEF Begin
    <3> QED
      BY <2>1, <2>2, <3>1, <3>2 DEF Probing
  <2> QED
    BY <2>3, <2>4
<1>5. ASSUME NEW p \in Paths, \/ StatLocal(p) \/ StatRemote(p) \/ DecideApply(p)
                              \/ CopyStat(p) \/ CopyRead(p) \/ CopyRename(p) \/ Remove(p)
      PROVE  Probing'
  <2>1. InFlight' = InFlight /\ UNCHANGED <<circuit, control>>
    BY <1>5, FlightGoesOn
  <2> QED
    BY <2>1, ProbeKept DEF circuit, control
<1>6. ASSUME NEW p \in Paths, DecideInert(p) PROVE Probing'
  <2>1. UNCHANGED <<circuit, control>>
    BY <1>6 DEF DecideInert
  <2>2. InFlight' \subseteq InFlight
    BY <1>6, <2>1, FlightEnds
  <2> QED
    BY <2>1, <2>2, ProbeKept DEF circuit, control
<1>7. ASSUME NEW p \in Paths, DecideConverge(p) \/ Commit(p) PROVE Probing'
  <2>1. OnSuccess /\ UNCHANGED control
    BY <1>7 DEF DecideConverge, Commit, Succeed
  <2>2. InFlight' \subseteq InFlight
    BY <1>7, <2>1, FlightEnds
  <2> QED
    BY <2>1, <2>2, ProbeKept DEF OnSuccess, control
<1>8. ASSUME NEW p \in Paths, Fail(p), UNCHANGED control,
             Blocked(p) \/ job[p].pc \in {"copy", "read", "rename", "remove"}
      PROVE  Probing'
  <2>1. OnFailure
    BY <1>8 DEF Fail
  <2>2. InFlight' \subseteq InFlight
    BY <1>8, <2>1, FlightEnds
  <2>3. breaker' = "half_open" => breaker = "half_open" /\ probeUsed' = probeUsed
    BY <2>1 DEF OnFailure
  <2> QED
    BY <1>8, <2>2, <2>3, ProbeKept DEF control
<1>9. ASSUME NEW p \in Paths, TransferBlocked(p) PROVE Probing'
  BY <1>8, <1>9 DEF TransferBlocked
<1>10. ASSUME NEW p \in Paths, TransferFails(p) PROVE Probing'
  <2>1. CASE Fail(p)
    BY <1>8, <1>10, <2>1 DEF TransferFails
  <2>2. CASE job' = [job EXCEPT ![p].pc = "copy", ![p].temp = NoSide] /\ UNCHANGED circuit
    <3>1. job[p].pc # "none" /\ job'[p].pc # "none" /\ \A q \in Paths \ {p} : job'[q] = job[q]
      BY <1>0, <1>10, <2>2 DEF TransferFails, Jobs
    <3>2. InFlight' = InFlight
      BY <3>1 DEF InFlight
    <3> QED
      BY <1>10, <2>2, <3>2, ProbeKept DEF TransferFails, circuit, control
  <2> QED
    BY <1>10, <2>1, <2>2 DEF TransferFails
<1>11. ASSUME UNCHANGED <<job, cycle, queue, breaker, probeUsed>> PROVE Probing'
  BY <1>11 DEF Probing, InFlight
<1>12. CASE FullResync
  <2>1. InFlight' = InFlight
    BY <1>12 DEF FullResync, InFlight
  <2> QED
    BY <1>12, <2>1, ProbeKept DEF FullResync
<1>13. CASE Crash
  <2>1. InFlight' = {}
    BY <1>13, NoJobIsAJob DEF Crash, InFlight
  <2> QED
    BY <1>13, <2>1 DEF Crash, Probing
<1>14. CASE Capture \/ Tick \/ Pause \/ Resume \/ Environment \/ UNCHANGED vars
  BY <1>11, <1>14
     DEF Capture, RunCapture, Tick, Pause, Resume, Environment, MachineWrites,
         OfficeWritesTo, MachineOpens, MachineCloses, ServerLost, ServerBack,
         vars, circuit, control
<1> QED
  BY <1>1, <1>2, <1>3, <1>4, <1>5, <1>6, <1>7, <1>9, <1>10, <1>12, <1>13, <1>14
     DEF Next, Bridge, CycleStep, JobStep, Operator

LEMMA ProbeInvariant == Spec => [](TypeInv /\ Probing)
<1>1. Init => TypeInv /\ Probing
  BY TypeInit, ProbeInit
<1>2. (TypeInv /\ Probing) /\ [Next]_vars => (TypeInv /\ Probing)'
  BY TypeNext, ProbeNext
<1> QED
  BY <1>1, <1>2, PTL DEF Spec

(* A half-open breaker never has more than its one probe in flight.        *)
THEOREM OneProbeAtATime == Spec => []OneProbe
<1>1. Probing => OneProbe
  <2> SUFFICES ASSUME Probing, breaker = "half_open" PROVE Cardinality(InFlight) <= 1
    BY DEF OneProbe
  <2>1. CASE InFlight = {}
    BY <2>1, FS_EmptySet
  <2>2. ASSUME NEW p \in InFlight PROVE Cardinality(InFlight) <= 1
    <3>1. InFlight = {p}
      BY <2>2 DEF Probing
    <3>2. Cardinality({p}) = 1
      BY FS_Singleton
    <3> QED
      BY <3>1, <3>2
  <2> QED
    BY <2>1, <2>2
<1> QED
  BY <1>1, ProbeInvariant, PTL

-----------------------------------------------------------------------------
(* The refinement.  Every step of the share is one of the breaker's, with  *)
(* attempts standing for the reconciliations in flight.                    *)

LEMMA FlightsAreCounted ==
    /\ IsFiniteSet(InFlight) /\ Cardinality(InFlight) \in Nat
    /\ \A p \in InFlight : /\ Cardinality(InFlight) > 0
                           /\ Cardinality(InFlight \ {p}) = Cardinality(InFlight) - 1
    /\ \A p : p \notin InFlight =>
                Cardinality(InFlight \cup {p}) = Cardinality(InFlight) + 1
    /\ InFlight = {} => Cardinality(InFlight) = 0
<1>1. IsFiniteSet(InFlight)
  BY ShareAssumption, FS_Subset DEF InFlight
<1>2. Cardinality(InFlight) \in Nat
  BY <1>1, FS_CardinalityType
<1>3. ASSUME NEW p \in InFlight
      PROVE  /\ Cardinality(InFlight) > 0
             /\ Cardinality(InFlight \ {p}) = Cardinality(InFlight) - 1
  <2>1. Cardinality(InFlight) # 0
    BY <1>1, FS_EmptySet
  <2>2. Cardinality(InFlight \ {p}) = Cardinality(InFlight) - 1
    BY <1>1, FS_RemoveElement
  <2> QED
    BY <1>2, <2>1, <2>2
<1>4. ASSUME NEW p, p \notin InFlight
      PROVE  Cardinality(InFlight \cup {p}) = Cardinality(InFlight) + 1
  BY <1>1, <1>4, FS_AddElement
<1>5. InFlight = {} => Cardinality(InFlight) = 0
  BY FS_EmptySet
<1> QED
  BY <1>1, <1>2, <1>3, <1>4, <1>5

LEMMA BreakerInit == Init => Breaker!BInit
<1> SUFFICES ASSUME Init PROVE Breaker!BInit
  OBVIOUS
<1>1. InFlight = {}
  BY NoJobIsAJob DEF Init, InFlight
<1> QED
  BY <1>1, FlightsAreCounted DEF Init, Breaker!BInit, Breaker!Initial

LEMMA BreakerNext == TypeInv /\ Probing /\ [Next]_vars => [Breaker!BNext]_(Breaker!bvars)
<1> SUFFICES ASSUME TypeInv, Probing, [Next]_vars PROVE Breaker!BNext \/ UNCHANGED Breaker!bvars
  OBVIOUS
<1>0. job \in [Paths -> Jobs]
  BY DEF TypeInv, TypeOK
<1>1. ASSUME InFlight' = InFlight, UNCHANGED <<breaker, failures, cooldown>>
      PROVE  UNCHANGED Breaker!bvars
  BY <1>1 DEF Breaker!bvars
<1>2. CASE StartCycle
  <2>1. InFlight' = InFlight /\ InFlight = {}
    BY <1>2 DEF StartCycle, Probing, InFlight
  <2>2. CASE breaker = "open"
    <3>1. Breaker!Probe
      BY <1>2, <2>1, <2>2, FlightsAreCounted DEF StartCycle, Breaker!Probe
    <3> QED
      BY <3>1 DEF Breaker!BNext
  <2>3. CASE breaker # "open"
    BY <1>1, <1>2, <2>1, <2>3 DEF StartCycle
  <2> QED
    BY <2>2, <2>3
<1>3. ASSUME NEW p \in Paths, Begin(p) PROVE Breaker!BNext \/ UNCHANGED Breaker!bvars
  <2>1. CASE UNCHANGED job
    <3>1. InFlight' = InFlight
      BY <2>1 DEF InFlight
    <3> QED
      BY <1>1, <1>3, <3>1 DEF Begin
  <2>2. CASE BreakerLetsIn /\ job' = [job EXCEPT ![p] = [NoJob EXCEPT !.pc = "stat",
                                                                      !.record = index[p]]]
    <3>1. job[p].pc = "none" /\ p \notin InFlight
      BY <1>3 DEF Begin, Probing, InFlight
    <3>2. job'[p].pc # "none" /\ \A q \in Paths \ {p} : job'[q] = job[q]
      BY <1>0, <2>2 DEF NoJob
    <3>3. InFlight' = InFlight \cup {p}
      BY <3>1, <3>2 DEF InFlight
    <3>4. Cardinality(InFlight') = Cardinality(InFlight) + 1
      BY <3>1, <3>3, FlightsAreCounted
    <3>5. breaker = "closed" \/ (breaker = "half_open" /\ Cardinality(InFlight) = 0)
      BY <2>2, FlightsAreCounted DEF BreakerLetsIn, Probing
    <3>6. Breaker!Attempt
      BY <1>3, <3>4, <3>5 DEF Begin, Breaker!Attempt
    <3> QED
      BY <3>6 DEF Breaker!BNext
  <2> QED
    BY <1>3, <2>1, <2>2 DEF Begin
<1>4. ASSUME NEW p \in Paths, \/ StatLocal(p) \/ StatRemote(p) \/ DecideApply(p)
                              \/ CopyStat(p) \/ CopyRead(p) \/ CopyRename(p) \/ Remove(p)
      PROVE  UNCHANGED Breaker!bvars
  BY <1>1, <1>4, FlightGoesOn DEF circuit
<1>5. ASSUME NEW p \in InFlight, InFlight' = InFlight \ {p}
      PROVE  /\ Cardinality(InFlight) > 0
             /\ Cardinality(InFlight') = Cardinality(InFlight) - 1
  BY <1>5, FlightsAreCounted
<1>6. ASSUME NEW p \in Paths, DecideInert(p) PROVE Breaker!BNext
  <2>1. InFlight' = InFlight \ {p} /\ p \in InFlight /\ UNCHANGED circuit
    BY <1>6, FlightEnds DEF DecideInert
  <2>2. Breaker!NoOutcome
    BY <1>5, <2>1 DEF Breaker!NoOutcome, circuit
  <2> QED
    BY <2>2 DEF Breaker!BNext
<1>7. ASSUME NEW p \in Paths, DecideConverge(p) \/ Commit(p) PROVE Breaker!BNext
  <2>1. OnSuccess
    BY <1>7 DEF DecideConverge, Commit, Succeed
  <2>2. InFlight' = InFlight \ {p} /\ p \in InFlight
    BY <1>7, <2>1, FlightEnds
  <2>3. Breaker!Success
    BY <1>5, <2>1, <2>2 DEF Breaker!Success, OnSuccess
  <2> QED
    BY <2>3 DEF Breaker!BNext
<1>8. ASSUME NEW p \in Paths, Fail(p),
             Blocked(p) \/ job[p].pc \in {"copy", "read", "rename", "remove"}
      PROVE  Breaker!BNext
  <2>1. OnFailure
    BY <1>8 DEF Fail
  <2>2. InFlight' = InFlight \ {p} /\ p \in InFlight
    BY <1>8, <2>1, FlightEnds
  <2>3. failures \in 0..BreakerThreshold /\ BreakerThreshold \in Nat
    BY BreakerAssumption DEF TypeInv, TypeOK
  <2>4. /\ failures' \in {failures, failures + 1} /\ failures' <= BreakerThreshold
        /\ failures' = failures => failures = BreakerThreshold
        /\ failures' >= BreakerThreshold <=> failures' = BreakerThreshold
    BY <2>1, <2>3 DEF OnFailure
  <2>5. Breaker!Failure
    BY <1>5, <2>1, <2>2, <2>4 DEF Breaker!Failure, OnFailure
  <2> QED
    BY <2>5 DEF Breaker!BNext
<1>9. ASSUME NEW p \in Paths, TransferBlocked(p) PROVE Breaker!BNext
  BY <1>8, <1>9 DEF TransferBlocked
<1>10. ASSUME NEW p \in Paths, TransferFails(p) PROVE Breaker!BNext \/ UNCHANGED Breaker!bvars
  <2>1. CASE Fail(p)
    BY <1>8, <1>10, <2>1 DEF TransferFails
  <2>2. CASE job' = [job EXCEPT ![p].pc = "copy", ![p].temp = NoSide] /\ UNCHANGED circuit
    <3>1. job[p].pc # "none" /\ job'[p].pc # "none" /\ \A q \in Paths \ {p} : job'[q] = job[q]
      BY <1>0, <1>10, <2>2 DEF TransferFails, Jobs
    <3>2. InFlight' = InFlight
      BY <3>1 DEF InFlight
    <3> QED
      BY <1>1, <2>2, <3>2 DEF circuit
  <2> QED
    BY <1>10, <2>1, <2>2 DEF TransferFails
<1>11. CASE Tick
  <2>1. InFlight' = InFlight /\ UNCHANGED <<breaker, failures>>
    BY <1>11 DEF Tick, InFlight
  <2>2. cooldown \in Nat
    BY BreakerAssumption DEF TypeInv, TypeOK
  <2>3. CASE cooldown = 0
    <3>1. UNCHANGED cooldown
      BY <1>11, <2>3 DEF Tick, Less
    <3> QED
      BY <1>1, <2>1, <3>1
  <2>4. CASE cooldown # 0
    <3>1. Breaker!TimePasses
      BY <1>11, <2>1, <2>2, <2>4 DEF Tick, Less, Breaker!TimePasses
    <3> QED
      BY <3>1 DEF Breaker!BNext
  <2> QED
    BY <2>3, <2>4
<1>12. CASE FullResync
  <2>1. InFlight' = InFlight
    BY <1>12 DEF FullResync, InFlight
  <2>2. Breaker!Clear
    BY <1>12, <2>1 DEF FullResync, Breaker!Clear
  <2> QED
    BY <2>2 DEF Breaker!BNext
<1>13. CASE Crash
  <2>1. InFlight' = {}
    BY <1>13, NoJobIsAJob DEF Crash, InFlight
  <2>2. Cardinality(InFlight') = 0
    BY <2>1, FS_EmptySet
  <2>3. Breaker!Restart
    BY <1>13, <2>2 DEF Crash, Breaker!Restart
  <2> QED
    BY <2>3 DEF Breaker!BNext
<1>14. ASSUME UNCHANGED <<job, breaker, failures, cooldown>> PROVE UNCHANGED Breaker!bvars
  BY <1>1, <1>14 DEF InFlight
<1>15. CASE ListPaths \/ EndCycle \/ Capture \/ Pause \/ Resume \/ Environment \/ UNCHANGED vars
  BY <1>14, <1>15
     DEF ListPaths, EndCycle, Capture, RunCapture, Pause, Resume, Environment,
         MachineWrites, OfficeWritesTo, MachineOpens, MachineCloses, ServerLost,
         ServerBack, vars, circuit
<1> QED
  BY <1>2, <1>3, <1>4, <1>6, <1>7, <1>9, <1>10, <1>11, <1>12, <1>13, <1>15
     DEF Next, Bridge, CycleStep, JobStep, Operator

(* The share implements the circuit breaker it documents.                  *)
THEOREM ShareImplementsBreaker == Spec => BreakerImplements
<1>1. Init => Breaker!BInit
  BY BreakerInit
<1>2. (TypeInv /\ Probing) /\ [Next]_vars => [Breaker!BNext]_(Breaker!bvars)
  BY BreakerNext
<1> QED
  BY <1>1, <1>2, ProbeInvariant, PTL DEF Spec, BreakerImplements, Breaker!BSpec


-----------------------------------------------------------------------------
(* Two copies that look alike are alike.  Every stamp is older than the    *)
(* next save's; and a copy about to be renamed whose stamp its source      *)
(* still carries holds the data its source still holds.                    *)

Origin(p) == IF job[p].action = "PUSH" THEN local[p] ELSE remote[p]
Older(file) == file # NoSide => file.mtime < Newest
AlikeInv ==
    /\ \A p \in Paths : Older(local[p]) /\ Older(remote[p])
    /\ \A p \in Paths : job[p].pc \in {"read", "rename"} => job[p].temp.mtime < Newest
    /\ \A p \in Paths : (/\ job[p].pc = "rename" /\ Origin(p) # NoSide
                         /\ Origin(p).mtime = job[p].temp.mtime)
                          => Origin(p).data = job[p].temp.data
    /\ NoSilentDivergence

LEMMA NewestIsNat ==
    ASSUME TypeInv
    PROVE  spent.edit \in Nat /\ Newest \in Nat
BY ShareAssumption DEF TypeInv, TypeOK, Budgets, Newest

LEMMA AlikeInit == Init => AlikeInv
<1> SUFFICES ASSUME Init PROVE AlikeInv
  OBVIOUS
<1>1. PICK version \in [Paths -> (1..FirstVersions) \cup {NoSide}] :
        /\ local = [p \in Paths |-> IF version[p] = NoSide THEN NoSide
                                    ELSE File(version[p])]
        /\ remote = local
  BY DEF Init
<1>2. Newest = FirstVersions + 1 /\ FirstVersions \in Nat
  BY ShareAssumption DEF Init, Newest, Budgets
<1>3. \A p \in Paths : Older(local[p])
  BY <1>1, <1>2 DEF Older, File
<1>4. \A p \in Paths : job[p].pc = "none"
  BY NoJobIsAJob DEF Init
<1> QED
  BY <1>1, <1>3, <1>4 DEF AlikeInv, NoSilentDivergence

(* What keeps it: nothing is saved, no side changes, and whatever happens  *)
(* to a job does not bring it to where it holds a copy.                    *)
LEMMA AlikeKept ==
    ASSUME AlikeInv, UNCHANGED disk, spent'.edit = spent.edit,
           \A q \in Paths : job'[q] = job[q] \/ job'[q].pc \notin {"read", "rename"}
    PROVE  AlikeInv'
<1>1. Newest' = Newest
  BY DEF Newest
<1> QED
  BY <1>1 DEF AlikeInv, Older, Origin, NoSilentDivergence, disk

LEMMA AlikeNext == TypeInv /\ AlikeInv /\ [Next]_vars => AlikeInv'
<1> SUFFICES ASSUME TypeInv, AlikeInv, [Next]_vars PROVE AlikeInv'
  OBVIOUS
<1>0. /\ job \in [Paths -> Jobs] /\ \A p \in Paths : job[p] \in Jobs
      /\ local \in [Paths -> Files] /\ remote \in [Paths -> Files]
      /\ spent \in [Budgets -> Nat]
  BY DEF TypeInv, TypeOK
<1>1. CASE StartCycle \/ ListPaths \/ EndCycle \/ Tick \/ Resume \/ UNCHANGED vars
  BY <1>1, AlikeKept DEF StartCycle, ListPaths, EndCycle, Tick, Resume, world, vars
<1>2. CASE Capture
  BY <1>2, AlikeKept DEF Capture, RunCapture, world
<1>3. ASSUME NEW b \in Budgets \ {"edit"}, Spend(b) PROVE spent'.edit = spent.edit
  BY <1>0, <1>3 DEF Spend, Budgets
<1>4. CASE Pause \/ FullResync
  <2>1. spent'.edit = spent.edit /\ UNCHANGED <<disk, job>>
    BY <1>3, <1>4 DEF Pause, FullResync, Budgets
  <2> QED
    BY <2>1, AlikeKept
<1>5. CASE Crash
  <2>1. spent'.edit = spent.edit /\ UNCHANGED disk /\ \A q \in Paths : job'[q].pc = "none"
    BY <1>3, <1>5, NoJobIsAJob DEF Crash, Budgets
  <2> QED
    BY <2>1, AlikeKept
<1>6. ASSUME NEW p \in Paths, \/ MachineOpens(p) \/ MachineCloses(p)
                              \/ ServerLost \/ ServerBack
      PROVE  AlikeInv'
  <2>1. spent'.edit = spent.edit /\ UNCHANGED <<disk, job>>
    BY <1>3, <1>6 DEF MachineOpens, MachineCloses, ServerLost, ServerBack, Budgets
  <2> QED
    BY <2>1, AlikeKept
<1>7. CASE ServerLost \/ ServerBack
  <2>1. spent'.edit = spent.edit /\ UNCHANGED <<disk, job>>
    BY <1>3, <1>7 DEF ServerLost, ServerBack, Budgets
  <2> QED
    BY <2>1, AlikeKept
<1>8. ASSUME NEW p \in Paths, Begin(p) \/ StatLocal(p) \/ StatRemote(p) PROVE AlikeInv'
  <2>1. UNCHANGED <<disk, spent>> /\ \A q \in Paths \ {p} : job'[q] = job[q]
    BY <1>0, <1>8 DEF Begin, StatLocal, StatRemote, world
  <2>2. job'[p] = job[p] \/ job'[p].pc = "stat"
    <3>1. CASE Begin(p)
      BY <1>0, <3>1 DEF Begin, NoJob
    <3>2. CASE StatLocal(p)
      BY <1>0, <3>2 DEF StatLocal, Jobs
    <3>3. CASE StatRemote(p)
      BY <1>0, <3>3 DEF StatRemote, Jobs
    <3> QED
      BY <1>8, <3>1, <3>2, <3>3
  <2> QED
    BY <2>1, <2>2, AlikeKept
<1>9. ASSUME NEW p \in Paths, job' = [job EXCEPT ![p] = NoJob], UNCHANGED disk,
             spent'.edit = spent.edit
      PROVE  AlikeInv'
  <2>1. \A q \in Paths : job'[q] = job[q] \/ job'[q].pc = "none"
    BY <1>0, <1>9, NoJobIsAJob
  <2> QED
    BY <1>9, <2>1, AlikeKept
<1>10. ASSUME NEW p \in Paths, \/ DecideInert(p) \/ DecideConverge(p) \/ Commit(p)
                               \/ TransferBlocked(p)
       PROVE  AlikeInv'
  BY <1>9, <1>10 DEF DecideInert, DecideConverge, Commit, TransferBlocked, Succeed, Fail, world
<1>11. ASSUME NEW p \in Paths, DecideApply(p) PROVE AlikeInv'
  <2>1. UNCHANGED <<disk, spent>> /\ \A q \in Paths \ {p} : job'[q] = job[q]
    BY <1>0, <1>11 DEF DecideApply, world
  <2>2. job'[p].pc \in {"copy", "remove"}
    BY <1>0, <1>11 DEF DecideApply, Jobs
  <2> QED
    BY <2>1, <2>2, AlikeKept
<1>12. ASSUME NEW p \in Paths, TransferFails(p) PROVE AlikeInv'
  <2>1. spent'.edit = spent.edit /\ UNCHANGED disk
    BY <1>3, <1>12 DEF TransferFails, Budgets
  <2>2. CASE Fail(p)
    BY <1>9, <2>1, <2>2 DEF Fail
  <2>3. CASE job' = [job EXCEPT ![p].pc = "copy", ![p].temp = NoSide]
    <3>1. job'[p].pc = "copy" /\ \A q \in Paths \ {p} : job'[q] = job[q]
      BY <1>0, <2>3 DEF Jobs
    <3> QED
      BY <2>1, <3>1, AlikeKept
  <2> QED
    BY <1>12, <2>2, <2>3 DEF TransferFails
<1>13. ASSUME NEW p \in Paths, CopyStat(p) PROVE AlikeInv'
  <2>1. UNCHANGED <<disk, spent>> /\ Newest' = Newest /\ \A q \in Paths \ {p} : job'[q] = job[q]
    BY <1>0, <1>13 DEF CopyStat, world, Newest
  <2>2. job'[p].pc = "read" /\ job'[p].temp = Source(p) /\ Source(p) \in {local[p], remote[p]}
        /\ Source(p) # NoSide
    BY <1>0, <1>13 DEF CopyStat, Jobs, Source
  <2>3. job'[p].temp.mtime < Newest
    BY <2>2 DEF AlikeInv, Older
  <2> QED
    BY <2>1, <2>2, <2>3 DEF AlikeInv, Older, Origin, NoSilentDivergence, disk
<1>14. ASSUME NEW p \in Paths, CopyRead(p) PROVE AlikeInv'
  <2>1. UNCHANGED <<disk, spent>> /\ Newest' = Newest /\ \A q \in Paths \ {p} : job'[q] = job[q]
    BY <1>0, <1>14 DEF CopyRead, world, Newest
  <2>2. job[p].temp \in Saves /\ Source(p) = Origin(p) /\ Origin(p) # NoSide
    BY <1>14 DEF CopyRead, TypeInv, Temps, Source, Origin
  <2>3. /\ job'[p].pc = "rename" /\ job'[p].action = job[p].action
        /\ job'[p].temp.mtime = job[p].temp.mtime /\ job'[p].temp.data = Origin(p).data
    BY <1>0, <1>14, <2>2 DEF CopyRead, Jobs, Saves
  <2>4. Origin(p)' = Origin(p) /\ job[p].temp.mtime < Newest
    BY <1>14, <2>1, <2>3 DEF Origin, disk, CopyRead, AlikeInv
  <2> QED
    BY <2>1, <2>3, <2>4 DEF AlikeInv, Older, Origin, NoSilentDivergence, disk
<1>15. ASSUME NEW p \in Paths, CopyRename(p) PROVE AlikeInv'
  <2>1. /\ Newest' = Newest
        /\ \A q \in Paths \ {p} : job'[q] = job[q] /\ local'[q] = local[q] /\ remote'[q] = remote[q]
        /\ job'[p].pc = "commit"
    BY <1>0, <1>15 DEF CopyRename, world, Newest, Jobs
  <2>2. IF job[p].action = "PUSH" THEN local'[p] = Origin(p) /\ remote'[p] = job[p].temp
                                  ELSE remote'[p] = Origin(p) /\ local'[p] = job[p].temp
    BY <1>0, <1>15 DEF CopyRename, Origin
  <2>3. /\ job[p].temp.mtime < Newest /\ Older(Origin(p))
        /\ (Origin(p) # NoSide /\ Origin(p).mtime = job[p].temp.mtime)
              => Origin(p).data = job[p].temp.data
    BY <1>15 DEF CopyRename, AlikeInv, Origin
  <2>4. \A q \in Paths \ {p} : Origin(q)' = Origin(q)
    BY <2>1 DEF Origin
  <2>5. Older(local[p])' /\ Older(remote[p])'
    BY <2>1, <2>2, <2>3 DEF Older
  <2>6. (local'[p] # NoSide /\ remote'[p] # NoSide /\ local'[p].mtime = remote'[p].mtime)
           => local'[p].data = remote'[p].data
    BY <2>2, <2>3
  <2> QED
    BY <2>1, <2>4, <2>5, <2>6 DEF AlikeInv, Older, NoSilentDivergence
<1>16. ASSUME NEW p \in Paths, Remove(p) PROVE AlikeInv'
  <2>1. /\ Newest' = Newest
        /\ \A q \in Paths \ {p} : job'[q] = job[q] /\ local'[q] = local[q] /\ remote'[q] = remote[q]
        /\ job'[p].pc = "commit"
    BY <1>0, <1>16 DEF Remove, world, Newest, Jobs
  <2>2. local'[p] \in {local[p], NoSide} /\ remote'[p] \in {remote[p], NoSide}
    BY <1>0, <1>16 DEF Remove
  <2>3. \A q \in Paths \ {p} : Origin(q)' = Origin(q)
    BY <2>1 DEF Origin
  <2> QED
    BY <2>1, <2>2, <2>3 DEF AlikeInv, Older, NoSilentDivergence
<1>17. ASSUME NEW p \in Paths, MachineWrites(p) \/ OfficeWritesTo(p) PROVE AlikeInv'
  <2>1. Newest \in Nat /\ Newest' = Newest + 1 /\ UNCHANGED job
    <3>1. spent.edit \in Nat /\ Newest \in Nat
      BY NewestIsNat
    <3>2. spent' = [spent EXCEPT !["edit"] = @ + 1] /\ UNCHANGED job
      BY <1>17 DEF MachineWrites, OfficeWritesTo, Spend
    <3>3. spent'.edit = spent.edit + 1
      BY <3>2 DEF TypeInv, TypeOK, Budgets
    <3> QED
      BY <3>1, <3>2, <3>3, ShareAssumption DEF Newest
  <2>2. \A q \in Paths : /\ Older(local[q]) /\ Older(remote[q])
                         /\ local[q] \in Files /\ remote[q] \in Files
    BY <1>0 DEF AlikeInv
  <2>3. /\ \A q \in Paths \ {p} : local'[q] = local[q] /\ remote'[q] = remote[q]
        /\ \/ local'[p] = local[p] /\ remote'[p] \in {File(Newest), NoSide}
           \/ remote'[p] = remote[p] /\ local'[p] \in {File(Newest), NoSide}
    BY <1>0, <1>17 DEF MachineWrites, OfficeWritesTo
  <2>4. \A q \in Paths : job[q].pc \in {"read", "rename"} =>
            job[q].temp \in Saves /\ job[q].temp.mtime < Newest
    BY DEF AlikeInv, TypeInv, Temps
  <2>5. \/ File(Newest).mtime = Newest /\ File(Newest).data = Newest /\ File(Newest) # NoSide
        \/ File(Newest) = NoSide
    BY DEF File
  <2>6. \A q \in Paths : Older(local[q])' /\ Older(remote[q])'
    BY <2>1, <2>2, <2>3, <2>5 DEF Older, Files, Saves
  <2>7. NoSilentDivergence'
    BY <2>1, <2>2, <2>3, <2>5 DEF NoSilentDivergence, AlikeInv, Older, Files, Saves
  <2>8. \A q \in Paths : Origin(q)' = Origin(q) \/ Origin(q)' \in {File(Newest), NoSide}
    BY <2>1, <2>3 DEF Origin
  <2>9. \A q \in Paths : (/\ job'[q].pc = "rename" /\ Origin(q)' # NoSide
                          /\ Origin(q)'.mtime = job'[q].temp.mtime)
                           => Origin(q)'.data = job'[q].temp.data
    BY <2>1, <2>4, <2>5, <2>8 DEF AlikeInv, Saves
  <2>10. \A q \in Paths : job'[q].pc \in {"read", "rename"} => job'[q].temp.mtime < Newest'
    BY <2>1, <2>4 DEF Saves
  <2> QED
    BY <2>6, <2>7, <2>9, <2>10 DEF AlikeInv
<1> QED
  BY <1>1, <1>2, <1>4, <1>5, <1>6, <1>7, <1>8, <1>10, <1>11, <1>12, <1>13, <1>14, <1>15,
     <1>16, <1>17
     DEF Next, Bridge, CycleStep, JobStep, Operator, Environment

(* What the orchestrator's base rows rest on: whatever is saved while a    *)
(* copy is under way, and wherever the process is killed, no two sides     *)
(* carry one stamp over different data.                                    *)
THEOREM LookAlikesAreAlike == Spec => []NoSilentDivergence
<1>1. AlikeInv => NoSilentDivergence
  BY DEF AlikeInv
<1> QED
  BY <1>1, AlikeInit, AlikeNext, TypeInvariant, PTL DEF Spec

-----------------------------------------------------------------------------
(* A cycle that began without the server destroys nothing.  The verdicts   *)
(* of such a cycle move nothing but from the server to the cache; and the  *)
(* jobs it works off are its own, as no cycle begins with any.             *)

Moving == {"copy", "read", "rename", "commit"}
WithoutServer == cycle.phase = "working" /\ ~cycle.online
OnlyPulls ==
    WithoutServer => \A p \in Paths : \/ job[p].pc \in {"none", "stat"}
                                      \/ job[p].pc \in Moving /\ job[p].action = "PULL"

LEMMA OfflineVerdict ==
    ASSUME NEW l, NEW r, NEW b, NEW c, c.serverOffline,
           Decide(l, r, b, c).action \in ServerMutating \cup LocalMutating
    PROVE  Decide(l, r, b, c).action = "PULL"
<1> DEFINE v == DecideCore(l, r, b, c)
<1>1. Decide(l, r, b, c) = ApplyAvailabilityOverrides(v, c)
  BY DEF Decide, Verdict, ServerMutating, LocalMutating
<1> HIDE DEF v
<1> QED
  BY <1>1 DEF ApplyAvailabilityOverrides, DeferForMachine, DeferForServer, Deferred,
              ServerMutating, LocalMutating, NeedsAReachableServer

(* What keeps it: a job ends, begins, or goes on with the action it has.   *)
LEMMA PullsKept ==
    ASSUME OnlyPulls, WithoutServer' => WithoutServer,
           \A q \in Paths : \/ job'[q] = job[q] \/ job'[q].pc \in {"none", "stat"}
                            \/ /\ job[q].pc \in Moving /\ job'[q].pc \in Moving
                               /\ job'[q].action = job[q].action
    PROVE  OnlyPulls'
BY DEF OnlyPulls, Moving

LEMMA PullsNext == TypeInv /\ Probing /\ OnlyPulls /\ [Next]_vars => OnlyPulls'
<1> SUFFICES ASSUME TypeInv, Probing, OnlyPulls, [Next]_vars PROVE OnlyPulls'
  OBVIOUS
<1>0. job \in [Paths -> Jobs] /\ \A p \in Paths : job[p] \in Jobs
  BY DEF TypeInv, TypeOK
<1>1. CASE StartCycle \/ EndCycle \/ Crash
  BY <1>1, <1>0 DEF StartCycle, EndCycle, Crash, TypeInv, TypeOK, OnlyPulls, WithoutServer
<1>2. CASE ListPaths
  <2>1. InFlight = {} /\ UNCHANGED job
    BY <1>2 DEF ListPaths, Probing
  <2> QED
    BY <2>1 DEF InFlight, OnlyPulls
<1>3. CASE Tick \/ Pause \/ Resume \/ FullResync \/ ServerLost \/ ServerBack \/ UNCHANGED vars
  BY <1>3, PullsKept DEF Tick, Pause, Resume, FullResync, ServerLost, ServerBack, vars,
                         control, WithoutServer
<1>4. CASE Capture
  BY <1>4, PullsKept DEF Capture, RunCapture, control, WithoutServer
<1>5. ASSUME NEW p \in Paths, \/ MachineWrites(p) \/ OfficeWritesTo(p)
                              \/ MachineOpens(p) \/ MachineCloses(p)
      PROVE  OnlyPulls'
  BY <1>5, PullsKept DEF MachineWrites, OfficeWritesTo, MachineOpens, MachineCloses, control,
                         WithoutServer
<1>6. ASSUME NEW p \in Paths, Begin(p) \/ StatLocal(p) \/ StatRemote(p) PROVE OnlyPulls'
  <2>1. UNCHANGED cycle /\ \A q \in Paths \ {p} : job'[q] = job[q]
    BY <1>0, <1>6 DEF Begin, StatLocal, StatRemote, control
  <2>2. CASE Begin(p)
    BY <1>0, <2>1, <2>2, PullsKept DEF Begin, NoJob, WithoutServer
  <2>3. CASE StatLocal(p)
    BY <1>0, <2>1, <2>3, PullsKept DEF StatLocal, Jobs, WithoutServer
  <2>4. CASE StatRemote(p)
    BY <1>0, <2>1, <2>4, PullsKept DEF StatRemote, Jobs, WithoutServer
  <2> QED
    BY <1>6, <2>2, <2>3, <2>4
<1>7. ASSUME NEW p \in Paths, job' = [job EXCEPT ![p] = NoJob], UNCHANGED control
      PROVE  OnlyPulls'
  <2>1. \A q \in Paths : job'[q] = job[q] \/ job'[q].pc = "none"
    BY <1>0, <1>7, NoJobIsAJob
  <2> QED
    BY <1>7, <2>1, PullsKept DEF control, WithoutServer
<1>8. ASSUME NEW p \in Paths, \/ DecideInert(p) \/ DecideConverge(p) \/ Commit(p)
                              \/ TransferBlocked(p)
      PROVE  OnlyPulls'
  BY <1>7, <1>8 DEF DecideInert, DecideConverge, Commit, TransferBlocked, Succeed, Fail
<1>9. ASSUME NEW p \in Paths, DecideApply(p) PROVE OnlyPulls'
  <2>1. UNCHANGED cycle /\ \A q \in Paths \ {p} : job'[q] = job[q]
    BY <1>0, <1>9 DEF DecideApply, control
  <2>2. /\ job'[p].action = VerdictFor(p).action
        /\ job'[p].pc = IF VerdictFor(p).action \in {"PUSH", "PULL"} THEN "copy" ELSE "remove"
    BY <1>0, <1>9 DEF DecideApply, Jobs
  <2>3. ASSUME WithoutServer PROVE VerdictFor(p).action = "PULL"
    <3>1. VerdictFor(p).action \in ServerMutating \cup LocalMutating
      BY <1>9 DEF DecideApply
    <3>2. DiffConfig(p).serverOffline
      BY <2>3 DEF DiffConfig, WithoutServer
    <3> QED
      BY <3>1, <3>2, OfflineVerdict DEF VerdictFor
  <2> QED
    BY <2>1, <2>2, <2>3 DEF OnlyPulls, WithoutServer, Moving
<1>10. ASSUME NEW p \in Paths, CopyStat(p) \/ CopyRead(p) \/ CopyRename(p) PROVE OnlyPulls'
  <2>1. UNCHANGED cycle /\ \A q \in Paths \ {p} : job'[q] = job[q]
    BY <1>0, <1>10 DEF CopyStat, CopyRead, CopyRename, control
  <2>2. job[p].pc \in Moving /\ job'[p].pc \in Moving /\ job'[p].action = job[p].action
    <3>1. CASE CopyStat(p)
      BY <1>0, <3>1 DEF CopyStat, Jobs, Moving
    <3>2. CASE CopyRead(p)
      BY <1>0, <3>2 DEF CopyRead, Jobs, Moving
    <3>3. CASE CopyRename(p)
      BY <1>0, <3>3 DEF CopyRename, Jobs, Moving
    <3> QED
      BY <1>10, <3>1, <3>2, <3>3
  <2> QED
    BY <2>1, <2>2, PullsKept DEF WithoutServer
<1>11. ASSUME NEW p \in Paths, Remove(p) PROVE OnlyPulls'
  <2>1. ~WithoutServer /\ UNCHANGED cycle
    BY <1>11 DEF Remove, OnlyPulls, Moving, control
  <2> QED
    BY <2>1 DEF OnlyPulls, WithoutServer
<1>12. ASSUME NEW p \in Paths, TransferFails(p) PROVE OnlyPulls'
  <2>1. CASE Fail(p)
    BY <1>7, <1>12, <2>1 DEF Fail, TransferFails
  <2>2. CASE job[p].pc \in {"read", "rename"} /\ job' = [job EXCEPT ![p].pc = "copy", ![p].temp = NoSide]
    <3>1. /\ job[p].pc \in Moving /\ job'[p].pc \in Moving /\ job'[p].action = job[p].action
          /\ \A q \in Paths \ {p} : job'[q] = job[q]
      BY <1>0, <2>2 DEF Jobs, Moving
    <3> QED
      BY <1>12, <3>1, PullsKept DEF TransferFails, control, WithoutServer
  <2> QED
    BY <1>12, <2>1, <2>2 DEF TransferFails
<1> QED
  BY <1>1, <1>2, <1>3, <1>4, <1>5, <1>6, <1>8, <1>9, <1>10, <1>11, <1>12
     DEF Next, Bridge, CycleStep, JobStep, Operator, Environment

(* A step of the bridge that touches a side at all is a rename or a        *)
(* removal; without the server it is the rename of a copy from it.         *)
LEMMA OfflineStep ==
    ASSUME TypeInv, OnlyPulls, [Next]_vars, WithoutServer, UsersIdle
    PROVE  remote' = remote /\ \A p \in Paths : local[p] # NoSide => local'[p] # NoSide
<1>0. /\ job \in [Paths -> Jobs] /\ local \in [Paths -> Files]
      /\ spent \in [Budgets -> Nat] /\ NoSide \notin Saves
  BY ShareAssumption DEF TypeInv, TypeOK, Saves
<1>1. ASSUME NEW p \in Paths, CopyRename(p)
      PROVE  remote' = remote /\ \A q \in Paths : local[q] # NoSide => local'[q] # NoSide
  <2>1. job[p].action = "PULL" /\ job[p].temp # NoSide
    BY <1>0, <1>1 DEF CopyRename, OnlyPulls, TypeInv, Temps
  <2> QED
    BY <1>0, <1>1, <2>1 DEF CopyRename
<1>2. ASSUME NEW p \in Paths PROVE ~Remove(p)
  BY DEF Remove, OnlyPulls, Moving
<1>3. ASSUME NEW p \in Paths PROVE ~MachineWrites(p) /\ ~OfficeWritesTo(p)
  BY <1>0 DEF MachineWrites, OfficeWritesTo, Spend, UsersIdle, Budgets
<1>4. CASE UNCHANGED disk
  BY <1>4 DEF disk
<1> QED
  BY <1>1, <1>2, <1>3, <1>4
     DEF Next, Bridge, CycleStep, JobStep, Operator, Environment, Capture, vars,
         StartCycle, ListPaths, EndCycle, Begin, StatLocal, StatRemote, DecideInert,
         DecideConverge, DecideApply, CopyStat, CopyRead, Commit, TransferBlocked,
         TransferFails, RunCapture, Tick, Pause, Resume, FullResync, Crash,
         MachineOpens, MachineCloses, ServerLost, ServerBack

(* The promise of a share whose server is away: writes wait, and deletions *)
(* are not believed, for the whole of the cycle.                           *)
THEOREM OfflineCyclesDestroyNothing == Spec => OfflineCycleDestroysNothing
<1>1. Init => OnlyPulls
  BY DEF Init, OnlyPulls, WithoutServer
<1>2. TypeInv /\ Probing /\ OnlyPulls /\ [Next]_vars =>
        [(cycle.phase = "working" /\ ~cycle.online /\ UsersIdle) =>
           /\ remote' = remote
           /\ \A p \in Paths : local[p] # NoSide => local'[p] # NoSide]_vars
  BY OfflineStep DEF WithoutServer
<1> QED
  BY <1>1, <1>2, PullsNext, ProbeInvariant, PTL DEF Spec, OfflineCycleDestroysNothing

-----------------------------------------------------------------------------
(* The machine's work, when nobody else writes to the server and the mount *)
(* goes between two cycles only.  The server is then never ahead of the    *)
(* machine, nor behind the base; and a base without a server copy is older *)
(* than what the machine has.  All is said by stamps, 0 where nothing is.  *)

Stamp(file) == IF file = NoSide THEN 0 ELSE file.mtime

Lags(l, r, b) ==
    /\ (l # 0 /\ r # 0) => r <= l
    /\ r # 0 => b <= r
    /\ l # 0 => b <= l
    /\ (l # 0 /\ b # 0 /\ r = 0) => b < l

(* A reconciliation j under way, of sides stamped l and r, in a cycle that *)
(* began with the server (on) or without it: what it has looked at, and    *)
(* what it does.                                                           *)
Looked(l, r, j, on) ==
    /\ "local" \in j.seen =>
         /\ Lags(Stamp(j.loc), r, Stamp(j.record.base))
         /\ (j.loc = NoSide /\ l # 0 /\ Stamp(j.record.base) # 0) => Stamp(j.record.base) < l
    /\ "local" \notin j.seen => j.loc = NoSide
    /\ "remote" \in j.seen => Stamp(j.rem) = r \/ (j.rem = NoSide /\ ~on)
Pushing(l, r, j) ==
    /\ j.action = "PUSH" /\ j.loc # NoSide
    /\ j.pc \in {"read", "rename"} => /\ Stamp(j.loc) <= j.temp.mtime
                                      /\ l # 0 => j.temp.mtime <= l
    /\ j.pc = "commit" => r # 0 /\ Stamp(j.loc) <= r
Pulling(r, j) ==
    /\ j.action = "PULL" /\ j.loc = NoSide
    /\ r # 0 /\ Stamp(j.rem) = r
    /\ j.pc \in {"read", "rename"} => j.temp.mtime = r
Removing(l, j) ==
    /\ j.action = "DELETE_REMOTE" /\ j.loc = NoSide /\ j.pc \in {"remove", "commit"}
    /\ (l # 0 /\ Stamp(j.record.base) # 0) => Stamp(j.record.base) < l
Acting(l, r, j) ==
    /\ j.pc = "remove" => j.action = "DELETE_REMOTE"
    /\ Pushing(l, r, j) \/ Pulling(r, j) \/ Removing(l, j)

InStep(l, r, b, j, on, new) ==
    /\ l < new /\ r < new /\ b < new /\ Lags(l, r, b)
    /\ j.pc # "none" =>
         /\ Stamp(j.record.base) < new /\ Lags(l, r, Stamp(j.record.base))
         /\ b \in {Stamp(j.record.base), 0}
         /\ Stamp(j.loc) < new
         /\ j.loc # NoSide => Stamp(j.record.base) <= Stamp(j.loc)
         /\ (j.loc # NoSide /\ l # 0) => Stamp(j.loc) <= l
         /\ j.pc = "stat" => Looked(l, r, j, on)
         /\ j.pc # "stat" => Acting(l, r, j)

PathInStep(p) == InStep(Stamp(local[p]), Stamp(remote[p]), Stamp(index[p].base), job[p],
                        cycle.online, Newest)
SeenInv ==
    /\ (cycle.phase # "idle" /\ cycle.online) => reachable
    /\ \A p \in Paths : PathInStep(p)

Alone == Mode # "server_wins" /\ ~OfficeWrites /\ ~MidCycleLoss

LEMMA Stamps ==
    /\ \A f \in Files : /\ Stamp(f) \in Nat
                        /\ Stamp(Stat(f)) = Stamp(f)
                        /\ Stamp(f) = 0 <=> f = NoSide
                        /\ f # NoSide => Stamp(f) = f.mtime
                        /\ Stat(f) = NoSide <=> f = NoSide
    /\ \A s \in Stats : /\ Stamp(s) \in Nat
                        /\ Stamp(s) = 0 <=> s = NoSide
                        /\ s # NoSide => Stamp(s) = s.mtime
    /\ Stamp(NoSide) = 0 /\ NoSide \in Stats
<1>1. \A f \in Saves : f # NoSide /\ f.mtime \in Nat \ {0} /\ Stat(f) # NoSide
                       /\ Stat(f).mtime = f.mtime
  BY ShareAssumption DEF Saves, Stat
<1> QED
  BY <1>1 DEF Stamp, Files, Stats, Stat

(* Of what lags so, only a file that is not there is ever fetched, and     *)
(* only what the machine does not have is removed from the server.         *)
LEMMA MachineLeads ==
    ASSUME NEW l \in Stats, NEW r \in Stats, NEW b \in Stats, NEW c,
           c.mode # "server_wins", c.tolerance \in Nat,
           (l # NoSide /\ r # NoSide) => r.mtime <= l.mtime,
           (r # NoSide /\ b # NoSide) => b.mtime <= r.mtime,
           (l # NoSide /\ b # NoSide /\ r = NoSide) => b.mtime < l.mtime \/ c.serverOffline,
           NEW a, a = Decide(l, r, b, c).action
    PROVE  /\ a # "DELETE_LOCAL"
           /\ a = "PULL" => l = NoSide /\ r # NoSide
           /\ a = "PUSH" => l # NoSide
           /\ a = "DELETE_REMOTE" => l = NoSide
           /\ a = "CONVERGE" => l # NoSide /\ r # NoSide /\ l.mtime = r.mtime
<1> DEFINE v == DecideCore(l, r, b, c)
           Right(x) == /\ x = "DELETE_LOCAL" => c.serverOffline
                       /\ x = "PULL" => l = NoSide /\ r # NoSide
                       /\ x = "PUSH" => l # NoSide
                       /\ x = "DELETE_REMOTE" => l = NoSide
                       /\ x = "CONVERGE" => l # NoSide /\ r # NoSide /\ l.mtime = r.mtime
<1>1. \A s \in Stats, t \in Stats : (s # NoSide /\ t # NoSide) =>
        /\ SameContent(s, t) <=> s.mtime = t.mtime
        /\ s.mtime \in Nat /\ t.mtime \in Nat
  BY DEF SameContent, Stats
<1>2. /\ ClassifySide(l, b) = "absent" <=> (b = NoSide /\ l = NoSide)
      /\ ClassifySide(l, b) = "created" <=> (b = NoSide /\ l # NoSide)
      /\ ClassifySide(l, b) = "deleted" <=> (b # NoSide /\ l = NoSide)
      /\ ClassifySide(l, b) = "unchanged" <=> (b # NoSide /\ l # NoSide /\ l.mtime = b.mtime)
      /\ ClassifySide(l, b) = "changed" <=> (b # NoSide /\ l # NoSide /\ l.mtime # b.mtime)
  BY <1>1 DEF ClassifySide
<1>3. /\ ClassifySide(r, b) = "absent" <=> (b = NoSide /\ r = NoSide)
      /\ ClassifySide(r, b) = "created" <=> (b = NoSide /\ r # NoSide)
      /\ ClassifySide(r, b) = "deleted" <=> (b # NoSide /\ r = NoSide)
      /\ ClassifySide(r, b) = "unchanged" <=> (b # NoSide /\ r # NoSide /\ r.mtime = b.mtime)
      /\ ClassifySide(r, b) = "changed" <=> (b # NoSide /\ r # NoSide /\ r.mtime # b.mtime)
  BY <1>1 DEF ClassifySide
<1>4. ASSUME l # NoSide \/ r # NoSide PROVE Right(ResolveConflict(l, r, c).action)
  <2>1. ResolveConflict(l, r, c).action = ConflictAction(Winner(l, r, c), l, r)
    BY DEF ResolveConflict
  <2>2. (l # NoSide /\ r # NoSide) => Winner(l, r, c) = "local"
    BY <1>1 DEF Winner
  <2>3. (l # NoSide /\ r = NoSide) => Winner(l, r, c) = "local"
    BY DEF Winner
  <2>4. Winner(l, r, c) \in {"local", "remote"}
    BY DEF Winner
  <2> QED
    BY <1>4, <2>1, <2>2, <2>3, <2>4 DEF ConflictAction
<1>6. Right(v.action)
  <2> USE <1>2, <1>3
  <2> DEFINE lc == ClassifySide(l, b)
             rc == ClassifySide(r, b)
  <2>1. CASE b = NoSide
    BY <1>1, <1>4, <2>1 DEF DecideCore, Verdict
  <2>2. CASE b # NoSide /\ l = NoSide
    BY <1>1, <1>4, <2>2 DEF DecideCore, Verdict
  <2>3. CASE b # NoSide /\ l # NoSide /\ r = NoSide
    BY <1>1, <1>4, <2>3 DEF DecideCore, Verdict
  <2>4. CASE b # NoSide /\ l # NoSide /\ r # NoSide
    BY <1>1, <1>4, <2>4 DEF DecideCore, Verdict
  <2> QED
    BY <2>1, <2>2, <2>3, <2>4
<1>7. Decide(l, r, b, c) = ApplyAvailabilityOverrides(v, c)
      \/ a \in {"EXCLUDE", "ERROR", "SKIP"}
  BY DEF Decide, Verdict
<1> HIDE DEF v
<1>8. ApplyAvailabilityOverrides(v, c).action = "DEFER"
      \/ /\ ApplyAvailabilityOverrides(v, c).action = v.action
         /\ v.action = "DELETE_LOCAL" => ~c.serverOffline
  BY DEF ApplyAvailabilityOverrides, DeferForMachine, DeferForServer, Deferred,
         NeedsAReachableServer
<1> QED
  BY <1>6, <1>7, <1>8

LEMMA JobStamps ==
    ASSUME NEW j \in Jobs
    PROVE  /\ j.loc \in Stats /\ j.rem \in Stats /\ j.record.base \in Stats
           /\ Stamp(j.loc) \in Nat /\ Stamp(j.rem) \in Nat /\ Stamp(j.record.base) \in Nat
<1>1. j.loc \in Stats /\ j.rem \in Stats /\ j.record.base \in Stats
  BY DEF Jobs, Rows
<1> QED
  BY <1>1, Stamps

(* Where nothing is under way only the three stamps count; and time passes. *)
LEMMA AtRest ==
    ASSUME NEW l \in Nat, NEW r \in Nat, NEW b \in Nat, NEW new \in Nat,
           l < new, r < new, b < new, Lags(l, r, b), NEW j, j.pc = "none", NEW on
    PROVE  InStep(l, r, b, j, on, new)
BY DEF InStep

LEMMA StaysInStep ==
    ASSUME NEW l \in Nat, NEW r \in Nat, NEW b \in Nat, NEW new \in Nat, NEW j \in Jobs,
           NEW on, InStep(l, r, b, j, on, new), NEW new2 \in Nat, new <= new2
    PROVE  InStep(l, r, b, j, on, new2)
BY JobStamps DEF InStep

(* The steps of a reconciliation, one lemma each. *)
LEMMA LooksAtTheMachine ==
    ASSUME NEW l \in Nat, NEW r \in Nat, NEW b \in Nat, NEW new \in Nat, NEW j \in Jobs,
           NEW on, InStep(l, r, b, j, on, new), j.pc = "stat", NEW s \in Stats, Stamp(s) = l
    PROVE  InStep(l, r, b, [j EXCEPT !.seen = @ \cup {"local"}, !.loc = s], on, new)
<1> DEFINE k == [j EXCEPT !.seen = @ \cup {"local"}, !.loc = s]
<1>1. /\ k.pc = "stat" /\ k.record = j.record /\ k.rem = j.rem /\ k.loc = s
      /\ k.seen = j.seen \cup {"local"}
  BY DEF Jobs
<1>2. Stamp(s) = 0 <=> s = NoSide
  BY Stamps
<1> HIDE DEF k
<1> QED
  BY <1>1, <1>2, JobStamps DEF InStep, Looked, Lags

LEMMA LooksAtTheServer ==
    ASSUME NEW l \in Nat, NEW r \in Nat, NEW b \in Nat, NEW new \in Nat, NEW j \in Jobs,
           NEW on, InStep(l, r, b, j, on, new), j.pc = "stat", NEW s \in Stats,
           Stamp(s) = r \/ (s = NoSide /\ ~on)
    PROVE  InStep(l, r, b, [j EXCEPT !.seen = @ \cup {"remote"}, !.rem = s], on, new)
<1> DEFINE k == [j EXCEPT !.seen = @ \cup {"remote"}, !.rem = s]
<1>1. /\ k.pc = "stat" /\ k.record = j.record /\ k.rem = s /\ k.loc = j.loc
      /\ k.seen = j.seen \cup {"remote"}
  BY DEF Jobs
<1> HIDE DEF k
<1> QED
  BY <1>1 DEF InStep, Looked

LEMMA Starts ==
    ASSUME NEW l \in Nat, NEW r \in Nat, NEW b \in Nat, NEW new \in Nat, NEW j \in Jobs,
           NEW on, InStep(l, r, b, j, on, new), j.pc = "stat", "local" \in j.seen,
           NEW a, NEW pc, pc = IF a \in {"PUSH", "PULL"} THEN "copy" ELSE "remove",
           a \in {"PUSH", "PULL", "DELETE_REMOTE"},
           a = "PULL" => j.loc = NoSide /\ j.rem # NoSide /\ Stamp(j.rem) = r,
           a = "PUSH" => j.loc # NoSide,
           a = "DELETE_REMOTE" => j.loc = NoSide
    PROVE  InStep(l, r, b, [j EXCEPT !.action = a, !.pc = pc], on, new)
<1> DEFINE k == [j EXCEPT !.action = a, !.pc = pc]
<1>1. /\ k.pc = pc /\ k.record = j.record /\ k.rem = j.rem /\ k.loc = j.loc
      /\ k.action = a
  BY DEF Jobs
<1>2. r = 0 => a # "PULL"
  BY JobStamps, Stamps
<1>3. (j.loc = NoSide /\ l # 0 /\ Stamp(j.record.base) # 0) => Stamp(j.record.base) < l
  BY DEF InStep, Looked
<1> HIDE DEF k
<1>4. Acting(l, r, k) /\ k.pc \in {"copy", "remove"}
  BY <1>1, <1>2, <1>3 DEF Acting, Pushing, Pulling, Removing
<1>5. InStep(l, r, b, k, on, new)
  BY <1>1, <1>4 DEF InStep
<1> QED
  BY <1>5 DEF k

LEMMA Copies ==
    ASSUME NEW l \in Nat, NEW r \in Nat, NEW b \in Nat, NEW new \in Nat, NEW j \in Jobs,
           NEW on, InStep(l, r, b, j, on, new), j.pc \in {"copy", "read", "rename"},
           NEW k \in Jobs, k.pc \in {"copy", "read", "rename"},
           k.record = j.record, k.loc = j.loc, k.rem = j.rem, k.action = j.action,
           k.pc # "copy" => k.temp.mtime = IF j.action = "PUSH" THEN l ELSE r
    PROVE  (j.action = "PUSH" /\ l = 0) \/ InStep(l, r, b, k, on, new)
<1>1. Acting(l, r, j)
  BY DEF InStep
<1>2. Acting(l, r, k) \/ (j.action = "PUSH" /\ l = 0)
  BY <1>1, JobStamps DEF Acting, Pushing, Pulling, Removing, InStep
<1> QED
  BY <1>2 DEF InStep

(* A copy renamed or a removal done.                                       *)
LEMMA Pushes ==
    ASSUME NEW l \in Nat, NEW r \in Nat, NEW b \in Nat, NEW new \in Nat, NEW j \in Jobs,
           NEW on, InStep(l, r, b, j, on, new), j.pc = "rename", j.action = "PUSH",
           j.temp \in Saves, j.temp.mtime < new,
           NEW k \in Jobs, k.pc = "commit",
           k.record = j.record, k.loc = j.loc, k.rem = j.rem, k.action = j.action
    PROVE  InStep(l, j.temp.mtime, b, k, on, new)
<1> DEFINE t == j.temp.mtime
           d == Stamp(j.record.base)
<1>1. Pushing(l, r, j)
  BY DEF InStep, Acting, Pulling, Removing
<1>2. t \in Nat \ {0} /\ Stamp(j.loc) <= t /\ j.loc # NoSide /\ (l # 0 => t <= l)
  BY <1>1 DEF Pushing, Saves
<1>3. Lags(l, r, d) /\ d <= Stamp(j.loc) /\ b \in {d, 0} /\ d \in Nat /\ Stamp(j.loc) \in Nat
  BY <1>2, JobStamps DEF InStep
<1> HIDE DEF t, d
<1>4. Lags(l, t, d) /\ Lags(l, t, b)
  BY <1>2, <1>3 DEF Lags
<1>5. Acting(l, t, k)
  BY <1>2 DEF Acting, Pushing
<1> QED
  BY <1>4, <1>5 DEF InStep, t, d

LEMMA Pulls ==
    ASSUME NEW l \in Nat, NEW r \in Nat, NEW b \in Nat, NEW new \in Nat, NEW j \in Jobs,
           NEW on, InStep(l, r, b, j, on, new), j.pc = "rename", j.action # "PUSH",
           NEW k \in Jobs, k.pc = "commit",
           k.record = j.record, k.loc = j.loc, k.rem = j.rem, k.action = j.action
    PROVE  j.temp.mtime = r /\ InStep(r, r, b, k, on, new)
<1> DEFINE d == Stamp(j.record.base)
<1>1. Pulling(r, j) /\ j.temp.mtime = r /\ j.loc = NoSide /\ r # 0
  BY DEF InStep, Acting, Pushing, Pulling, Removing
<1>2. Lags(l, r, d) /\ b \in {d, 0} /\ d \in Nat /\ d <= r
  BY <1>1, JobStamps DEF InStep, Lags
<1>3. Lags(r, r, d) /\ Lags(r, r, b) /\ Acting(r, r, k)
  BY <1>1, <1>2 DEF Lags, Acting, Pulling
<1> QED
  BY <1>1, <1>3 DEF InStep

LEMMA Removes ==
    ASSUME NEW l \in Nat, NEW r \in Nat, NEW b \in Nat, NEW new \in Nat, NEW j \in Jobs,
           NEW on, InStep(l, r, b, j, on, new), j.pc = "remove",
           NEW k \in Jobs, k.pc = "commit",
           k.record = j.record, k.loc = j.loc, k.rem = j.rem, k.action = j.action
    PROVE  j.action = "DELETE_REMOTE" /\ InStep(l, 0, b, k, on, new)
<1> DEFINE d == Stamp(j.record.base)
<1>1. Removing(l, j) /\ j.action = "DELETE_REMOTE" /\ j.loc = NoSide
  BY DEF InStep, Acting, Pushing, Pulling, Removing
<1>2. Lags(l, r, d) /\ b \in {d, 0} /\ d \in Nat
  BY <1>1, JobStamps DEF InStep, Lags
<1>3. Lags(l, 0, d) /\ Lags(l, 0, b) /\ Acting(l, 0, k)
  BY <1>1, <1>2 DEF Lags, Acting, Removing
<1> QED
  BY <1>1, <1>3 DEF InStep

(* What a commit takes as the base.                                        *)
LEMMA Commits ==
    ASSUME NEW l \in Nat, NEW r \in Nat, NEW b \in Nat, NEW new \in Nat, NEW j \in Jobs,
           NEW on, InStep(l, r, b, j, on, new), j.pc = "commit",
           NEW s, s = CASE j.action = "PULL" -> j.rem
                        [] j.action = "PUSH" -> j.loc
                        [] j.action = "CONVERGE" -> j.loc
                        [] OTHER -> NoSide
    PROVE  Stamp(s) < new /\ Lags(l, r, Stamp(s)) /\ Stamp(s) \in Nat
<1>1. /\ Lags(l, r, Stamp(j.record.base)) /\ r < new /\ Stamp(j.loc) < new
      /\ (j.loc # NoSide /\ l # 0) => Stamp(j.loc) <= l
  BY DEF InStep
<1>2. CASE Pushing(l, r, j)
  <2>1. s = j.loc /\ j.loc # NoSide /\ Stamp(j.loc) <= r /\ r # 0
    BY <1>2 DEF Pushing
  <2> QED
    BY <1>1, <2>1, JobStamps DEF Lags
<1>3. CASE Pulling(r, j)
  <2>1. s = j.rem /\ Stamp(j.rem) = r /\ r # 0
    BY <1>3 DEF Pulling
  <2> QED
    BY <1>1, <2>1, JobStamps DEF Lags
<1>4. CASE Removing(l, j)
  <2>1. s = NoSide
    BY <1>4 DEF Removing
  <2>2. Stamp(s) = 0
    BY <2>1, Stamps
  <2> QED
    BY <1>1, <2>2, JobStamps DEF Lags
<1> QED
  BY <1>2, <1>3, <1>4 DEF InStep, Acting

(* A save on the machine, newer than all there is, or a removal there.     *)
LEMMA MachineSaves ==
    ASSUME NEW l \in Nat, NEW r \in Nat, NEW b \in Nat, NEW new \in Nat, NEW j \in Jobs,
           NEW on, InStep(l, r, b, j, on, new), NEW l2 \in {0, new},
           j.pc \in {"read", "rename"} => j.temp \in Saves /\ j.temp.mtime < new
    PROVE  InStep(l2, r, b, j, on, new + 1)
<1> DEFINE d == Stamp(j.record.base)
<1>1. l < new /\ r < new /\ b < new /\ Lags(l, r, b)
  BY DEF InStep
<1>2. l2 \in Nat /\ l2 < new + 1 /\ Lags(l2, r, b)
  BY <1>1 DEF Lags
<1>3. ASSUME j.pc # "none"
      PROVE  /\ d < new /\ Lags(l, r, d) /\ d \in Nat /\ Stamp(j.loc) \in Nat
             /\ Stamp(j.loc) < new
             /\ j.pc = "stat" => Looked(l, r, j, on)
             /\ j.pc # "stat" => Acting(l, r, j)
  BY <1>3, JobStamps DEF InStep
<1> HIDE DEF d
<1>4. ASSUME j.pc # "none" PROVE Lags(l2, r, d)
  BY <1>1, <1>3, <1>4 DEF Lags
<1>5. ASSUME j.pc = "stat" PROVE Looked(l2, r, j, on)
  BY <1>3, <1>5 DEF Looked, d
<1>6. ASSUME j.pc \notin {"none", "stat"} PROVE Acting(l2, r, j)
  BY <1>3, <1>6 DEF Acting, Pushing, Pulling, Removing, d, Saves
<1> QED
  BY <1>1, <1>2, <1>3, <1>4, <1>5, <1>6 DEF InStep, d

SeenTypes(p) ==
    /\ local[p] \in Files /\ remote[p] \in Files /\ index[p].base \in Stats
    /\ job[p] \in Jobs
    /\ Stamp(local[p]) \in Nat /\ Stamp(remote[p]) \in Nat /\ Stamp(index[p].base) \in Nat
LEMMA SeenTypesHold ==
    ASSUME TypeInv
    PROVE  \A p \in Paths : SeenTypes(p)
<1>1. \A p \in Paths : /\ local[p] \in Files /\ remote[p] \in Files
                       /\ index[p].base \in Stats /\ job[p] \in Jobs
  BY DEF TypeInv, TypeOK, Rows
<1> QED
  BY <1>1, Stamps DEF SeenTypes

LEMMA SeenInit == Init => SeenInv
<1> SUFFICES ASSUME Init PROVE SeenInv
  OBVIOUS
<1>0. TypeInv /\ AlikeInv
  BY TypeInit, AlikeInit
<1>1. \A p \in Paths : local[p] = remote[p] /\ index[p].base = Stat(local[p])
  BY DEF Init, Row
<1>2. \A p \in Paths : job[p].pc = "none"
  BY NoJobIsAJob DEF Init
<1>3. ASSUME NEW p \in Paths PROVE PathInStep(p)
  <2>1. SeenTypes(p) /\ Stamp(index[p].base) = Stamp(local[p])
    BY <1>0, <1>1, SeenTypesHold, Stamps DEF SeenTypes
  <2>2. Newest \in Nat /\ Stamp(local[p]) < Newest
    BY <1>0, NewestIsNat, NewFile DEF AlikeInv, Older, Stamp, TypeInv, TypeOK
  <2> QED
    BY <1>1, <1>2, <2>1, <2>2, AtRest DEF PathInStep, SeenTypes, Lags
<1> QED
  BY <1>3 DEF SeenInv, Init

(* A step of one path, in which nothing is saved and the cycle goes on.    *)
LEMMA OnePathMoves ==
    ASSUME TypeInv, SeenInv, NEW p \in Paths, spent'.edit = spent.edit,
           UNCHANGED <<cycle, reachable>>,
           \A q \in Paths \ {p} : /\ local'[q] = local[q] /\ remote'[q] = remote[q]
                                  /\ index'[q] = index[q] /\ job'[q] = job[q],
           InStep(Stamp(local'[p]), Stamp(remote'[p]), Stamp(index'[p].base), job'[p],
                  cycle.online, Newest)
    PROVE  SeenInv'
<1>1. Newest' = Newest /\ cycle'.online = cycle.online
  BY DEF Newest
<1>2. PathInStep(p)'
  BY <1>1 DEF PathInStep
<1>3. \A q \in Paths \ {p} : PathInStep(q)'
  BY <1>1 DEF PathInStep, SeenInv
<1> QED
  BY <1>2, <1>3 DEF SeenInv

(* Reconciliations as they were, or dropped; bases as they were, or none;  *)
(* perhaps a new cycle, which begins with the server it finds.             *)
LEMMA NothingMoves ==
    ASSUME TypeInv, SeenInv, spent'.edit = spent.edit, UNCHANGED disk,
           \A q \in Paths : /\ index'[q].base \in {index[q].base, NoSide}
                            /\ \/ job'[q].pc = "none"
                               \/ job'[q] = job[q] /\ cycle'.online = cycle.online,
           (cycle'.phase # "idle" /\ cycle'.online) => reachable'
    PROVE  SeenInv'
<1>1. Newest' = Newest /\ Newest \in Nat
  BY NewestIsNat DEF Newest
<1>2. ASSUME NEW q \in Paths PROVE PathInStep(q)'
  <2> DEFINE l == Stamp(local[q])
             r == Stamp(remote[q])
             b == Stamp(index[q].base)
             b2 == Stamp(index'[q].base)
  <2>1. SeenTypes(q) /\ InStep(l, r, b, job[q], cycle.online, Newest)
    BY <1>2, SeenTypesHold DEF SeenInv, PathInStep
  <2>2. l \in Nat /\ r \in Nat /\ b \in Nat /\ b2 \in {b, 0} /\ b2 \in Nat
    BY <2>1, Stamps DEF SeenTypes
  <2>3. l < Newest /\ r < Newest /\ b2 < Newest /\ Lags(l, r, b2)
    BY <2>1, <2>2, <1>1 DEF InStep, Lags
  <2> HIDE DEF l, r, b, b2
  <2>4. InStep(l, r, b2, job'[q], cycle'.online, Newest)
    <3>1. CASE job'[q].pc = "none"
      BY <1>1, <2>2, <2>3, <3>1 DEF InStep
    <3>2. CASE job'[q] = job[q] /\ cycle'.online = cycle.online
      BY <1>1, <2>1, <2>2, <2>3, <3>2 DEF InStep
    <3> QED
      BY <3>1, <3>2
  <2> QED
    BY <1>1, <2>4 DEF PathInStep, l, r, b2, disk
<1> QED
  BY <1>2 DEF SeenInv
LEMMA SeenNext ==
    ASSUME Alone
    PROVE  TypeInv /\ Probing /\ AlikeInv /\ SeenInv /\ [Next]_vars => SeenInv'
<1> SUFFICES ASSUME TypeInv, Probing, AlikeInv, SeenInv, [Next]_vars PROVE SeenInv'
  OBVIOUS
<1>0. /\ job \in [Paths -> Jobs] /\ index \in [Paths -> Rows]
      /\ local \in [Paths -> Files] /\ remote \in [Paths -> Files]
      /\ spent \in [Budgets -> Nat]
      /\ Newest \in Nat
  BY NewestIsNat DEF TypeInv, TypeOK
<1> DEFINE l(p) == Stamp(local[p])
           r(p) == Stamp(remote[p])
           b(p) == Stamp(index[p].base)
           on == cycle.online
<1>a. ASSUME NEW p \in Paths
      PROVE  /\ InStep(l(p), r(p), b(p), job[p], on, Newest)
             /\ l(p) \in Nat /\ r(p) \in Nat /\ b(p) \in Nat /\ job[p] \in Jobs
             /\ local[p] \in Files /\ remote[p] \in Files /\ SeenTypes(p)
  BY <1>a, SeenTypesHold DEF SeenInv, PathInStep, SeenTypes
<1>b. ASSUME NEW p \in Paths, job[p].pc # "none"
      PROVE  cycle.phase = "working" /\ (on => reachable)
  BY <1>b DEF Probing, InFlight, SeenInv
<1> HIDE DEF l, r, b, on
<1>c. ASSUME NEW x \in Budgets \ {"edit"}, Spend(x) PROVE spent'.edit = spent.edit
  BY <1>0, <1>c DEF Spend, Budgets
<1>1. CASE ListPaths \/ Resume \/ UNCHANGED vars
  <2>1. /\ spent'.edit = spent.edit /\ UNCHANGED <<disk, index, job, reachable>>
        /\ cycle'.online = cycle.online /\ (cycle'.phase # "idle" => cycle.phase # "idle")
    BY <1>1 DEF ListPaths, Resume, vars, world, control, TypeInv, TypeOK
  <2> QED
    BY <2>1, NothingMoves DEF SeenInv
<1>2. CASE StartCycle \/ EndCycle
  <2>1. /\ spent'.edit = spent.edit /\ UNCHANGED <<disk, index, job, reachable>>
        /\ cycle'.online => reachable
    BY <1>2 DEF StartCycle, EndCycle, world
  <2>2. \A q \in Paths : job[q].pc = "none"
    BY <1>2 DEF StartCycle, EndCycle, Probing, InFlight
  <2> QED
    BY <2>1, <2>2, NothingMoves
<1>3. CASE Capture
  <2>1. spent'.edit = spent.edit /\ UNCHANGED <<disk, index, job, reachable, cycle>>
    BY <1>3 DEF Capture, RunCapture, world, control
  <2> QED
    BY <2>1, NothingMoves DEF SeenInv
<1>4. CASE Tick
  <2>1. spent'.edit = spent.edit /\ UNCHANGED <<disk, job, reachable, cycle>>
    BY <1>4 DEF Tick, world, control
  <2>2. \A q \in Paths : index'[q].base = index[q].base
    BY <1>0, <1>4 DEF Tick, Rows
  <2> QED
    BY <2>1, <2>2, NothingMoves DEF SeenInv
<1>5. CASE Pause \/ FullResync
  <2>1. spent'.edit = spent.edit /\ UNCHANGED <<disk, job, reachable, cycle>>
    BY <1>5, <1>c DEF Pause, FullResync, Budgets
  <2>2. \A q \in Paths : index'[q].base \in {index[q].base, NoSide}
    BY <1>5 DEF Pause, FullResync, Row
  <2> QED
    BY <2>1, <2>2, NothingMoves DEF SeenInv
<1>6. CASE Crash
  <2>1. /\ spent'.edit = spent.edit /\ UNCHANGED <<disk, index>> /\ cycle'.phase = "idle"
        /\ \A q \in Paths : job'[q].pc = "none"
    BY <1>6, <1>c, NoJobIsAJob DEF Crash, Budgets
  <2> QED
    BY <2>1, NothingMoves
<1>7. ASSUME NEW p \in Paths, MachineOpens(p) \/ MachineCloses(p) PROVE SeenInv'
  <2>1. spent'.edit = spent.edit /\ UNCHANGED <<disk, index, job, reachable, cycle>>
    BY <1>7, <1>c DEF MachineOpens, MachineCloses, Budgets, control
  <2> QED
    BY <2>1, NothingMoves DEF SeenInv
<1>8. CASE ServerLost \/ ServerBack
  <2>1. spent'.edit = spent.edit /\ UNCHANGED <<disk, index, job, cycle>>
    BY <1>8, <1>c DEF ServerLost, ServerBack, Budgets, control
  <2>2. (cycle'.phase # "idle" /\ cycle'.online) => reachable'
    BY <1>8, <2>1 DEF ServerLost, ServerBack, Alone, SeenInv
  <2> QED
    BY <2>1, <2>2, NothingMoves
<1>9. ASSUME NEW p \in Paths, OfficeWritesTo(p) PROVE SeenInv'
  BY <1>9 DEF OfficeWritesTo, Alone
<1>10. ASSUME NEW p \in Paths, MachineWrites(p) PROVE SeenInv'
  <2>1. /\ UNCHANGED <<remote, index, job, cycle, reachable>>
        /\ \A q \in Paths \ {p} : local'[q] = local[q]
        /\ local'[p] \in {File(Newest), NoSide}
    BY <1>0, <1>10 DEF MachineWrites, control
  <2>2. Newest' = Newest + 1
    <3>1. spent' = [spent EXCEPT !["edit"] = @ + 1]
      BY <1>10 DEF MachineWrites, Spend
    <3>2. spent'.edit = spent.edit + 1
      BY <1>0, <3>1 DEF Budgets
    <3> QED
      BY <3>2, NewestIsNat, ShareAssumption DEF Newest
  <2>3. Stamp(local'[p]) \in {0, Newest}
    BY <1>0, <2>1 DEF Stamp, File
  <2>4. \A q \in Paths : job[q].pc \in {"read", "rename"} =>
            job[q].temp \in Saves /\ job[q].temp.mtime < Newest
    BY DEF AlikeInv, TypeInv, Temps
  <2>5. PathInStep(p)'
    <3>1. InStep(Stamp(local'[p]), r(p), b(p), job[p], on, Newest + 1)
      BY <1>0, <1>a, <2>3, <2>4, MachineSaves
    <3> QED
      BY <2>1, <2>2, <3>1 DEF PathInStep, r, b, on
  <2>6. ASSUME NEW q \in Paths \ {p} PROVE PathInStep(q)'
    <3>1. InStep(l(q), r(q), b(q), job[q], on, Newest + 1)
      BY <1>0, <1>a, StaysInStep
    <3> QED
      BY <2>1, <2>2, <3>1 DEF PathInStep, l, r, b, on
  <2> QED
    BY <2>1, <2>5, <2>6 DEF SeenInv
<1>11. ASSUME NEW p \in Paths, Begin(p) PROVE SeenInv'
  <2>1. UNCHANGED <<disk, index, spent, reachable, cycle>>
        /\ \A q \in Paths \ {p} : job'[q] = job[q]
    BY <1>0, <1>11 DEF Begin, world
  <2>2. CASE job' = job
    BY <2>1, <2>2, NothingMoves DEF SeenInv
  <2>3. CASE job' = [job EXCEPT ![p] = [NoJob EXCEPT !.pc = "stat", !.record = index[p]]]
    <3>1. /\ job'[p].pc = "stat" /\ job'[p].record = index[p] /\ job'[p].seen = {}
          /\ job'[p].loc = NoSide
      BY <1>0, <2>3 DEF NoJob
    <3>2. InStep(l(p), r(p), b(p), job'[p], on, Newest)
      BY <1>0, <1>a, <3>1, Stamps DEF InStep, Looked, b
    <3> QED
      BY <2>1, <3>2, OnePathMoves DEF l, r, b, on, disk
  <2> QED
    BY <1>11, <2>2, <2>3 DEF Begin
<1>12. ASSUME NEW p \in Paths, NEW k, job' = [job EXCEPT ![p] = k],
              UNCHANGED <<disk, index, spent, reachable, cycle>>,
              InStep(l(p), r(p), b(p), k, on, Newest)
       PROVE  SeenInv'
  BY <1>0, <1>12, OnePathMoves DEF l, r, b, on, disk
<1>13. ASSUME NEW p \in Paths, StatLocal(p) PROVE SeenInv'
  <2>1. /\ job' = [job EXCEPT ![p] = [job[p] EXCEPT !.seen = @ \cup {"local"},
                                                    !.loc = Stat(local[p])]]
        /\ UNCHANGED <<disk, index, spent, reachable, cycle>> /\ job[p].pc = "stat"
    BY <1>13 DEF StatLocal, world, control
  <2>2. Stat(local[p]) \in Stats /\ Stamp(Stat(local[p])) = l(p)
    BY <1>a, StatIsAStat, Stamps DEF l
  <2> QED
    BY <1>0, <1>a, <1>12, <2>1, <2>2, LooksAtTheMachine
<1>14. ASSUME NEW p \in Paths, StatRemote(p) PROVE SeenInv'
  <2> DEFINE s == IF reachable THEN Stat(remote[p]) ELSE NoSide
  <2>1. /\ job' = [job EXCEPT ![p] = [job[p] EXCEPT !.seen = @ \cup {"remote"}, !.rem = s]]
        /\ UNCHANGED <<disk, index, spent, reachable, cycle>> /\ job[p].pc = "stat"
    BY <1>14 DEF StatRemote, world, control
  <2>2. s \in Stats /\ (Stamp(s) = r(p) \/ (s = NoSide /\ ~on))
    BY <1>a, <1>b, <2>1, StatIsAStat, Stamps DEF r
  <2> HIDE DEF s
  <2> QED
    BY <1>0, <1>a, <1>12, <2>1, <2>2, LooksAtTheServer
<1>15. ASSUME NEW p \in Paths, Decided(p), NEW a, a = VerdictFor(p).action
       PROVE  /\ a # "DELETE_LOCAL"
              /\ a = "PULL" => job[p].loc = NoSide /\ job[p].rem # NoSide
                               /\ Stamp(job[p].rem) = r(p)
              /\ a = "PUSH" => job[p].loc # NoSide
              /\ a = "DELETE_REMOTE" => job[p].loc = NoSide
              /\ a = "CONVERGE" => job[p].loc # NoSide /\ Stamp(job[p].loc) = r(p) /\ r(p) # 0
  <2> DEFINE x == job[p].loc
             y == job[p].rem
             z == job[p].record.base
             c == DiffConfig(p)
  <2>1. c.mode # "server_wins" /\ c.tolerance \in Nat /\ (~on => c.serverOffline)
    BY ShareAssumption DEF DiffConfig, Alone, on
  <2>2. a = Decide(x, y, z, c).action
    BY <1>15 DEF VerdictFor
  <2>3. Looked(l(p), r(p), job[p], on) /\ r(p) \in Nat /\ job[p].seen = {"local", "remote"}
    BY <1>a, <1>15 DEF InStep, Decided
  <2>4. /\ Lags(Stamp(x), r(p), Stamp(z))
        /\ Stamp(y) = r(p) \/ (y = NoSide /\ ~on)
    BY <2>3 DEF Looked
  <2>5. x \in Stats /\ y \in Stats /\ z \in Stats
    BY <1>a, JobStamps
  <2>6. \A s \in Stats : /\ Stamp(s) \in Nat
                         /\ Stamp(s) = 0 <=> s = NoSide
                         /\ s # NoSide => Stamp(s) = s.mtime
    BY Stamps
  <2> HIDE DEF x, y, z, c
  <2>7. /\ (x # NoSide /\ y # NoSide) => y.mtime <= x.mtime
        /\ (y # NoSide /\ z # NoSide) => z.mtime <= y.mtime
        /\ (x # NoSide /\ z # NoSide /\ y = NoSide) => z.mtime < x.mtime \/ c.serverOffline
    BY <2>1, <2>3, <2>4, <2>5, <2>6 DEF Lags
  <2>8. /\ a # "DELETE_LOCAL"
        /\ a = "PULL" => x = NoSide /\ y # NoSide
        /\ a = "PUSH" => x # NoSide
        /\ a = "DELETE_REMOTE" => x = NoSide
        /\ a = "CONVERGE" => x # NoSide /\ y # NoSide /\ x.mtime = y.mtime
    BY <2>1, <2>2, <2>5, <2>7, MachineLeads
  <2>9. (a = "PULL" => Stamp(y) = r(p)) /\ (a = "CONVERGE" => Stamp(x) = r(p) /\ r(p) # 0)
    BY <2>4, <2>5, <2>6, <2>8
  <2> QED
    BY <2>8, <2>9 DEF x, y, z
<1>16. ASSUME NEW p \in Paths, DecideApply(p) PROVE SeenInv'
  <2> DEFINE a == VerdictFor(p).action
             pc == IF a \in {"PUSH", "PULL"} THEN "copy" ELSE "remove"
  <2>1. /\ job' = [job EXCEPT ![p] = [job[p] EXCEPT !.action = a, !.pc = pc]]
        /\ UNCHANGED <<disk, index, spent, reachable, cycle>>
        /\ a \in ServerMutating \cup LocalMutating /\ Decided(p)
    BY <1>16 DEF DecideApply, world, control
  <2>2. /\ a \in {"PUSH", "PULL", "DELETE_REMOTE"}
        /\ a = "PULL" => job[p].loc = NoSide /\ job[p].rem # NoSide
                         /\ Stamp(job[p].rem) = r(p)
        /\ a = "PUSH" => job[p].loc # NoSide
        /\ a = "DELETE_REMOTE" => job[p].loc = NoSide
    BY <1>15, <2>1 DEF ServerMutating, LocalMutating
  <2>3. job[p].pc = "stat" /\ "local" \in job[p].seen
    BY <2>1 DEF Decided
  <2> HIDE DEF a
  <2>4. InStep(l(p), r(p), b(p), [job[p] EXCEPT !.action = a, !.pc = pc], on, Newest)
    BY <1>0, <1>a, <2>2, <2>3, Starts
  <2> QED
    BY <1>12, <2>1, <2>4
<1>17. ASSUME NEW p \in Paths, CopyStat(p) \/ CopyRead(p)
       PROVE  SeenInv'
  <2>0. job[p] \in Jobs /\ job[p].pc \in {"copy", "read"} /\ "read" \in PCs /\ "rename" \in PCs
    BY <1>0, <1>17, PCNames DEF CopyStat, CopyRead
  <2>1. Source(p) # NoSide /\ Source(p) \in Files
        /\ Source(p) = IF job[p].action = "PUSH" THEN local[p] ELSE remote[p]
    BY <1>a, <1>17 DEF CopyStat, CopyRead, Source
  <2>2. PICK k : /\ k \in Jobs /\ k.pc \in {"read", "rename"}
                 /\ k.record = job[p].record /\ k.loc = job[p].loc /\ k.rem = job[p].rem
                 /\ k.action = job[p].action
                 /\ k.temp.mtime = IF k.pc = "read" THEN Source(p).mtime
                                   ELSE job[p].temp.mtime
                 /\ k.pc = "rename" => job[p].pc = "read"
                 /\ job' = [job EXCEPT ![p] = k]
    <3>1. CASE CopyStat(p)
      <4> DEFINE k == [job[p] EXCEPT !.pc = "read", !.temp = Source(p)]
      <4>1. k \in Jobs /\ k.pc = "read" /\ k.temp = Source(p)
        BY <2>0, <2>1 DEF Jobs
      <4>2. /\ k.record = job[p].record /\ k.loc = job[p].loc /\ k.rem = job[p].rem
            /\ k.action = job[p].action
        BY <2>0 DEF Jobs
      <4>3. job' = [job EXCEPT ![p] = k]
        BY <3>1 DEF CopyStat
      <4> HIDE DEF k
      <4> QED
        BY <4>1, <4>2, <4>3
    <3>2. CASE CopyRead(p)
      <4> DEFINE f == [job[p].temp EXCEPT !.data = Source(p).data]
                 k == [job[p] EXCEPT !.pc = "rename", !.temp = f]
      <4>0. job[p].temp \in Saves /\ Source(p) \in Saves
        BY <2>1, <3>2 DEF CopyRead, TypeInv, Temps, Files
      <4>1. f \in Files /\ f.mtime = job[p].temp.mtime
        BY <4>0 DEF Saves, Files
      <4> HIDE DEF f
      <4>2. k \in Jobs /\ k.pc = "rename" /\ k.temp = f
        BY <2>0, <4>1 DEF Jobs
      <4>3. /\ k.record = job[p].record /\ k.loc = job[p].loc /\ k.rem = job[p].rem
            /\ k.action = job[p].action
        BY <2>0 DEF Jobs
      <4>4. job' = [job EXCEPT ![p] = k] /\ job[p].pc = "read"
        BY <3>2 DEF CopyRead, f
      <4> HIDE DEF k
      <4> QED
        BY <4>1, <4>2, <4>3, <4>4
    <3> QED
      BY <1>17, <3>1, <3>2
  <2>3. UNCHANGED <<disk, index, spent, reachable, cycle>>
    BY <1>17 DEF CopyStat, CopyRead, world, control
  <2>4. k.pc = "read" => k.temp.mtime = IF job[p].action = "PUSH" THEN l(p) ELSE r(p)
    BY <2>1, <2>2, Stamps DEF l, r
  <2>5. CASE k.pc = "read"
    <3>1. ~(job[p].action = "PUSH" /\ l(p) = 0)
      BY <2>1, Stamps DEF l
    <3>2. InStep(l(p), r(p), b(p), k, on, Newest)
      BY <1>0, <1>a, <2>0, <2>2, <2>4, <2>5, <3>1, Copies
    <3> QED
      BY <1>12, <2>2, <2>3, <3>2
  <2>6. CASE k.pc = "rename"
    <3>1. job[p].pc = "read" /\ k.temp.mtime = job[p].temp.mtime
      BY <2>2, <2>6
    <3>2. InStep(l(p), r(p), b(p), k, on, Newest)
      BY <1>a, <2>2, <2>6, <3>1 DEF InStep, Acting, Pushing, Pulling, Removing
    <3> QED
      BY <1>12, <2>2, <2>3, <3>2
  <2> QED
    BY <2>2, <2>5, <2>6
<1>18. ASSUME NEW p \in Paths, CopyRename(p) \/ Remove(p) PROVE SeenInv'
  <2> DEFINE k == job'[p]
  <2>1. /\ k \in Jobs /\ k.pc = "commit" /\ k.record = job[p].record
        /\ k.loc = job[p].loc /\ k.rem = job[p].rem /\ k.action = job[p].action
    <3>1. CASE CopyRename(p)
      <4>1. k = [job[p] EXCEPT !.pc = "commit", !.temp = NoSide]
        BY <1>0, <3>1 DEF CopyRename
      <4>2. job[p] \in Jobs /\ "commit" \in PCs /\ NoSide \in Files
        BY <1>a, PCNames DEF Files
      <4>3. k \in Jobs /\ k.pc = "commit"
        BY <4>1, <4>2 DEF Jobs
      <4> QED
        BY <4>1, <4>2, <4>3 DEF Jobs
    <3>2. CASE Remove(p)
      <4>1. k = [job[p] EXCEPT !.pc = "commit"]
        BY <1>0, <3>2 DEF Remove
      <4> QED
        BY <1>a, <4>1, JobMoves, PCNames DEF Jobs
    <3> QED
      BY <1>18, <3>1, <3>2
  <2>2. /\ UNCHANGED <<index, spent, reachable, cycle>>
        /\ \A q \in Paths \ {p} : /\ local'[q] = local[q] /\ remote'[q] = remote[q]
                                  /\ job'[q] = job[q]
    BY <1>0, <1>18 DEF CopyRename, Remove, world, control
  <2>3. CASE CopyRename(p) /\ job[p].action = "PUSH"
    <3>1. /\ local' = local /\ remote'[p] = job[p].temp /\ job[p].pc = "rename"
          /\ job[p].temp \in Saves /\ job[p].temp.mtime < Newest
      BY <1>0, <2>3 DEF CopyRename, TypeInv, Temps, AlikeInv
    <3>2. InStep(l(p), job[p].temp.mtime, b(p), k, on, Newest)
      BY <1>0, <1>a, <2>1, <2>3, <3>1, Pushes
    <3>3. Stamp(remote'[p]) = job[p].temp.mtime
      BY <3>1, ShareAssumption DEF Saves, Stamp
    <3> QED
      BY <2>2, <3>1, <3>2, <3>3, OnePathMoves DEF l, b, on
  <2>4. CASE CopyRename(p) /\ job[p].action # "PUSH"
    <3>1. /\ remote' = remote /\ local'[p] = job[p].temp /\ job[p].pc = "rename"
          /\ job[p].temp \in Saves
      BY <1>0, <2>4 DEF CopyRename, TypeInv, Temps
    <3>2. job[p].temp.mtime = r(p) /\ InStep(r(p), r(p), b(p), k, on, Newest)
      <4> DEFINE j == job[p]
      <4>1. /\ InStep(l(p), r(p), b(p), j, on, Newest) /\ j \in Jobs /\ Newest \in Nat
            /\ l(p) \in Nat /\ r(p) \in Nat /\ b(p) \in Nat
            /\ j.pc = "rename" /\ j.action # "PUSH"
        BY <1>0, <1>a, <2>4, <3>1
      <4>2. /\ k \in Jobs /\ k.pc = "commit" /\ k.record = j.record
            /\ k.loc = j.loc /\ k.rem = j.rem /\ k.action = j.action
        BY <2>1
      <4> HIDE DEF j, k
      <4>3. j.temp.mtime = r(p) /\ InStep(r(p), r(p), b(p), k, on, Newest)
        BY <4>1, <4>2, Pulls
      <4> QED
        BY <4>3 DEF j
    <3>3. Stamp(local'[p]) = job[p].temp.mtime
      BY <3>1, ShareAssumption DEF Saves, Stamp
    <3> QED
      BY <2>2, <3>1, <3>2, <3>3, OnePathMoves DEF r, b, on
  <2>5. CASE Remove(p)
    <3>1. job[p].pc = "remove"
      BY <2>5 DEF Remove
    <3>2. job[p].action = "DELETE_REMOTE" /\ InStep(l(p), 0, b(p), k, on, Newest)
      BY <1>0, <1>a, <2>1, <3>1, Removes
    <3>3. local' = local /\ Stamp(remote'[p]) = 0
      BY <1>0, <2>5, <3>2, Stamps DEF Remove
    <3> QED
      BY <2>2, <3>2, <3>3, OnePathMoves DEF l, b, on
  <2> QED
    BY <1>18, <2>3, <2>4, <2>5
<1>19. ASSUME NEW p \in Paths, NEW row, index' = [index EXCEPT ![p] = row],
              job' = [job EXCEPT ![p] = NoJob], UNCHANGED <<disk, reachable, cycle>>,
              spent'.edit = spent.edit, Stamp(row.base) \in Nat,
              Stamp(row.base) < Newest, Lags(l(p), r(p), Stamp(row.base))
       PROVE  SeenInv'
  <2>1. /\ index'[p] = row /\ job'[p].pc = "none"
        /\ \A q \in Paths \ {p} : index'[q] = index[q] /\ job'[q] = job[q]
    BY <1>0, <1>19, NoJobIsAJob
  <2>2. l(p) < Newest /\ r(p) < Newest
    BY <1>a DEF InStep
  <2>3. InStep(l(p), r(p), Stamp(row.base), job'[p], on, Newest)
    BY <1>0, <1>a, <1>19, <2>1, <2>2, AtRest
  <2> QED
    BY <1>19, <2>1, <2>3, OnePathMoves DEF l, r, on, disk
<1>20. ASSUME NEW p \in Paths, job[p].pc # "none"
       PROVE  /\ Stamp(job[p].record.base) \in Nat
              /\ Stamp(job[p].record.base) < Newest
              /\ Lags(l(p), r(p), Stamp(job[p].record.base))
  BY <1>a, <1>20, JobStamps DEF InStep
<1>21. ASSUME NEW p \in Paths, DecideInert(p) PROVE SeenInv'
  <2>1. /\ index' = [index EXCEPT ![p] = Row(job[p].record.base, job[p].record.retries, 0)]
        /\ job' = [job EXCEPT ![p] = NoJob] /\ UNCHANGED <<disk, spent, reachable, cycle>>
        /\ job[p].pc # "none"
    BY <1>21 DEF DecideInert, Decided, world, control
  <2>2. Row(job[p].record.base, job[p].record.retries, 0).base = job[p].record.base
    BY DEF Row
  <2> QED
    BY <1>19, <1>20, <2>1, <2>2
<1>22. ASSUME NEW p \in Paths, job[p].pc # "none", Fail(p), spent'.edit = spent.edit,
              UNCHANGED <<disk, reachable, cycle>>
       PROVE  SeenInv'
  <2>1. PICK row : /\ index' = [index EXCEPT ![p] = row] /\ row.base = job[p].record.base
                   /\ job' = [job EXCEPT ![p] = NoJob]
    BY <1>22 DEF Fail, Row
  <2> QED
    BY <1>19, <1>20, <1>22, <2>1
<1>23. ASSUME NEW p \in Paths, TransferBlocked(p) PROVE SeenInv'
  BY <1>22, <1>23 DEF TransferBlocked, Blocked, world, control
<1>24. ASSUME NEW p \in Paths, TransferFails(p) PROVE SeenInv'
  <2>1. /\ spent'.edit = spent.edit /\ UNCHANGED <<disk, reachable, cycle>>
        /\ job[p].pc # "none"
    BY <1>24, <1>c DEF TransferFails, Budgets, control
  <2>2. CASE Fail(p)
    BY <1>22, <2>1, <2>2
  <2>3. CASE /\ job[p].pc \in {"read", "rename"} /\ index' = index
             /\ job' = [job EXCEPT ![p].pc = "copy", ![p].temp = NoSide]
    <3> DEFINE k == [job[p] EXCEPT !.pc = "copy", !.temp = NoSide]
    <3>1. job'[p] = k /\ \A q \in Paths \ {p} : job'[q] = job[q]
      BY <1>0, <2>3
    <3>2. k.pc = "copy" /\ k.record = job[p].record /\ k.loc = job[p].loc
          /\ k.rem = job[p].rem /\ k.action = job[p].action
      BY <1>a DEF Jobs
    <3> HIDE DEF k
    <3>3. InStep(l(p), r(p), b(p), k, on, Newest)
      BY <1>a, <2>3, <3>2 DEF InStep, Acting, Pushing, Pulling, Removing
    <3> QED
      BY <2>1, <2>3, <3>1, <3>3, OnePathMoves DEF l, r, b, on, disk
  <2> QED
    BY <1>24, <2>2, <2>3 DEF TransferFails
<1>25. ASSUME NEW p \in Paths, NEW a, Succeed(p, a), job[p].pc # "none",
              UNCHANGED <<disk, spent, reachable, cycle>>,
              NEW s, s = Survivor(p, a), Stamp(s) \in Nat, Stamp(s) < Newest,
              Lags(l(p), r(p), Stamp(s))
       PROVE  SeenInv'
  <2>1. /\ index' = [index EXCEPT ![p] = Row(s, 0, 0)] /\ Row(s, 0, 0).base = s
        /\ job' = [job EXCEPT ![p] = NoJob]
    BY <1>25 DEF Succeed, Row
  <2> QED
    BY <1>19, <1>25, <2>1
<1>26. ASSUME NEW p \in Paths, DecideConverge(p) PROVE SeenInv'
  <2>1. /\ Succeed(p, "CONVERGE") /\ job[p].pc # "none" /\ Decided(p)
        /\ UNCHANGED <<disk, spent, reachable, cycle>>
        /\ VerdictFor(p).action = "CONVERGE"
    BY <1>26 DEF DecideConverge, Decided, world, control
  <2> DEFINE s == job[p].loc
  <2>2. s # NoSide /\ Stamp(s) = r(p) /\ r(p) # 0
    BY <1>15, <2>1
  <2>3. Stamp(s) \in Nat /\ Stamp(s) < Newest /\ (l(p) # 0 => Stamp(s) <= l(p))
    BY <1>a, <2>1, <2>2, JobStamps DEF InStep
  <2>4. s = Survivor(p, "CONVERGE")
    BY DEF Survivor
  <2>5. Lags(l(p), r(p), Stamp(s))
    BY <1>a, <2>2, <2>3 DEF Lags
  <2> HIDE DEF s
  <2> QED
    BY <1>25, <2>1, <2>3, <2>4, <2>5
<1>27. ASSUME NEW p \in Paths, Commit(p) PROVE SeenInv'
  <2> DEFINE s == Survivor(p, job[p].action)
  <2>1. /\ Succeed(p, job[p].action) /\ job[p].pc = "commit"
        /\ UNCHANGED <<disk, spent, reachable, cycle>>
    BY <1>27 DEF Commit, world, control
  <2>2. s = CASE job[p].action = "PULL" -> job[p].rem
              [] job[p].action = "PUSH" -> job[p].loc
              [] job[p].action = "CONVERGE" -> job[p].loc
              [] OTHER -> NoSide
    BY DEF Survivor
  <2> HIDE DEF s
  <2>3. Stamp(s) < Newest /\ Lags(l(p), r(p), Stamp(s)) /\ Stamp(s) \in Nat
    BY <1>0, <1>a, <2>1, <2>2, Commits
  <2> QED
    BY <1>25, <2>1, <2>3 DEF s
<1> QED
  BY <1>1, <1>2, <1>3, <1>4, <1>5, <1>6, <1>7, <1>8, <1>9, <1>10, <1>11, <1>13, <1>14,
     <1>16, <1>17, <1>18, <1>21, <1>23, <1>24, <1>26, <1>27
     DEF Next, Bridge, CycleStep, JobStep, Operator, Environment

(* The only step of the bridge that replaces a machine's file renames a    *)
(* copy it fetches, and it looked for the file first and found none.       *)
LEMMA SeenStep == TypeInv /\ SeenInv /\ [Next]_vars => [KeepsSeenWork]_vars
<1> SUFFICES ASSUME TypeInv, SeenInv, Next, UsersIdle, NEW p \in Paths,
                    local[p] # NoSide, job[p].loc = Stat(local[p])
             PROVE  local'[p] = local[p]
  BY DEF KeepsSeenWork
<1>0. local \in [Paths -> Files] /\ spent \in [Budgets -> Nat] /\ job[p].loc # NoSide
  BY Stamps DEF TypeInv, TypeOK
<1>1. ASSUME NEW q \in Paths, CopyRename(q) PROVE local'[p] = local[p]
  <2>1. Acting(Stamp(local[q]), Stamp(remote[q]), job[q])
    BY <1>1 DEF CopyRename, SeenInv, PathInStep, InStep
  <2>2. job[q].action = "PUSH" \/ job[q].loc = NoSide
    BY <2>1 DEF Acting, Pushing, Pulling, Removing
  <2> QED
    BY <1>0, <1>1, <2>2 DEF CopyRename
<1>2. ASSUME NEW q \in Paths, Remove(q) PROVE local'[p] = local[p]
  <2>1. Acting(Stamp(local[q]), Stamp(remote[q]), job[q]) /\ job[q].pc = "remove"
    BY <1>2 DEF Remove, SeenInv, PathInStep, InStep
  <2> QED
    BY <1>2, <2>1 DEF Remove, Acting
<1>3. ASSUME NEW q \in Paths, MachineWrites(q) PROVE local'[p] = local[p]
  <2>1. spent' = [spent EXCEPT !["edit"] = @ + 1]
    BY <1>3 DEF MachineWrites, Spend
  <2>2. spent'.edit = spent.edit + 1 /\ spent.edit \in Nat
    BY <1>0, <2>1 DEF Budgets
  <2> QED
    BY <2>2 DEF UsersIdle
<1>4. ASSUME NEW q \in Paths, \/ Begin(q) \/ StatLocal(q) \/ StatRemote(q)
                              \/ DecideInert(q) \/ DecideConverge(q) \/ DecideApply(q)
                              \/ CopyStat(q) \/ CopyRead(q) \/ Commit(q)
                              \/ TransferBlocked(q) \/ TransferFails(q)
      PROVE  local' = local
  BY <1>4 DEF Begin, StatLocal, StatRemote, DecideInert, DecideConverge, DecideApply,
              CopyStat, CopyRead, Commit, TransferBlocked, TransferFails, disk
<1>5. ASSUME NEW q \in Paths, OfficeWritesTo(q) \/ MachineOpens(q) \/ MachineCloses(q)
      PROVE  local' = local
  BY <1>5 DEF OfficeWritesTo, MachineOpens, MachineCloses, disk
<1>6. CASE CycleStep \/ Capture \/ Tick \/ Operator \/ Crash \/ ServerLost \/ ServerBack
  BY <1>6 DEF CycleStep, StartCycle, ListPaths, EndCycle, Capture, RunCapture, Tick,
              Operator, Pause, Resume, FullResync, Crash, ServerLost, ServerBack, disk
<1> QED
  BY <1>1, <1>2, <1>3, <1>4, <1>5, <1>6 DEF Next, Bridge, JobStep, Environment

(* While the office leaves the server alone, the mount goes only between   *)
(* two cycles and the share does not prefer the server, no step of the     *)
(* bridge replaces or removes a machine's file that the reconciliation     *)
(* under way has looked at: copies torn by a save, retries, resyncs and    *)
(* restarts included, for every tolerance between the two clocks.          *)
THEOREM SeenWorkIsKept == ASSUME Alone PROVE Spec => [][KeepsSeenWork]_vars
<1>1. TypeInv /\ Probing /\ AlikeInv /\ SeenInv /\ [Next]_vars => SeenInv'
  BY SeenNext
<1> QED
  BY <1>1, TypeInvariant, ProbeInvariant, AlikeInit, AlikeNext, SeenInit, SeenStep, PTL
     DEF Spec
=============================================================================
