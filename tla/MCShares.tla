------------------------------ MODULE MCShares ------------------------------
(***************************************************************************)
(* The parts that keep a share going: its supervisor, the health of its    *)
(* mount, its failover to read-only.  They share no variable here, so one  *)
(* of them moves in a behaviour, focus, and the others stay as they began. *)
(* Failover has four beginnings: over one share that nobody edits, with    *)
(* the most changes of the world; over one that is deleted and made again; *)
(* over two that are edited once, with the fewest changes, in no time; and *)
(* over two that are edited, with nothing refused and no failover.         *)
(***************************************************************************)
EXTENDS Failover

CONSTANTS NoCall, Absent

\* what each of them is checked for, and how often the world does what it does to it
CONSTANTS Supervised, Calls, Instances, Prints, NoShare, NoInstance,
          MaxSupEdits, MaxPauses, MaxOutages, MaxSupFailures, MaxSupRestarts
CONSTANTS OfflineAfter, LastBackoff, Ticks, Attempts, MaxStarts, MaxMountOutages, MaxOwnerOps
CONSTANTS LastAttempt, MaxSaves, MaxFaults, MaxCuts
CONSTANTS Machines, Files, Piped, Spaced, Half, Word, MaxWire, MaxQueue, Burst, MaxOpens,
          MaxTroubles

VARIABLE focus   \* never changes

VARIABLES table, running, inst, call, supStopped, mounted, serverUp, overlapped,
          supEdits, pauses, outages, supFailures, supRestarts
VARIABLES state, failures, backoff, stopped, timers, tick, reconnect, attempt,
          kernelMounted, serverThere, abandoned, starts, mountOutages, ownerOps
VARIABLES source, there, destination, step, try, seen, temp, hashed, safe, before, debris, excused,
          saves, faults, cuts
VARIABLES handles, wire, queue, tokens, listening, answer, locked, doubt, spentOn

Sup == INSTANCE Supervisor WITH
         Shares <- Supervised, MaxEdits <- MaxSupEdits, MaxFailures <- MaxSupFailures,
         MaxRestarts <- MaxSupRestarts,
         row <- table, stopped <- supStopped, edits <- supEdits,
         failures <- supFailures, restarts <- supRestarts

Mount == INSTANCE CifsMount WITH
           MaxOutages <- MaxMountOutages,
           mounted <- kernelMounted, serverUp <- serverThere, outages <- mountOutages

Copy == INSTANCE Transfer

ASSUME MarkersAssumption == Sup!MarkersAreApart

Feed == INSTANCE AuditFeed

ASSUME FeedAssumption == Feed!NamesAreApart
ASSUME BoundsAssumption ==
    /\ {MaxEdits, MaxChanges, LastAttempt} \subseteq Nat \ {0}
    /\ {MaxRefusals, MaxRestarts, OfflineAfter, LastBackoff, MaxStarts} \subseteq Nat
    /\ IsFiniteSet(Ticks)

supervisorVars == <<table, running, inst, call, supStopped, mounted, serverUp, overlapped,
                    supEdits, pauses, outages, supFailures, supRestarts>>
mountVars == <<state, failures, backoff, stopped, timers, tick, reconnect, attempt,
               kernelMounted, serverThere, abandoned, starts, mountOutages, ownerOps>>
copyVars == <<source, there, destination, step, try, seen, temp, hashed, safe, before, debris,
              excused, saves, faults, cuts>>
feedVars == <<handles, wire, queue, tokens, listening, answer, locked, doubt, spentOn>>

\* two names that differ in case only, listed against the order of their ids
NameTwins == {{1, 2}}
Places == [s \in {1, 2} |-> 3 - s]
OldAccounts == [s \in {1, 2} |-> "tnc-a"]

-----------------------------------------------------------------------------
Windows ==
    /\ SambaStart([s \in Shares |-> IF s = 1 THEN NewRow ELSE NoRow])
    /\ edits = MaxEdits /\ refusals = MaxRefusals /\ restarts = MaxRestarts
    /\ changes = 0 /\ holds = 0
\* the share may be deleted, and made again under the same id
Remade == {NoRow} \cup {[NewRow EXCEPT !.failover = on] : on \in BOOLEAN}
Reborn ==
    /\ SambaStart([s \in Shares |-> IF s = 1 THEN NewRow ELSE NoRow])
    /\ edits = 0 /\ refusals = MaxRefusals /\ restarts = MaxRestarts
    /\ changes = MaxChanges - 1 /\ holds = 0
\* rows of a share with a machine user
WithLogin(on) == [enabled : {on}, guest : {FALSE}, user : Users,
                  password : BOOLEAN, readOnly : {FALSE}, failover : {FALSE}]
Logins ==
    \E one \in {NewRow} \cup WithLogin(TRUE), other \in {NoRow} \cup WithLogin(FALSE) :
      SambaStart([s \in Shares |-> IF s = 1 THEN one ELSE other])

Table ==
    /\ Logins
    /\ edits = 1
    /\ \/ refusals = 0 /\ restarts = MaxRestarts
       \/ refusals = MaxRefusals /\ restarts = 0
    /\ changes = MaxChanges - 1 /\ holds = MaxHolds
Edited ==
    /\ Logins
    /\ edits = 0 /\ refusals = 0 /\ restarts = 0
    /\ changes = MaxChanges /\ holds = MaxHolds

\* two machines with one program, and one with two programs that have difficult names
OneProgram ==
    /\ \A h \in handles : h.file \in Piped
    /\ \A f \in Files \ Piped : locked[f] = Feed!Nobody
OneMachine == \A g, h \in handles : g.machine = h.machine

MCInit ==
    /\ focus \in {"windows", "reborn", "table", "edited", "supervisor", "mount", "transfer", "machines", "names"}
    /\ CASE focus = "windows" -> Windows
         [] focus = "reborn" -> Reborn
         [] focus = "table" -> Table
         [] focus = "edited" -> Edited
         [] OTHER -> SambaInit /\ changes = 0 /\ holds = 0
    /\ AtStart
    /\ Sup!Init /\ Mount!Init
    /\ Copy!Init /\ (focus # "transfer" => destination = Absent)
    /\ Feed!AuditStart
    /\ spentOn = [opens |-> IF focus = "names" THEN MaxOpens - 1 ELSE 0,
                   troubles |-> IF focus = "machines" THEN MaxTroubles - 1 ELSE 0]

MCNext ==
    /\ UNCHANGED focus
    /\ \/ /\ focus \in {"windows", "reborn", "table", "edited"}
          /\ Next
          /\ focus = "reborn" => row'[2] = NoRow /\ row'[1] \in Remade
          /\ focus = "table" => \A s \in Shares : sinceUp'[s] = 0   \* no time passes
          /\ focus = "edited" => refusals' = 0 /\ UNCHANGED toFeed
          /\ UNCHANGED <<supervisorVars, mountVars, copyVars, feedVars>>
       \/ /\ focus = "supervisor"
          /\ Sup!Next
          /\ UNCHANGED <<vars, mountVars, copyVars, feedVars>>
       \/ /\ focus = "mount"
          /\ Mount!Next
          /\ UNCHANGED <<vars, supervisorVars, copyVars, feedVars>>
       \/ /\ focus = "transfer"
          /\ Copy!Next
          /\ UNCHANGED <<vars, supervisorVars, mountVars, feedVars>>
       \/ /\ Feed!AuditNext
          /\ \/ focus = "machines" /\ OneProgram'
             \/ focus = "names" /\ OneMachine'
          /\ UNCHANGED <<vars, supervisorVars, mountVars, copyVars>>

mcvars == <<focus, vars, supervisorVars, mountVars, copyVars, feedVars>>
(* The fairness each of them states for itself.                            *)
MCFairness ==
    /\ WF_vars(focus = "windows" /\ (StartPass \/ \E s \in Shares : Observe(s)))
    /\ SF_vars(focus = "windows" /\ Tick)
    /\ \A c \in Calls : WF_supervisorVars(focus = "supervisor" /\ Sup!Step(c))
    /\ \A s \in Supervised : WF_supervisorVars(focus = "supervisor" /\ Sup!Timed(s))
    /\ \A i \in Instances : WF_supervisorVars(focus = "supervisor" /\ Sup!EndCycle(i))
    /\ WF_mountVars(focus = "mount" /\ Mount!ProbeTimer)
    /\ WF_mountVars(focus = "mount" /\ Mount!ReconnectTimer)
    /\ \A t \in Ticks : WF_mountVars(focus = "mount" /\ Mount!ProbeAnswered(t))
    /\ \A a \in Attempts :
         WF_mountVars(focus = "mount" /\ (Mount!RemountUnmounts(a) \/ Mount!RemountMounts(a)))
    /\ WF_feedVars(focus \in {"machines", "names"} /\ Feed!Works)
    /\ SF_feedVars(focus \in {"machines", "names"} /\ Feed!AskJson)
MCSpec == MCInit /\ [][MCNext]_mcvars /\ MCFairness

-----------------------------------------------------------------------------
Types == TypeOK /\ Sup!TypeOK /\ Mount!TypeOK /\ Copy!TransferTypeOK /\ Feed!AuditTypeOK

(* The properties each of them states, of the behaviours it moves in.      *)

(* A lost server stops a share's writes, and one that is back gives them   *)
(* back, for good.                                                         *)
WritesComeAndGo == focus = "windows" => WritesFollowTheServer

(* What runs is what the table asks for, when calls come in turn; the      *)
(* monitor of a mount never loses its loop of probes, nor a mount that was *)
(* called offline; and what a transfer leaves at its destination is whole, *)
(* or still looks changed to the next cycle.                               *)
SharesAreKeptGoing == Sup!ConvergesInTurn /\ Mount!MonitorKeepsTrying /\ Copy!CopiesAreSound

(* Nothing is unmounted, removed or closed under a cycle.                  *)
NothingEndsUnderACycle == Sup!NothingEndsUnderACycle

(* An outage reaches the status column the failover service reads.         *)
OutageReachesTheColumn == focus = "supervisor" => Sup!OutageReachesTheColumn

(* A mount becomes healthy when the server is back for good.               *)
ComesBack == focus = "mount" => Mount!ComesBack

(* The bridge has locked what the machines write, as far as it could be    *)
(* told, and all of it in the end, whatever was lost.                      *)
LocksAgree ==
    /\ [](focus \in {"machines", "names"} => Feed!FeedIsRight)
    /\ <>[](focus \in {"machines", "names"} => Feed!Agreed)

(* What went away comes back: the writes, the status, the mount, the lock. *)
SharesRecover == WritesComeAndGo /\ OutageReachesTheColumn /\ ComesBack /\ LocksAgree
=============================================================================
