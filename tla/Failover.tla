------------------------------- MODULE Failover -------------------------------
(***************************************************************************)
(* Failover to read-only: one controller per enabled share, fed every few  *)
(* seconds with the share's status column and the disk's fill, its verdict *)
(* kept in the share's row and carried to smbd.  recovery/failover.ts,     *)
(* recovery/failover-service.ts and the onFlip handler of server.ts, over  *)
(* SambaConfig.                                                            *)
(*                                                                         *)
(* Controllers live in memory.  A time is kept as how long ago it was, and *)
(* no further than its window is long.                                     *)
(***************************************************************************)
EXTENDS SambaConfig

CONSTANTS Grace,        \* serverGraceS, in ticks
          Stability,    \* recoveryStabilityS, in ticks
          NoController,
          MaxChanges,   \* bound: changes of the status columns and the disk
          MaxHolds      \* bound: holds and their ends, by an operator

ASSUME WindowsAssumption ==
    /\ Grace \in Nat /\ Stability \in Nat
    /\ MaxChanges \in Nat /\ MaxHolds \in Nat
    /\ NoRow \notin Rows

VARIABLES controller,  \* FailoverService.controllers
          status,      \* the status column of each share
          disk,        \* how full the cache's disk reads
          toFeed,      \* shares the pass under way has still to feed
          sinceUp,     \* ticks since the controller last saw the server there
          sinceDown,   \* ticks since it last saw it gone
          inherited,   \* history: shares made under an id whose controller was not dropped yet
          changes, holds

vars == <<sambaVars, controller, status, disk, toFeed, sinceUp, sinceDown,
          inherited, changes, holds>>

Reasons == {"server_unreachable", "disk_full", "sync_error", "manual"}
Statuses == {"idle", "offline", "error"}
Disks == {"roomy", "filling", "full"}   \* below 90 %, below 95 %, from 95 %

Never == Grace + Stability + 1
Longest == Grace + Stability
Ages == 0..Longest

Controllers == [reasons : SUBSET Reasons, downSince : Ages \cup {Never},
                healthySince : Ages \cup {Never}, hold : BOOLEAN]
ASSUME ControllerAssumption == NoController \notin Controllers
NewController == [reasons |-> {}, downSince |-> Never,
                  healthySince |-> Never, hold |-> FALSE]

ControllerFor(s) == IF controller[s] = NoController THEN NewController ELSE controller[s]

-----------------------------------------------------------------------------
(* FailoverController.observe                                              *)

\* mutant: a window that starts again at each observation
StartAgeAnew(age) == 0

StartAge(age) == IF age = Never THEN 0 ELSE age

\* mutant: an outage does not end the stabilisation period
UnreachableKeepsHealth(c) ==
    LET down == StartAge(c.downSince)
    IN  [c EXCEPT !.downSince = down,
                  !.reasons = IF down >= Grace
                              THEN @ \cup {"server_unreachable"} ELSE @]

Reachable(c) ==
    LET healthy == StartAge(c.healthySince)
    IN  [c EXCEPT !.downSince = Never,
                  !.healthySince = healthy,
                  !.reasons = IF healthy >= Stability
                              THEN @ \ {"server_unreachable"} ELSE @]

Unreachable(c) ==
    LET down == StartAge(c.downSince)
    IN  [c EXCEPT !.healthySince = Never,
                  !.downSince = down,
                  !.reasons = IF down >= Grace
                              THEN @ \cup {"server_unreachable"} ELSE @]

Latch(reasons, reason, on, off) ==
    IF on THEN reasons \cup {reason} ELSE IF off THEN reasons \ {reason} ELSE reasons

Observed(c, st) ==
    LET seen  == IF st = "offline" THEN Unreachable(c) ELSE Reachable(c)
        full  == Latch(seen.reasons, "disk_full", disk = "full", disk = "roomy")
        error == Latch(full, "sync_error", st = "error", st # "error")
    IN  [seen EXCEPT !.reasons = Latch(error, "manual", c.hold, ~c.hold)]

(* FailoverService.applyTo and onFlip: the flag moves, the file with it,   *)
(* and a file that changed restarts smbd.                                  *)
ApplyTo(s, reasons) ==
    LET flag == reasons # {}
    IN  IF row[s].failover = flag
        THEN UNCHANGED sambaVars
        ELSE /\ row' = [row EXCEPT ![s].failover = flag]
             /\ \E refused \in Refusals : Reconcile(row', {}, refused, TRUE)
             /\ UNCHANGED <<edits, restarts>>

-----------------------------------------------------------------------------
AtStart ==
    /\ controller = [s \in Shares |-> NoController]
    /\ status = [s \in Shares |-> "idle"]
    /\ disk = "roomy"
    /\ toFeed = {}
    /\ sinceUp = [s \in Shares |-> 0] /\ sinceDown = [s \in Shares |-> Longest]
    /\ inherited = {}

Init == SambaInit /\ AtStart /\ changes = 0 /\ holds = 0

EnabledShares == {s \in Shares : row[s] # NoRow /\ row[s].enabled}
AtRest == toFeed = {}

(* FailoverService.observe, one synchronous pass: the shares of its query, *)
(* one after the other; a share it does not see loses its controller.      *)
StartPass ==
    /\ AtRest
    /\ EnabledShares # {}
    /\ toFeed' = EnabledShares
    /\ controller' = [s \in Shares |-> IF s \in EnabledShares THEN controller[s]
                                       ELSE NoController]
    /\ inherited' = inherited \cap EnabledShares
    /\ UNCHANGED <<sambaVars, status, disk, sinceUp, sinceDown, changes, holds>>

Observe(s) ==
    /\ s \in toFeed
    /\ toFeed' = toFeed \ {s}
    /\ LET c   == ControllerFor(s)
           new == controller[s] = NoController
           up  == status[s] # "offline"
       IN  /\ controller' = [controller EXCEPT ![s] = Observed(c, status[s])]
           /\ ApplyTo(s, controller'[s].reasons)
           \* a new controller has seen neither
           /\ sinceUp' = [sinceUp EXCEPT ![s] = IF up \/ new THEN 0 ELSE @]
           /\ sinceDown' = [sinceDown EXCEPT ![s] = IF ~up THEN 0
                                                     ELSE IF new THEN 0 ELSE @]
    /\ inherited' = inherited \ {s}
    /\ UNCHANGED <<status, disk, changes, holds>>

Hold(s) ==
    /\ AtRest /\ row[s] # NoRow
    /\ holds < MaxHolds /\ holds' = holds + 1
    /\ LET c == ControllerFor(s)
       IN  controller' = [controller EXCEPT
             ![s] = [c EXCEPT !.hold = TRUE, !.reasons = @ \cup {"manual"}]]
    /\ ApplyTo(s, controller'[s].reasons)
    /\ sinceUp' = [sinceUp EXCEPT ![s] = IF controller[s] = NoController THEN 0 ELSE @]
    /\ sinceDown' = [sinceDown EXCEPT ![s] = IF controller[s] = NoController THEN 0 ELSE @]
    /\ inherited' = inherited \ {s}
    /\ UNCHANGED <<toFeed, status, disk, changes>>

Resume(s) ==
    /\ AtRest /\ row[s] # NoRow
    /\ controller[s] # NoController
    /\ holds < MaxHolds /\ holds' = holds + 1
    /\ controller' = [controller EXCEPT ![s].hold = FALSE, ![s].reasons = @ \ {"manual"}]
    /\ ApplyTo(s, controller'[s].reasons)
    /\ inherited' = inherited \ {s}
    /\ UNCHANGED <<toFeed, status, disk, sinceUp, sinceDown, changes>>

-----------------------------------------------------------------------------
Older(age) == IF age < Longest THEN age + 1 ELSE age

Tick ==
    /\ AtRest
    /\ controller' = [s \in Shares |->
         IF controller[s] = NoController THEN NoController
         ELSE [controller[s] EXCEPT !.downSince = Older(@), !.healthySince = Older(@)]]
    /\ sinceUp' = [s \in Shares |-> Older(sinceUp[s])]
    /\ sinceDown' = [s \in Shares |-> Older(sinceDown[s])]
    /\ UNCHANGED <<sambaVars, status, disk, toFeed, inherited, changes, holds>>

(* The supervisor writes the column; the collector reads the disk.         *)
StatusChanges(s) ==
    /\ AtRest /\ changes < MaxChanges /\ changes' = changes + 1
    /\ \E st \in Statuses \ {status[s]} : status' = [status EXCEPT ![s] = st]
    /\ UNCHANGED <<sambaVars, controller, disk, toFeed, sinceUp, sinceDown, inherited, holds>>

DiskChanges ==
    /\ AtRest /\ changes < MaxChanges /\ changes' = changes + 1
    /\ disk' \in Disks \ {disk}
    /\ UNCHANGED <<sambaVars, controller, status, toFeed, sinceUp, sinceDown, inherited, holds>>

(* The id of a deleted share is given out again, and its controller is     *)
(* there until the next pass.                                              *)
EditTable(s) ==
    /\ AtRest
    /\ \/ (UpdateShare(s) \/ DeleteShare(s)) /\ UNCHANGED inherited
       \/ CreateShare(s) /\ inherited' = inherited \cup
                              {t \in {s} : controller[t] # NoController}
    /\ UNCHANGED <<controller, status, disk, toFeed, sinceUp, sinceDown, changes, holds>>

MachineConnects(s) ==
    /\ AtRest /\ Connect(s)
    /\ UNCHANGED <<controller, status, disk, toFeed, sinceUp, sinceDown, inherited,
                   changes, holds>>

Restart ==
    /\ AtRest /\ Boot
    /\ controller' = [s \in Shares |-> NoController]
    /\ inherited' = {}
    /\ UNCHANGED <<status, disk, toFeed, sinceUp, sinceDown, changes, holds>>

Next ==
    \/ StartPass
    \/ \E s \in Shares : \/ Observe(s) \/ Hold(s) \/ Resume(s) \/ StatusChanges(s)
                         \/ EditTable(s) \/ MachineConnects(s)
    \/ DiskChanges \/ Tick \/ Restart

Spec == Init /\ [][Next]_vars

(* The timer of server.ts feeds the service, and time passes.              *)
Fairness == WF_vars(StartPass \/ \E s \in Shares : Observe(s)) /\ SF_vars(Tick)

-----------------------------------------------------------------------------
TypeOK ==
    /\ SambaTypeOK
    /\ controller \in [Shares -> Controllers \cup {NoController}]
    /\ status \in [Shares -> Statuses]
    /\ disk \in Disks
    /\ toFeed \subseteq Shares
    /\ sinceUp \in [Shares -> Ages] /\ sinceDown \in [Shares -> Ages]
    /\ inherited \subseteq Shares
    /\ changes \in 0..MaxChanges /\ holds \in 0..MaxHolds

Flag(s) == row[s] # NoRow /\ row[s].failover

(* A share that a living controller holds read-only is held for a reason   *)
(* the controller can name (the reason line of /status).                   *)
HeldForAReason ==
    \A s \in Shares : (Flag(s) /\ controller[s] # NoController) => controller[s].reasons # {}

(* smb.conf says what the table says, unless its last write was refused or *)
(* two names clash: no path that changes a row forgets to render it.       *)
FileFollowsTheTable == ~owed => file = Render(row)

(* A section never names an account that does not exist, unless its share  *)
(* has no password to make one with, another share speaks of the same      *)
(* account, the helper refused something, or two names clash: the accounts *)
(* move then, and the file stays.                                          *)
LoginsExist ==
    (refusals = 0 /\ ~owed) => \A s \in Shares :
      (file[s] # NoRow /\ file[s].user # NoUser) =>
        \/ file[s].user \in accounts
        \/ ~row[s].password
        \/ \E t \in Shares \ {s} : /\ row[t] # NoRow
                                   /\ file[s].user \in {row[t].user, Legacy[t]}

(* And an account that exists is named by a share: none outlives the last  *)
(* share that named it, unless the helper refused something.               *)
NoLoginIsLeft ==
    refusals = 0 => \A a \in accounts :
      \E s \in Shares : row[s] # NoRow /\ row[s].user = a

(* What smbd is given follows the shares and their failover: held for a    *)
(* reason, the file as the table, and accounts for those it names.         *)
ExportsFollowTheTable ==
    HeldForAReason /\ FileFollowsTheTable /\ LoginsExist /\ NoLoginIsLeft

(* A share under failover takes no writes from an established session      *)
(* either, unless an edit without a restart, a refusal of the helper or a  *)
(* clash of names has left that session behind.                            *)
SessionsRefuseWrites ==
    \A s \in Shares \ behind : (Flag(s) /\ session[s] # NoRow) => session[s].ro

(* What smbd exports, and what it holds its sessions to, is what the table  *)
(* says.                                                                   *)
SambaFollowsTheTable == ExportsFollowTheTable /\ SessionsRefuseWrites

GraceIsKept(s) ==
    (~Flag(s) /\ Flag(s)' /\ status[s] = "offline" /\ disk # "full" /\ holds' = holds)
      => (sinceUp[s] >= Grace \/ s \in inherited)
StabilityIsKept(s) ==
    (/\ Flag(s) /\ row'[s] # NoRow /\ ~Flag(s)'
     /\ controller[s] # NoController /\ controller'[s] # NoController
     /\ "server_unreachable" \in controller[s].reasons)
      => sinceDown[s] >= Stability

(* However the observations flap, a lost server stops the machines' writes *)
(* only after the grace period, and while the controller lives they come   *)
(* back only when it was there for the whole stabilisation period.  Only a *)
(* share that took over the controller of a deleted one may stop at once.  *)
WindowsAreKept == [][\A s \in Shares : GraceIsKept(s) /\ StabilityIsKept(s)]_vars

(* A server that stays away stops the writes of its share for good; one    *)
(* that stays, with room on the disk and nobody holding, gives them back   *)
(* for good.                                                               *)
Served(s) == row[s] # NoRow /\ row[s].enabled
Held(s) == controller[s] # NoController /\ controller[s].hold
WritesFollowTheServer ==
    \A s \in Shares :
      /\ <>[](Served(s) /\ status[s] = "offline") => <>[]Flag(s)
      /\ <>[](Served(s) /\ status[s] = "idle" /\ disk = "roomy" /\ ~Held(s)) => <>[]~Flag(s)
=============================================================================
