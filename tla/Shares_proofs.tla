---------------------------- MODULE Shares_proofs ----------------------------
(***************************************************************************)
(* Proofs about what keeps a share going: the windows of its failover,     *)
(* however long they are, and what smbd is given, for any number of shares *)
(* and users, flaps, edits, refusals and restarts; its supervisor, for any *)
(* number of shares, calls under way, instances, edits, outages and        *)
(* restarts; the copy of one file, for any number of attempts, saves,      *)
(* faults and cuts; the monitor of its mount, for any probes and remounts  *)
(* at once; the feed of the audit and of smbstatus, for any machines,      *)
(* files, lines, bursts and losses; and what follows for the specification *)
(* that the run checks, the types of all of them among it.                 *)
(***************************************************************************)
EXTENDS MCShares, TLAPS, SequenceTheorems, FiniteSetTheorems, WellFoundedInduction

-----------------------------------------------------------------------------
(* The windows of the failover, and what smbd is given.                    *)

(* What the windows rest on: a controller's clocks are never ahead of the  *)
(* time since the server was last seen the other way, and the flag in the  *)
(* row says whether the controller has a reason.                           *)
ClocksTrail(s) ==
    /\ controller[s].downSince # Never => controller[s].downSince <= sinceUp[s]
    /\ controller[s].healthySince # Never => controller[s].healthySince <= sinceDown[s]
FlagTells(s) ==
    (row[s] # NoRow /\ s \notin inherited) => (row[s].failover <=> controller[s].reasons # {})
HoldIsAReason(s) == controller[s].hold <=> "manual" \in controller[s].reasons

SambaTyped ==
    /\ row \in [Shares -> Rows \cup {NoRow}]
    /\ controller \in [Shares -> Controllers \cup {NoController}]
    /\ sinceUp \in [Shares -> Ages] /\ sinceDown \in [Shares -> Ages]
    /\ toFeed \subseteq {s \in Shares : row[s] # NoRow}
    /\ holds \in Nat
WindowInv ==
    /\ SambaTyped
    /\ \A s \in Shares : controller[s] # NoController =>
                           ClocksTrail(s) /\ FlagTells(s) /\ HoldIsAReason(s)

-----------------------------------------------------------------------------
(* Times and controllers. *)

LEMMA Times ==
    /\ Longest \in Nat /\ Never = Longest + 1
    /\ Ages = 0..Longest /\ 0 \in Ages /\ Never \notin Ages
    /\ Grace \in Nat /\ Stability \in Nat
BY WindowsAssumption DEF Longest, Never, Ages

LEMMA NewIsAController ==
    /\ NewController \in Controllers
    /\ NewController.reasons = {} /\ ~NewController.hold
    /\ NewController.downSince = Never /\ NewController.healthySince = Never
BY DEF NewController, Controllers

LEMMA TheController ==
    ASSUME SambaTyped, NEW s \in Shares
    PROVE  /\ ControllerFor(s) \in Controllers
           /\ controller[s] # NoController => ControllerFor(s) = controller[s]
           /\ controller[s] = NoController => ControllerFor(s) = NewController
BY NewIsAController DEF SambaTyped, ControllerFor

\* what one observation does to a controller
LEMMA ObservedIs ==
    ASSUME NEW c \in Controllers, NEW st
    PROVE  LET o == Observed(c, st)
           IN  /\ o \in Controllers /\ o.hold = c.hold
               /\ o.hold <=> "manual" \in o.reasons
               /\ st = "offline" =>
                    /\ o.healthySince = Never /\ o.downSince = StartAge(c.downSince)
                    /\ "server_unreachable" \in c.reasons => "server_unreachable" \in o.reasons
                    /\ (c.reasons = {} /\ ~c.hold /\ disk # "full"
                          /\ StartAge(c.downSince) < Grace) => o.reasons = {}
               /\ st # "offline" =>
                    /\ o.downSince = Never /\ o.healthySince = StartAge(c.healthySince)
                    /\ ("server_unreachable" \in c.reasons
                          /\ StartAge(c.healthySince) < Stability)
                         => "server_unreachable" \in o.reasons
<1> DEFINE sighting == IF st = "offline" THEN Unreachable(c) ELSE Reachable(c)
           full == Latch(sighting.reasons, "disk_full", disk = "full", disk = "roomy")
           error == Latch(full, "sync_error", st = "error", st # "error")
           last == Latch(error, "manual", c.hold, ~c.hold)
<1>0. /\ c.hold \in BOOLEAN /\ c.reasons \subseteq Reasons
      /\ c.downSince \in Ages \cup {Never} /\ c.healthySince \in Ages \cup {Never}
  BY DEF Controllers
<1>1. \A age \in Ages \cup {Never} : StartAge(age) \in Ages
  BY Times DEF StartAge
<1>2. /\ sighting \in Controllers /\ sighting.hold = c.hold
      /\ st = "offline" =>
           /\ sighting.healthySince = Never /\ sighting.downSince = StartAge(c.downSince)
           /\ sighting.reasons = IF StartAge(c.downSince) >= Grace
                             THEN c.reasons \cup {"server_unreachable"} ELSE c.reasons
      /\ st # "offline" =>
           /\ sighting.downSince = Never /\ sighting.healthySince = StartAge(c.healthySince)
           /\ sighting.reasons = IF StartAge(c.healthySince) >= Stability
                             THEN c.reasons \ {"server_unreachable"} ELSE c.reasons
  BY <1>0, <1>1 DEF Unreachable, Reachable, Controllers, Reasons
<1>3. Observed(c, st) = [sighting EXCEPT !.reasons = last]
  BY DEF Observed
<1>4. /\ full \subseteq Reasons /\ error \subseteq Reasons /\ last \subseteq Reasons
      /\ "server_unreachable" \in last <=> "server_unreachable" \in sighting.reasons
      /\ "manual" \in last <=> c.hold
  <2>1. sighting.reasons \subseteq Reasons
    BY <1>2 DEF Controllers
  <2> HIDE DEF sighting
  <2> QED
    BY <2>1, <1>0 DEF Latch, Reasons
<1>5. (st = "offline" /\ sighting.reasons = {} /\ ~c.hold /\ disk # "full") => last = {}
  <2> HIDE DEF sighting
  <2> QED
    BY DEF Latch
<1> HIDE DEF sighting, full, error, last
<1>6. Observed(c, st) \in Controllers /\ Observed(c, st).hold = c.hold
      /\ Observed(c, st).reasons = last
      /\ Observed(c, st).downSince = sighting.downSince
      /\ Observed(c, st).healthySince = sighting.healthySince
  BY <1>2, <1>3, <1>4 DEF Controllers
<1>7. StartAge(c.downSince) \in Ages /\ StartAge(c.healthySince) \in Ages
  BY <1>0, <1>1
<1>8. /\ StartAge(c.downSince) < Grace => ~(StartAge(c.downSince) >= Grace)
      /\ StartAge(c.healthySince) < Stability => ~(StartAge(c.healthySince) >= Stability)
  BY <1>7, Times
<1> QED
  BY <1>2, <1>4, <1>5, <1>6, <1>8

\* the rows that the handlers store
LEMMA FirstRowsAre == \A new \in FirstRows : new \in Rows /\ ~new.failover
<1>1. NewRow \in Rows /\ ~NewRow.failover
  BY DEF NewRow, Rows
<1>2. \A new \in FirstRows \ {NewRow} : new \in Rows
  BY DEF FirstRows, Rows
<1>3. \A new \in FirstRows \ {NewRow} : new.failover \in {FALSE}
  BY DEF FirstRows
<1> QED
  BY <1>1, <1>2, <1>3

LEMMA PatchedAre ==
    ASSUME NEW r \in Rows, NEW new \in Patched(r)
    PROVE  new \in Rows /\ new.failover = r.failover
BY DEF Patched, Rows

\* what carrying a verdict to the row does
LEMMA Applied ==
    ASSUME SambaTyped, NEW s \in Shares, row[s] # NoRow, NEW reasons, ApplyTo(s, reasons)
    PROVE  /\ row' \in [Shares -> Rows \cup {NoRow}]
           /\ \A t \in Shares \ {s} : row'[t] = row[t]
           /\ row'[s] # NoRow /\ row'[s].failover = (reasons # {})
<1>1. CASE row[s].failover = (reasons # {})
  BY <1>1 DEF ApplyTo, sambaVars, SambaTyped
<1>2. CASE row[s].failover # (reasons # {})
  <2>1. row' = [row EXCEPT ![s].failover = (reasons # {})]
    BY <1>2 DEF ApplyTo
  <2> QED
    BY <2>1, WindowsAssumption, ZenonT(60) DEF SambaTyped, Rows
<1> QED
  BY <1>1, <1>2

-----------------------------------------------------------------------------
(* The invariant. *)

LEMMA WindowStarts ==
    ASSUME NEW rows \in [Shares -> Rows \cup {NoRow}], SambaStart(rows), AtStart, holds \in Nat
    PROVE  WindowInv
<1>1. row = rows
  BY DEF SambaStart
<1>2. Longest \in Ages
  BY Times
<1> QED
  BY <1>1, <1>2, Times DEF AtStart, WindowInv, SambaTyped

LEMMA WindowInit == Init => WindowInv
<1>1. [s \in Shares |-> NewRow] \in [Shares -> Rows \cup {NoRow}]
  BY DEF NewRow, Rows
<1> QED
  BY <1>1, WindowStarts DEF Init, SambaInit

\* a step that moves no controller, or forgets it
LEMMA WindowKept ==
    ASSUME WindowInv, SambaTyped', \A s \in Shares :
             \/ controller'[s] = NoController
             \/ /\ controller'[s] = controller[s]
                /\ sinceUp'[s] = sinceUp[s] /\ sinceDown'[s] = sinceDown[s]
                /\ \/ row'[s] = NoRow
                   \/ s \in inherited'
                   \/ /\ row[s] # NoRow /\ row'[s].failover = row[s].failover
                      /\ s \in inherited => s \in inherited'
    PROVE  WindowInv'
BY DEF WindowInv, ClocksTrail, FlagTells, HoldIsAReason

LEMMA WindowNext == WindowInv /\ [Next]_vars => WindowInv'
<1> SUFFICES ASSUME WindowInv, [Next]_vars PROVE WindowInv'
  OBVIOUS
<1>0. SambaTyped
  BY DEF WindowInv
<1>1. CASE StartPass
  <2>1. UNCHANGED <<row, sinceUp, sinceDown, holds>> /\ toFeed' = EnabledShares
        /\ controller' = [s \in Shares |-> IF s \in EnabledShares THEN controller[s]
                                            ELSE NoController]
        /\ inherited' = inherited \cap EnabledShares
    BY <1>1 DEF StartPass, sambaVars
  <2>2. SambaTyped'
    BY <1>0, <2>1 DEF SambaTyped, EnabledShares
  <2>3. \A s \in Shares : \/ controller'[s] = NoController
                          \/ s \in EnabledShares /\ controller'[s] = controller[s]
    BY <2>1
  <2>4. \A s \in EnabledShares : row[s] # NoRow
    BY DEF EnabledShares
  <2> QED
    BY <2>1, <2>2, <2>3, <2>4, WindowKept
<1>2. ASSUME NEW s \in Shares, Observe(s) PROVE WindowInv'
  <2> DEFINE c == ControllerFor(s)
             o == Observed(c, status[s])
  <2>1. /\ s \in toFeed /\ toFeed' = toFeed \ {s} /\ UNCHANGED holds
        /\ controller' = [controller EXCEPT ![s] = o]
        /\ inherited' = inherited \ {s}
        /\ sinceUp' = [sinceUp EXCEPT ![s] =
                          IF status[s] # "offline" \/ controller[s] = NoController THEN 0 ELSE @]
        /\ sinceDown' = [sinceDown EXCEPT ![s] =
                          IF status[s] = "offline" THEN 0
                          ELSE IF controller[s] = NoController THEN 0 ELSE @]
        /\ ApplyTo(s, controller'[s].reasons)
    BY <1>2 DEF Observe
  <2>2. c \in Controllers /\ o \in Controllers /\ row[s] # NoRow /\ controller'[s] = o
    BY <1>0, <2>1, TheController, ObservedIs DEF SambaTyped
  <2> HIDE DEF c, o
  <2>3. /\ row' \in [Shares -> Rows \cup {NoRow}]
        /\ \A t \in Shares \ {s} : row'[t] = row[t]
        /\ row'[s] # NoRow /\ row'[s].failover = (o.reasons # {})
    BY <1>0, <2>1, <2>2, Applied
  <2>4. SambaTyped'
    BY <1>0, <2>1, <2>2, <2>3, Times DEF SambaTyped
  <2>5. ClocksTrail(s)'
    <3>1. CASE status[s] = "offline"
      <4>1. o.healthySince = Never /\ o.downSince = StartAge(c.downSince)
        BY <2>2, <3>1, ObservedIs DEF o
      <4>2. CASE controller[s] = NoController
        BY <1>0, <2>1, <2>2, <3>1, <4>1, <4>2, TheController, NewIsAController
           DEF ClocksTrail, StartAge, SambaTyped, c
      <4>3. CASE controller[s] # NoController
        <5>1. c = controller[s] /\ sinceUp'[s] = sinceUp[s] /\ sinceUp[s] \in Ages
          BY <1>0, <2>1, <3>1, <4>3, TheController DEF SambaTyped, c
        <5>2. c.downSince # Never => c.downSince <= sinceUp[s]
          BY <4>3, <5>1 DEF WindowInv, ClocksTrail
        <5> QED
          BY <2>2, <4>1, <5>1, <5>2, Times DEF ClocksTrail, StartAge
      <4> QED
        BY <4>2, <4>3
    <3>2. CASE status[s] # "offline"
      <4>1. o.downSince = Never /\ o.healthySince = StartAge(c.healthySince)
        BY <2>2, <3>2, ObservedIs DEF o
      <4>2. CASE controller[s] = NoController
        BY <1>0, <2>1, <2>2, <3>2, <4>1, <4>2, TheController, NewIsAController
           DEF ClocksTrail, StartAge, SambaTyped, c
      <4>3. CASE controller[s] # NoController
        <5>1. c = controller[s] /\ sinceDown'[s] = sinceDown[s] /\ sinceDown[s] \in Ages
          BY <1>0, <2>1, <3>2, <4>3, TheController DEF SambaTyped, c
        <5>2. c.healthySince # Never => c.healthySince <= sinceDown[s]
          BY <4>3, <5>1 DEF WindowInv, ClocksTrail
        <5> QED
          BY <2>2, <4>1, <5>1, <5>2, Times DEF ClocksTrail, StartAge
      <4> QED
        BY <4>2, <4>3
    <3> QED
      BY <3>1, <3>2
  <2>6. FlagTells(s)' /\ HoldIsAReason(s)'
    <3>1. o.hold <=> "manual" \in o.reasons
      BY <2>2, ObservedIs DEF o
    <3> QED
      BY <2>2, <2>3, <3>1 DEF FlagTells, HoldIsAReason
  <2>7. ASSUME NEW t \in Shares \ {s}, controller'[t] # NoController
        PROVE  ClocksTrail(t)' /\ FlagTells(t)' /\ HoldIsAReason(t)'
    <3>1. /\ controller'[t] = controller[t] /\ row'[t] = row[t]
          /\ sinceUp'[t] = sinceUp[t] /\ sinceDown'[t] = sinceDown[t]
          /\ t \in inherited <=> t \in inherited'
      BY <1>0, <2>1, <2>3 DEF SambaTyped
    <3> QED
      BY <2>7, <3>1 DEF WindowInv, ClocksTrail, FlagTells, HoldIsAReason
  <2> QED
    BY <2>4, <2>5, <2>6, <2>7 DEF WindowInv
<1>3. ASSUME NEW s \in Shares, Hold(s) \/ Resume(s) PROVE WindowInv'
  <2> DEFINE c == ControllerFor(s)
             held == [c EXCEPT !.hold = TRUE, !.reasons = @ \cup {"manual"}]
             eased == [c EXCEPT !.hold = FALSE, !.reasons = @ \ {"manual"}]
  <2>1. /\ row[s] # NoRow /\ UNCHANGED toFeed /\ inherited' = inherited \ {s}
        /\ holds' = holds + 1
        /\ ApplyTo(s, controller'[s].reasons)
    BY <1>3 DEF Hold, Resume
  <2>2. c \in Controllers
    BY <1>0, TheController
  <2>3. \/ controller' = [controller EXCEPT ![s] = held]
        \/ controller' = [controller EXCEPT ![s] = eased] /\ controller[s] # NoController
    BY <1>0, <1>3, TheController DEF Hold, Resume, SambaTyped
  <2>4. /\ \A t \in Shares : sinceUp'[t] \in Ages /\ sinceDown'[t] \in Ages
        /\ sinceUp' \in [Shares -> Ages] /\ sinceDown' \in [Shares -> Ages]
        /\ \A t \in Shares : controller[t] # NoController =>
             sinceUp'[t] = sinceUp[t] /\ sinceDown'[t] = sinceDown[t]
        /\ \A t \in Shares \ {s} : sinceUp'[t] = sinceUp[t] /\ sinceDown'[t] = sinceDown[t]
    <3>1. CASE Hold(s)
      <4>1. /\ sinceUp' = [sinceUp EXCEPT ![s] = IF controller[s] = NoController THEN 0 ELSE @]
            /\ sinceDown' = [sinceDown EXCEPT ![s] = IF controller[s] = NoController THEN 0 ELSE @]
        BY <3>1 DEF Hold
      <4> QED
        BY <1>0, <4>1, Times DEF SambaTyped
    <3>2. CASE Resume(s)
      BY <1>0, <3>2 DEF Resume, SambaTyped
    <3> QED
      BY <1>3, <3>1, <3>2
  <2>5. /\ controller'[s] \in Controllers
        /\ controller'[s].downSince = c.downSince /\ controller'[s].healthySince = c.healthySince
        /\ controller'[s].hold <=> "manual" \in controller'[s].reasons
        /\ \A t \in Shares \ {s} : controller'[t] = controller[t]
    <3>1. /\ held \in Controllers /\ eased \in Controllers
          /\ held.downSince = c.downSince /\ held.healthySince = c.healthySince
          /\ eased.downSince = c.downSince /\ eased.healthySince = c.healthySince
          /\ held.hold /\ "manual" \in held.reasons
          /\ ~eased.hold /\ "manual" \notin eased.reasons
      <4> HIDE DEF c
      <4> QED
        BY <2>2 DEF Controllers, Reasons
    <3> HIDE DEF held, eased
    <3> QED
      BY <1>0, <2>3, <3>1 DEF SambaTyped
  <2>6. /\ row' \in [Shares -> Rows \cup {NoRow}]
        /\ \A t \in Shares \ {s} : row'[t] = row[t]
        /\ row'[s] # NoRow /\ row'[s].failover = (controller'[s].reasons # {})
    BY <1>0, <2>1, Applied
  <2>7. SambaTyped'
    <3>1. controller' \in [Shares -> Controllers \cup {NoController}]
      BY <1>0, <2>3, <2>5 DEF SambaTyped
    <3> QED
      BY <1>0, <2>1, <2>4, <2>6, <3>1 DEF SambaTyped
  <2>8. ClocksTrail(s)'
    <3>1. CASE controller[s] = NoController
      BY <1>0, <2>5, <3>1, TheController, NewIsAController DEF ClocksTrail
    <3>2. CASE controller[s] # NoController
      BY <1>0, <2>4, <2>5, <3>2, TheController DEF ClocksTrail, WindowInv
    <3> QED
      BY <3>1, <3>2
  <2>9. FlagTells(s)' /\ HoldIsAReason(s)'
    BY <2>5, <2>6 DEF FlagTells, HoldIsAReason
  <2>10. ASSUME NEW t \in Shares \ {s}, controller'[t] # NoController
         PROVE  ClocksTrail(t)' /\ FlagTells(t)' /\ HoldIsAReason(t)'
    BY <2>1, <2>4, <2>5, <2>6, <2>10 DEF WindowInv, ClocksTrail, FlagTells, HoldIsAReason
  <2> QED
    BY <2>7, <2>8, <2>9, <2>10 DEF WindowInv
<1>4. CASE Tick
  <2>1. UNCHANGED <<row, toFeed, inherited, holds>>
        /\ controller' = [s \in Shares |->
             IF controller[s] = NoController THEN NoController
             ELSE [controller[s] EXCEPT !.downSince = Older(@), !.healthySince = Older(@)]]
        /\ sinceUp' = [s \in Shares |-> Older(sinceUp[s])]
        /\ sinceDown' = [s \in Shares |-> Older(sinceDown[s])]
    BY <1>4 DEF Tick, sambaVars
  <2>2. /\ \A age \in Ages : Older(age) \in Ages /\ Older(age) # Never
        /\ Older(Never) = Never
        /\ \A a, b \in Ages : a <= b => Older(a) <= Older(b)
    BY Times DEF Older
  <2>3. ASSUME NEW s \in Shares, controller[s] # NoController
        PROVE  /\ controller'[s] \in Controllers
               /\ controller'[s].downSince = Older(controller[s].downSince)
               /\ controller'[s].healthySince = Older(controller[s].healthySince)
               /\ controller'[s].reasons = controller[s].reasons
               /\ controller'[s].hold = controller[s].hold
               /\ controller[s].downSince \in Ages \cup {Never}
               /\ controller[s].healthySince \in Ages \cup {Never}
    <3>1. controller[s] \in Controllers
      BY <1>0, <2>3 DEF SambaTyped
    <3>2. controller'[s] = [controller[s] EXCEPT !.downSince = Older(@), !.healthySince = Older(@)]
      BY <2>1, <2>3
    <3> QED
      BY <2>2, <3>1, <3>2 DEF Controllers
  <2>4. SambaTyped'
    <3>1. \A s \in Shares : controller'[s] \in Controllers \cup {NoController}
      BY <2>1, <2>3
    <3> QED
      BY <1>0, <2>1, <2>2, <3>1 DEF SambaTyped
  <2>5. ASSUME NEW s \in Shares, controller'[s] # NoController
        PROVE  ClocksTrail(s)' /\ FlagTells(s)' /\ HoldIsAReason(s)'
    <3>1. controller[s] # NoController
      BY <2>1, <2>5
    <3>2. sinceUp[s] \in Ages /\ sinceUp'[s] = Older(sinceUp[s])
          /\ sinceDown[s] \in Ages /\ sinceDown'[s] = Older(sinceDown[s])
      BY <1>0, <2>1 DEF SambaTyped
    <3>3. ClocksTrail(s)'
      BY <2>2, <2>3, <3>1, <3>2 DEF ClocksTrail, WindowInv
    <3>4. FlagTells(s)' /\ HoldIsAReason(s)'
      BY <2>1, <2>3, <3>1 DEF FlagTells, HoldIsAReason, WindowInv
    <3> QED
      BY <3>3, <3>4
  <2> QED
    BY <2>4, <2>5 DEF WindowInv
<1>5. CASE DiskChanges \/ \E s \in Shares : StatusChanges(s) \/ MachineConnects(s)
  <2>1. UNCHANGED <<row, controller, sinceUp, sinceDown, toFeed, inherited, holds>>
    BY <1>5 DEF StatusChanges, DiskChanges, MachineConnects, Connect, sambaVars
  <2> QED
    BY <2>1 DEF WindowInv, SambaTyped, ClocksTrail, FlagTells, HoldIsAReason
<1>6. ASSUME NEW s \in Shares, EditTable(s) PROVE WindowInv'
  <2>1. AtRest /\ UNCHANGED <<controller, toFeed, sinceUp, sinceDown, holds>>
    BY <1>6 DEF EditTable
  <2>2. /\ row' \in [Shares -> Rows \cup {NoRow}]
        /\ \A t \in Shares \ {s} : row'[t] = row[t]
        /\ \A t \in inherited : t \in inherited'
        /\ \/ row'[s] = NoRow
           \/ controller[s] = NoController
           \/ s \in inherited'
           \/ row[s] # NoRow /\ row'[s].failover = row[s].failover
    <3>1. CASE UpdateShare(s) /\ UNCHANGED inherited
      <4>1. PICK new \in Patched(row[s]) : row' = [row EXCEPT ![s] = new]
        BY <3>1 DEF UpdateShare, EditRow
      <4>2. row[s] \in Rows /\ row[s] # NoRow
        BY <1>0, <3>1 DEF UpdateShare, SambaTyped
      <4>3. new \in Rows /\ new.failover = row[s].failover
        BY <4>1, <4>2, PatchedAre
      <4> QED
        BY <1>0, <3>1, <4>1, <4>2, <4>3 DEF SambaTyped
    <3>2. CASE DeleteShare(s) /\ UNCHANGED inherited
      BY <1>0, <3>2 DEF DeleteShare, EditRow, SambaTyped
    <3>3. CASE CreateShare(s) /\ inherited' = inherited \cup {t \in {s} : controller[t] # NoController}
      <4>1. PICK new \in FirstRows : row' = [row EXCEPT ![s] = new]
        BY <3>3 DEF CreateShare, EditRow
      <4>2. new \in Rows
        BY <4>1, FirstRowsAre
      <4> QED
        BY <1>0, <3>3, <4>1, <4>2 DEF SambaTyped
    <3> QED
      BY <1>6, <3>1, <3>2, <3>3 DEF EditTable
  <2>3. SambaTyped'
    BY <1>0, <2>1, <2>2 DEF SambaTyped, AtRest
  <2>4. ASSUME NEW t \in Shares, controller'[t] # NoController
        PROVE  ClocksTrail(t)' /\ FlagTells(t)' /\ HoldIsAReason(t)'
    BY <2>1, <2>2, <2>4 DEF WindowInv, ClocksTrail, FlagTells, HoldIsAReason
  <2> QED
    BY <2>3, <2>4 DEF WindowInv
<1>7. CASE Restart
  <2>1. /\ UNCHANGED <<row, toFeed, sinceUp, sinceDown, holds>>
        /\ controller' = [s \in Shares |-> NoController]
    BY <1>7 DEF Restart, Boot
  <2> QED
    BY <1>0, <2>1 DEF WindowInv, SambaTyped
<1>8. CASE UNCHANGED vars
  BY <1>8 DEF vars, sambaVars, WindowInv, SambaTyped, ClocksTrail, FlagTells, HoldIsAReason
<1> QED
  BY <1>1, <1>2, <1>3, <1>4, <1>5, <1>6, <1>7, <1>8 DEF Next

-----------------------------------------------------------------------------
(* What it says of a step. *)

LEMMA FlipsAreEarned ==
    ASSUME WindowInv, Next, NEW s \in Shares
    PROVE  GraceIsKept(s) /\ StabilityIsKept(s)
<1>0. SambaTyped
  BY DEF WindowInv
<1>1. CASE Observe(s)
  <2> DEFINE c == ControllerFor(s)
             o == Observed(c, status[s])
  <2>1. /\ row[s] # NoRow /\ controller'[s] = o /\ ApplyTo(s, controller'[s].reasons)
    BY <1>0, <1>1 DEF Observe, SambaTyped
  <2>2. c \in Controllers
    BY <1>0, TheController
  <2>3. Flag(s)' <=> o.reasons # {}
    BY <1>0, <2>1, Applied DEF Flag
  <2> HIDE DEF c, o
  <2>4. GraceIsKept(s)
    <3> SUFFICES ASSUME ~Flag(s), Flag(s)', status[s] = "offline", disk # "full",
                        s \notin inherited
                 PROVE  sinceUp[s] >= Grace
      BY DEF GraceIsKept
    <3>1. c.reasons = {} /\ ~c.hold
      <4>1. CASE controller[s] = NoController
        BY <1>0, <4>1, TheController, NewIsAController DEF c
      <4>2. CASE controller[s] # NoController
        BY <1>0, <2>1, <4>2, TheController DEF c, WindowInv, FlagTells, HoldIsAReason, Flag
      <4> QED
        BY <4>1, <4>2
    <3>2. ~(StartAge(c.downSince) < Grace)
      BY <2>2, <2>3, <3>1, ObservedIs DEF o
    <3>3. c.downSince \in Ages \cup {Never} /\ sinceUp[s] \in Ages
      BY <1>0, <2>2 DEF Controllers, SambaTyped
    <3>4. c.downSince # Never => c.downSince <= sinceUp[s]
      BY <1>0, TheController, NewIsAController DEF c, WindowInv, ClocksTrail
    <3> QED
      BY <3>2, <3>3, <3>4, Times DEF StartAge
  <2>5. StabilityIsKept(s)
    <3> SUFFICES ASSUME Flag(s), ~Flag(s)', controller[s] # NoController,
                        "server_unreachable" \in controller[s].reasons
                 PROVE  sinceDown[s] >= Stability
      BY DEF StabilityIsKept
    <3>1. c = controller[s]
      BY <1>0, TheController DEF c
    <3>2. "server_unreachable" \notin o.reasons
      BY <2>3
    <3>3. ~(StartAge(c.healthySince) < Stability)
      BY <2>2, <3>1, <3>2, ObservedIs DEF o
    <3>4. c.healthySince \in Ages \cup {Never} /\ sinceDown[s] \in Ages
      BY <1>0, <2>2 DEF Controllers, SambaTyped
    <3>5. c.healthySince # Never => c.healthySince <= sinceDown[s]
      BY <3>1 DEF WindowInv, ClocksTrail
    <3> QED
      BY <3>3, <3>4, <3>5, Times DEF StartAge
  <2> QED
    BY <2>4, <2>5
<1>2. CASE Hold(s) \/ Resume(s)
  <2>1. holds' # holds
    BY <1>0, <1>2 DEF Hold, Resume, SambaTyped
  <2>2. Flag(s)' <=> controller'[s].reasons # {}
    BY <1>0, <1>2, Applied DEF Hold, Resume, Flag
  <2>3. (controller[s] # NoController /\ "server_unreachable" \in controller[s].reasons)
           => "server_unreachable" \in controller'[s].reasons
    <3> SUFFICES ASSUME controller[s] # NoController,
                        "server_unreachable" \in controller[s].reasons
                 PROVE  "server_unreachable" \in controller'[s].reasons
      OBVIOUS
    <3>1. controller[s] \in Controllers /\ ControllerFor(s) = controller[s]
      BY <1>0, TheController DEF SambaTyped
    <3>2. \/ controller'[s].reasons = controller[s].reasons \cup {"manual"}
          \/ controller'[s].reasons = controller[s].reasons \ {"manual"}
      <4>1. CASE Hold(s)
        <5>1. controller'[s] = [controller[s] EXCEPT !.hold = TRUE, !.reasons = @ \cup {"manual"}]
          BY <1>0, <3>1, <4>1 DEF Hold, SambaTyped
        <5> QED
          BY <3>1, <5>1 DEF Controllers
      <4>2. CASE Resume(s)
        <5>1. controller'[s] = [controller[s] EXCEPT !.hold = FALSE, !.reasons = @ \ {"manual"}]
          BY <1>0, <3>1, <4>2 DEF Resume, SambaTyped, Controllers
        <5> QED
          BY <3>1, <5>1 DEF Controllers
      <4> QED
        BY <1>2, <4>1, <4>2
    <3> QED
      BY <3>2
  <2> QED
    BY <2>1, <2>2, <2>3 DEF GraceIsKept, StabilityIsKept
<1>3. ASSUME \/ row'[s] = row[s]
             \/ row[s] = NoRow /\ ~Flag(s)'
             \/ row'[s] = NoRow
             \/ row[s] # NoRow /\ row'[s].failover = row[s].failover
      PROVE  GraceIsKept(s) /\ StabilityIsKept(s)
  BY <1>3 DEF GraceIsKept, StabilityIsKept, Flag
<1>4. CASE EditTable(s)
  <2>1. CASE UpdateShare(s)
    <3>1. PICK new \in Patched(row[s]) : row' = [row EXCEPT ![s] = new]
      BY <2>1 DEF UpdateShare, EditRow
    <3>2. row[s] \in Rows /\ row[s] # NoRow
      BY <1>0, <2>1 DEF UpdateShare, SambaTyped
    <3>3. new.failover = row[s].failover
      BY <3>1, <3>2, PatchedAre
    <3> QED
      BY <1>0, <1>3, <3>1, <3>2, <3>3 DEF SambaTyped
  <2>2. CASE DeleteShare(s)
    BY <1>0, <1>3, <2>2 DEF DeleteShare, EditRow, SambaTyped
  <2>3. CASE CreateShare(s)
    <3>1. PICK new \in FirstRows : row' = [row EXCEPT ![s] = new]
      BY <2>3 DEF CreateShare, EditRow
    <3>2. ~new.failover
      BY <3>1, FirstRowsAre
    <3> QED
      BY <1>0, <1>3, <2>3, <3>1, <3>2 DEF CreateShare, Flag, SambaTyped
  <2> QED
    BY <1>4, <2>1, <2>2, <2>3 DEF EditTable
<1>5. ASSUME NEW t \in Shares \ {s}, EditTable(t) PROVE row'[s] = row[s]
  BY <1>0, <1>5 DEF EditTable, UpdateShare, DeleteShare, CreateShare, EditRow, SambaTyped
<1>6. ASSUME NEW t \in Shares \ {s}, Observe(t) \/ Hold(t) \/ Resume(t)
      PROVE  row'[s] = row[s]
  <2>1. row[t] # NoRow /\ \E reasons : ApplyTo(t, reasons)
    BY <1>0, <1>6 DEF Observe, Hold, Resume, SambaTyped
  <2> QED
    BY <1>0, <2>1, Applied
<1>7. ASSUME \/ StartPass \/ DiskChanges \/ Tick \/ Restart
             \/ \E t \in Shares : StatusChanges(t) \/ MachineConnects(t)
      PROVE  row'[s] = row[s]
  BY <1>7 DEF StartPass, DiskChanges, Tick, Restart, Boot, StatusChanges, MachineConnects,
              Connect, sambaVars
<1> QED
  BY <1>1, <1>2, <1>3, <1>4, <1>5, <1>6, <1>7 DEF Next

(* A lost server stops the writes of a share only after the grace period,  *)
(* and one that is back gives them back only after it was there for the    *)
(* whole stabilisation period: whatever flaps, whatever is edited.         *)
THEOREM WindowsHold == Spec => WindowsAreKept
<1>1. WindowInv /\ [Next]_vars =>
        [\A s \in Shares : GraceIsKept(s) /\ StabilityIsKept(s)]_vars
  BY FlipsAreEarned
<1> QED
  BY <1>1, WindowInit, WindowNext, PTL DEF Spec, WindowsAreKept

-----------------------------------------------------------------------------
(* What smbd is given.  The file is what was written last, unless nothing  *)
(* is remembered; it is owed when that is not what the table says; and a   *)
(* session that nothing has left behind is held to the table, as the file. *)
Sectioned == [Shares -> Sections \cup {NoRow}]

\* what the last to speak of an account has made of it, and who names one
AccountsTell ==
    \A a \in Accounts : Speak(row, a) # {} =>
      (a \in accounts <=> \E s \in Decides(row, a) : Asks(row[s], a))
Named(rows, a) == \E s \in Shares : rows[s] # NoRow /\ rows[s].user = a
\* what is not dropped is still named by those who stay
Spares(dropped) == \A a \in accounts \ dropped : Named(row, a) => Named(row', a)

SambaInv ==
    /\ file \in Sectioned /\ session \in Sectioned
    /\ written \in {NoFile, file}
    /\ owed = (written # Render(row))
    /\ \A s \in Shares \ behind : session[s] = Render(row)[s] /\ file[s] = Render(row)[s]
    /\ accounts \subseteq Accounts
    /\ refusals \in Nat /\ (refusals = 0 => AccountsTell /\ NoLoginIsLeft)

InheritedInv ==
    /\ inherited \subseteq Shares
    /\ \A s \in inherited : row[s] # NoRow => ~row[s].failover

LEMMA RenderIsSectioned ==
    ASSUME NEW rows \in [Shares -> Rows \cup {NoRow}]
    PROVE  Render(rows) \in Sectioned /\ Render(rows) # NoFile
<1>1. ASSUME NEW s \in Shares PROVE Section(rows[s]) \in Sections \cup {NoRow}
  BY DEF Section, Exported, Rows, Sections
<1> QED
  BY <1>1, TableAssumption DEF Render, Sectioned

\* an account that is there was there, or is asked for by name
LEMMA AfterIsNamed ==
    ASSUME NEW rows, NEW had, NEW a \in AccountsAfter(rows, had)
    PROVE  a \in had \/ Named(rows, a)
BY DEF AccountsAfter, Decides, Speak, Asks, Named

\* whatever the helper refuses, and whether smbd is restarted or not
LEMMA WriteKeeps ==
    ASSUME SambaInv, row' \in [Shares -> Rows \cup {NoRow}],
           NEW dropped, NEW last \in {written, NoFile}, NEW refused \in Refusals,
           Spares(dropped),
           NEW restart \in BOOLEAN, Write(row', dropped, last, refused, restart)
    PROVE  SambaInv'
<1> DEFINE content == Render(row')
           new     == ~Clash(row') /\ content # last /\ ~refused.write
           again   == new /\ restart /\ ~refused.restart
<1>1. /\ MayRefuse(refused)
      /\ Reconciled(row', dropped, refused)
      /\ file' = IF new THEN content ELSE file
      /\ written' = IF new THEN content ELSE last
      /\ owed' = (written' # content)
      /\ session' = IF again THEN content ELSE session
      /\ behind' = IF again THEN {}
                   ELSE behind \cup {s \in Shares :
                          /\ content[s] # session[s]
                          /\ ~restart \/ refused.restart \/ owed'}
  BY DEF Write
<1>2. content \in Sectioned /\ content # NoFile
  BY RenderIsSectioned
<1>3. last \in {NoFile, file}
  BY DEF SambaInv
<1>4. Render(row)' = content
  BY DEF Render
<1>5. refusals' \in Nat /\ (refusals' = 0 => refused = NoRefusal /\ refusals = 0)
  BY <1>1 DEF MayRefuse, SambaInv
<1>6. refusals' = 0 => AccountsTell' /\ NoLoginIsLeft'
  <2> SUFFICES ASSUME refusals' = 0 PROVE AccountsTell' /\ NoLoginIsLeft'
    OBVIOUS
  <2>1. accounts' = AccountsAfter(row', accounts \ dropped) /\ NoLoginIsLeft
    BY <1>1, <1>5 DEF Reconciled, NoRefusal, SambaInv
  <2>2. AccountsTell'
    BY <2>1 DEF AccountsTell, AccountsAfter, Decides, Speak
  <2>3. \A a \in accounts : Named(row, a)
    BY <1>5, <2>1 DEF NoLoginIsLeft, Named
  <2>4. \A a \in accounts' : Named(row', a)
    BY <2>1, <2>3, AfterIsNamed DEF Spares
  <2> QED
    BY <2>2, <2>4 DEF NoLoginIsLeft, Named
<1> HIDE DEF new, again, content
<1>7. ASSUME NEW s \in Shares \ behind' PROVE session'[s] = content[s] /\ file'[s] = content[s]
  <2>1. CASE again
    BY <1>1, <2>1 DEF again
  <2>2. CASE ~again
    <3>1. s \notin behind /\ session[s] = file[s]
      BY <1>1, <2>2 DEF SambaInv
    <3>2. content[s] = session[s] \/ (restart /\ ~refused.restart /\ ~owed')
      BY <1>1, <2>2
    <3>3. CASE new
      BY <1>1, <2>2, <3>2, <3>3 DEF again
    <3>4. CASE ~new
      BY <1>1, <1>2, <1>3, <2>2, <3>1, <3>2, <3>4
    <3> QED
      BY <3>3, <3>4
  <2> QED
    BY <2>1, <2>2
<1>8. file' \in Sectioned /\ session' \in Sectioned
  BY <1>1, <1>2 DEF SambaInv
<1>9. accounts' \subseteq Accounts
  BY <1>1 DEF Reconciled, AccountsAfter, AccountsLeft, SambaInv
<1> QED
  BY <1>1, <1>3, <1>4, <1>5, <1>6, <1>7, <1>8, <1>9 DEF SambaInv, Sectioned

\* a machine that connects is held to what the file says
LEMMA ConnectKeeps ==
    ASSUME SambaInv, row \in [Shares -> Rows \cup {NoRow}], NEW s \in Shares, Connect(s)
    PROVE  SambaInv'
<1>1. /\ session' = [session EXCEPT ![s] = file[s]] /\ session[s] # file[s]
      /\ behind' = IF owed THEN behind ELSE behind \ {s}
      /\ UNCHANGED <<row, accounts, file, written, owed, refusals>>
  BY DEF Connect
<1>2. /\ Render(row)' = Render(row)
      /\ AccountsTell /\ NoLoginIsLeft => AccountsTell' /\ NoLoginIsLeft'
  BY <1>1 DEF Render, AccountsTell, Decides, Speak, NoLoginIsLeft
<1>3. ASSUME NEW t \in Shares \ behind'
      PROVE  session'[t] = Render(row)[t] /\ file[t] = Render(row)[t]
  <2>1. CASE t # s
    BY <1>1, <2>1 DEF SambaInv, Sectioned
  <2>2. CASE t = s
    <3>1. ~owed
      BY <1>1, <2>2 DEF SambaInv
    <3>2. file = Render(row)
      BY <3>1, RenderIsSectioned DEF SambaInv
    <3>3. session'[s] = file[s]
      BY <1>1 DEF SambaInv, Sectioned
    <3> QED
      BY <1>1, <2>2, <3>1, <3>2, <3>3 DEF SambaInv
  <2> QED
    BY <2>1, <2>2
<1>4. session' \in Sectioned
  BY <1>1 DEF SambaInv, Sectioned
<1> QED
  BY <1>1, <1>2, <1>3, <1>4 DEF SambaInv

LEMMA SambaStarts ==
    ASSUME NEW rows \in [Shares -> Rows \cup {NoRow}], SambaStart(rows), AtStart, refusals \in Nat
    PROVE  SambaInv /\ InheritedInv
<1>1. /\ row = rows /\ accounts = AccountsAfter(row, {})
      /\ file = Render(row) /\ written = file /\ session = file
      /\ behind = {} /\ owed = FALSE /\ inherited = {}
  BY DEF AtStart, SambaStart
<1>2. file \in Sectioned
  BY <1>1, RenderIsSectioned
<1>3. AccountsTell
  BY <1>1 DEF AccountsTell, AccountsAfter
<1>4. accounts \subseteq Accounts /\ NoLoginIsLeft
  <2>1. \A a \in accounts : Named(row, a)
    BY <1>1, AfterIsNamed
  <2> QED
    BY <1>1, <2>1 DEF NoLoginIsLeft, Named, AccountsAfter
<1> QED
  BY <1>1, <1>2, <1>3, <1>4 DEF SambaInv, InheritedInv

LEMMA SambaInits == Init => SambaInv /\ InheritedInv
<1>1. [s \in Shares |-> NewRow] \in [Shares -> Rows \cup {NoRow}]
  BY DEF NewRow, Rows
<1> QED
  BY <1>1, SambaStarts DEF Init, SambaInit

\* what a step does to the table and to what is made of it
LEMMA ApplyMoves ==
    ASSUME SambaTyped, NEW s \in Shares, row[s] # NoRow, NEW reasons, ApplyTo(s, reasons)
    PROVE  \/ UNCHANGED sambaVars
           \/ \E refused \in Refusals :
                Spares({}) /\ Write(row', {}, written, refused, TRUE)
<1>1. CASE row[s].failover # (reasons # {})
  <2>1. row' = [row EXCEPT ![s].failover = (reasons # {})]
    BY <1>1 DEF ApplyTo
  <2>2. \A t \in Shares : row[t] # NoRow => row'[t] # NoRow /\ row'[t].user = row[t].user
    BY <2>1, WindowsAssumption, ZenonT(60) DEF SambaTyped, Rows
  <2>3. Spares({})
    BY <2>2 DEF Spares, Named
  <2> QED
    BY <1>1, <2>3 DEF ApplyTo, Reconcile
<1> QED
  BY <1>1 DEF ApplyTo

LEMMA EditSpares ==
    ASSUME SambaTyped, NEW s \in Shares, NEW new, NEW dropped,
           row' = [row EXCEPT ![s] = new],
           (row[s] # NoRow /\ row[s].user \in accounts \ dropped) =>
              new # NoRow /\ new.user = row[s].user
    PROVE  Spares(dropped)
<1>1. row'[s] = new /\ \A t \in Shares \ {s} : row'[t] = row[t]
  BY DEF SambaTyped
<1> QED
  BY <1>1 DEF Spares, Named

LEMMA TableMoves ==
    ASSUME SambaTyped, accounts \subseteq Accounts, Next
    PROVE  \/ UNCHANGED sambaVars
           \/ \E s \in Shares : Connect(s)
           \/ \E dropped : \E last \in {written, NoFile},
                 refused \in Refusals, restart \in BOOLEAN :
                Spares(dropped) /\ Write(row', dropped, last, refused, restart)
<1> DEFINE Writes == \E dropped : \E last \in {written, NoFile},
                        refused \in Refusals, restart \in BOOLEAN :
                       Spares(dropped) /\ Write(row', dropped, last, refused, restart)
<1>1. ASSUME NEW s \in Shares, row[s] # NoRow, NEW reasons, ApplyTo(s, reasons)
      PROVE  UNCHANGED sambaVars \/ Writes
  BY <1>1, ApplyMoves
<1>2. ASSUME NEW s \in Shares, NEW new, NEW dropped, EditRow(s, new, dropped),
             (row[s] # NoRow /\ row[s].user \in accounts \ dropped) =>
                new # NoRow /\ new.user = row[s].user
      PROVE  Writes
  <2>1. Spares(dropped)
    BY <1>2, EditSpares DEF EditRow
  <2> QED
    BY <1>2, <2>1 DEF EditRow, Reconcile
<1>3. ASSUME NEW s \in Shares, EditTable(s) PROVE Writes
  <2>1. CASE UpdateShare(s)
    <3>1. PICK new \in Patched(row[s]) :
            EditRow(s, new, IF row[s].user \in {NoUser, new.user} THEN {} ELSE Owned(s))
      BY <2>1 DEF UpdateShare
    <3>2. row[s] \in Rows
      BY <2>1 DEF UpdateShare, SambaTyped
    <3>3. new # NoRow
      BY <3>1, <3>2, PatchedAre, WindowsAssumption
    <3> QED
      BY <1>2, <3>1, <3>3, TableAssumption DEF Owned
  <2>2. CASE DeleteShare(s)
    <3>1. EditRow(s, NoRow, Owned(s))
      BY <2>2 DEF DeleteShare
    <3> QED
      BY <3>1, <1>2, TableAssumption DEF Owned
  <2>3. CASE CreateShare(s)
    <3>1. PICK new : EditRow(s, new, {})
      BY <2>3 DEF CreateShare
    <3> QED
      BY <2>3, <3>1, <1>2 DEF CreateShare
  <2> QED
    BY <1>3, <2>1, <2>2, <2>3 DEF EditTable
<1>4. CASE Restart
  <2>1. PICK refused \in Refusals : Write(row, {}, NoFile, refused, TRUE)
    BY <1>4 DEF Restart, Boot
  <2>2. row' = row
    BY <1>4 DEF Restart, Boot
  <2>3. Spares({})
    BY <2>2 DEF Spares
  <2> QED
    BY <2>1, <2>2, <2>3
<1>5. ASSUME NEW s \in Shares, Observe(s) \/ Hold(s) \/ Resume(s)
      PROVE  UNCHANGED sambaVars \/ Writes
  <2>1. PICK reasons : ApplyTo(s, reasons)
    BY <1>5 DEF Observe, Hold, Resume
  <2>2. row[s] # NoRow
    BY <1>5 DEF Observe, Hold, Resume, SambaTyped
  <2> QED
    BY <2>1, <2>2, <1>1
<1> HIDE DEF Writes
<1>6. CASE StartPass \/ DiskChanges \/ Tick
  BY <1>6 DEF StartPass, DiskChanges, Tick
<1>7. ASSUME NEW s \in Shares, StatusChanges(s) \/ MachineConnects(s)
      PROVE  UNCHANGED sambaVars \/ Connect(s)
  BY <1>7 DEF StatusChanges, MachineConnects
<1> QED
  BY <1>3, <1>4, <1>5, <1>6, <1>7 DEF Next, Writes

LEMMA SambaNext == WindowInv /\ WindowInv' /\ SambaInv /\ [Next]_vars => SambaInv'
<1> SUFFICES ASSUME WindowInv, WindowInv', SambaInv, [Next]_vars PROVE SambaInv'
  OBVIOUS
<1>1. row \in [Shares -> Rows \cup {NoRow}] /\ row' \in [Shares -> Rows \cup {NoRow}]
  BY DEF WindowInv, SambaTyped
<1>2. CASE UNCHANGED sambaVars
  BY <1>2 DEF sambaVars, SambaInv, Sectioned, Render, AccountsTell, Decides, Speak,
                NoLoginIsLeft
<1>3. ASSUME NEW s \in Shares, Connect(s) PROVE SambaInv'
  BY <1>1, <1>3, ConnectKeeps
<1>4. ASSUME NEW dropped, NEW last \in {written, NoFile}, NEW refused \in Refusals,
             NEW restart \in BOOLEAN, Spares(dropped),
             Write(row', dropped, last, refused, restart)
      PROVE  SambaInv'
  BY <1>1, <1>4, WriteKeeps
<1>5. UNCHANGED vars => UNCHANGED sambaVars
  BY DEF vars
<1>6. SambaTyped /\ accounts \subseteq Accounts
  BY DEF WindowInv, SambaInv
<1> QED
  BY <1>2, <1>3, <1>4, <1>5, <1>6, TableMoves

\* a share that took over a controller came writable, and stays so until it is fed
LEMMA InheritedNext == WindowInv /\ InheritedInv /\ [Next]_vars => InheritedInv'
<1> SUFFICES ASSUME SambaTyped, InheritedInv, [Next]_vars,
                    NEW t \in inherited'
             PROVE  t \in Shares /\ (row'[t] # NoRow => ~row'[t].failover)
  BY DEF WindowInv, InheritedInv
<1>0. t \in Shares
  <2>1. ASSUME NEW s \in Shares, Observe(s) \/ Hold(s) \/ Resume(s) PROVE t \in inherited
    BY <2>1 DEF Observe, Hold, Resume
  <2>2. ASSUME NEW s \in Shares, StatusChanges(s) \/ MachineConnects(s) PROVE t \in inherited
    BY <2>2 DEF StatusChanges, MachineConnects
  <2>3. ASSUME NEW s \in Shares, EditTable(s) PROVE t \in inherited \/ t = s
    BY <2>3 DEF EditTable
  <2>4. StartPass \/ DiskChanges \/ Tick \/ Restart \/ UNCHANGED vars => t \in inherited
    BY DEF StartPass, DiskChanges, Tick, Restart, vars
  <2> QED
    BY <2>1, <2>2, <2>3, <2>4 DEF Next, InheritedInv
<1> SUFFICES ASSUME row'[t] # NoRow PROVE ~row'[t].failover
  BY <1>0
<1>1. ASSUME t \in inherited, row'[t] = row[t] PROVE ~row'[t].failover
  BY <1>1 DEF InheritedInv
<1>2. ASSUME NEW s \in Shares, Observe(s) \/ Hold(s) \/ Resume(s) PROVE ~row'[t].failover
  <2>1. t \in inherited /\ t # s
    BY <1>2 DEF Observe, Hold, Resume
  <2>2. PICK reasons : ApplyTo(s, reasons)
    BY <1>2 DEF Observe, Hold, Resume
  <2>3. row' = row \/ row' = [row EXCEPT ![s].failover = (reasons # {})]
    BY <2>2 DEF ApplyTo, sambaVars
  <2>4. row'[t] = row[t]
    BY <1>0, <2>1, <2>3 DEF SambaTyped
  <2> QED
    BY <1>1, <2>1, <2>4
<1>3. ASSUME NEW s \in Shares, EditTable(s) PROVE ~row'[t].failover
  <2>1. CASE UpdateShare(s)
    <3>1. PICK new \in Patched(row[s]) : row' = [row EXCEPT ![s] = new]
      BY <2>1 DEF UpdateShare, EditRow
    <3>2. row[s] # NoRow /\ row[s] \in Rows
      BY <2>1 DEF UpdateShare, SambaTyped
    <3>3. new.failover = row[s].failover
      BY <3>1, <3>2, PatchedAre
    <3>4. t \in inherited
      BY <1>3, <2>1, <3>2 DEF EditTable, CreateShare
    <3>5. row'[t] = IF t = s THEN new ELSE row[t]
      BY <1>0, <3>1 DEF SambaTyped
    <3> QED
      BY <3>2, <3>3, <3>4, <3>5 DEF InheritedInv
  <2>2. CASE DeleteShare(s)
    <3>1. row' = [row EXCEPT ![s] = NoRow] /\ row[s] # NoRow
      BY <2>2 DEF DeleteShare, EditRow
    <3>2. t \in inherited
      BY <1>3, <2>2, <3>1 DEF EditTable, CreateShare
    <3>3. row'[t] = IF t = s THEN NoRow ELSE row[t]
      BY <1>0, <3>1 DEF SambaTyped
    <3> QED
      BY <1>1, <3>2, <3>3
  <2>3. CASE CreateShare(s)
    <3>1. PICK new \in FirstRows : row' = [row EXCEPT ![s] = new]
      BY <2>3 DEF CreateShare, EditRow
    <3>2. ~new.failover
      BY <3>1, FirstRowsAre
    <3>3. t \in inherited \/ t = s
      BY <1>3, <2>3 DEF EditTable
    <3>4. row'[t] = IF t = s THEN new ELSE row[t]
      BY <1>0, <3>1 DEF SambaTyped
    <3> QED
      BY <1>1, <3>2, <3>3, <3>4
  <2> QED
    BY <1>3, <2>1, <2>2, <2>3 DEF EditTable
<1>4. StartPass \/ DiskChanges \/ Tick \/ UNCHANGED vars => ~row'[t].failover
  BY <1>1 DEF StartPass, DiskChanges, Tick, sambaVars, vars
<1>5. ASSUME NEW s \in Shares, StatusChanges(s) \/ MachineConnects(s)
      PROVE  ~row'[t].failover
  BY <1>1, <1>5 DEF StatusChanges, MachineConnects, Connect, sambaVars
<1>6. CASE Restart
  BY <1>6 DEF Restart
<1> QED
  BY <1>2, <1>3, <1>4, <1>5, <1>6 DEF Next

LEMMA Inductive == Spec => [](WindowInv /\ SambaInv /\ InheritedInv)
BY WindowInit, WindowNext, SambaInits, SambaNext, InheritedNext, PTL DEF Spec

\* the account of the only share to speak of it
LEMMA LoginsFollow ==
    ASSUME SambaTyped, SambaInv, file = Render(row), AccountsTell, NEW s \in Shares,
           file[s] # NoRow, file[s].user # NoUser, row[s].password,
           ~\E t \in Shares \ {s} : row[t] # NoRow /\ file[s].user \in {row[t].user, Legacy[t]}
    PROVE  file[s].user \in accounts
<1> DEFINE u == file[s].user
<1>1. file[s] = Section(row[s]) /\ row[s] \in Rows \cup {NoRow}
  BY DEF Render, SambaTyped
<1>2. Exported(row[s]) /\ row[s] \in Rows /\ ~row[s].guest /\ row[s].user = u
  BY <1>1 DEF Section, Exported
<1>3. u \in Accounts /\ Asks(row[s], u)
  BY <1>2 DEF Rows, Exported, Asks, Accounts
<1>4. Speak(row, u) = {s}
  BY <1>3 DEF Speak, Asks, Drops
<1>5. s \in Decides(row, u)
  <2>1. Place[s] \in Nat
    BY TableAssumption
  <2> QED
    BY <1>4, <2>1 DEF Decides
<1> QED
  BY <1>3, <1>4, <1>5 DEF AccountsTell

\* what the invariants say of what smbd is given
LEMMA ExportsFollow == WindowInv /\ SambaInv /\ InheritedInv => ExportsFollowTheTable
<1>1. WindowInv /\ InheritedInv => HeldForAReason
  BY DEF WindowInv, InheritedInv, FlagTells, HeldForAReason, Flag
<1>2. ASSUME SambaTyped, SambaInv, ~owed PROVE file = Render(row)
  BY <1>2, RenderIsSectioned DEF SambaInv, SambaTyped
<1>3. WindowInv /\ SambaInv => FileFollowsTheTable /\ LoginsExist /\ NoLoginIsLeft
  BY <1>2, LoginsFollow DEF WindowInv, SambaInv, FileFollowsTheTable, LoginsExist, NoLoginIsLeft
<1> QED
  BY <1>1, <1>3 DEF ExportsFollowTheTable

LEMMA SessionsFollow == WindowInv /\ SambaInv => SessionsRefuseWrites
<1>1. ASSUME SambaTyped, SambaInv, NEW s \in Shares \ behind, Flag(s), session[s] # NoRow
      PROVE  session[s].ro
  <2>1. session[s] = Section(row[s]) /\ row[s] \in Rows /\ row[s].failover
    BY <1>1 DEF SambaTyped, SambaInv, Render, Flag
  <2>2. session[s].ro = (row[s].readOnly \/ row[s].failover)
    BY <1>1, <2>1 DEF Section
  <2> QED
    BY <2>1, <2>2 DEF Rows
<1> QED
  BY <1>1 DEF WindowInv, SessionsRefuseWrites

(* Whatever is edited, refused, flipped and restarted in whatever order,   *)
(* a share is held read-only for a reason its controller can name, the     *)
(* file is that of the table unless its write is owed, and while nothing   *)
(* was refused it names no account that is gone.                           *)
THEOREM ExportsHold == Spec => []ExportsFollowTheTable
BY ExportsFollow, Inductive, PTL

(* A share under failover takes no writes from any session that nothing    *)
(* has left behind.                                                        *)
THEOREM SessionsHold == Spec => []SessionsRefuseWrites
BY SessionsFollow, Inductive, PTL

(* What Samba reads is what the table asks for, and what it serves under   *)
(* failover takes no writes.                                               *)
THEOREM SambaHolds == Spec => []SambaFollowsTheTable
<1>1. ExportsFollowTheTable /\ SessionsRefuseWrites => SambaFollowsTheTable
  BY DEF SambaFollowsTheTable
<1> QED
  BY <1>1, ExportsHold, SessionsHold, PTL

-----------------------------------------------------------------------------
(* The supervisor.                                                         *)


Stopping == {"waiting", "unmountCheck", "unmountDo"}
Starting == {"mounting", "asserting", "probing"}

(* What a call holds when it is about to use it; and the map keeps an      *)
(* instance under the share it is of.                                      *)
CallHolds(c) ==
    /\ call[c].pc \in Stopping \cup Starting =>
         call[c].inst \in Instances /\ inst[call[c].inst] # Sup!Unused
    /\ call[c].pc \in Starting \cup {"preparing"} => call[c].share \in Supervised
    /\ call[c].pc \in Starting => inst[call[c].inst].share = call[c].share
TypeInv ==
    /\ Sup!TypeOK
    /\ supRestarts \in Nat
    /\ \A s \in Supervised : running[s] # NoInstance => inst[running[s]].share = s
    /\ \A c \in Calls : ~Sup!Idle(c) => CallHolds(c)

(* A share that runs is as the table has it, and one that does not is not  *)
(* asked for, or could not be started.                                     *)
Fits(s) == table[s] # NoRow /\ table[s].enabled /\ inst[running[s]].print = table[s].print
Excused(s) == table[s] = NoRow \/ ~table[s].enabled \/ table[s].status = "error"

(* The call under way, when no other is: what is still to be stopped and   *)
(* started is all that keeps the map from the table.                       *)
Progress(c) ==
    /\ call[c].starts \subseteq Sup!Desired(table)
    /\ (call[c].stops # {} \/ call[c].pc \in Stopping) => call[c].starts = Sup!Desired(table)
    /\ \A s \in Supervised :
         /\ (running[s] # NoInstance /\ s \notin call[c].stops) => Fits(s)
         /\ (running[s] = NoInstance /\ s \notin call[c].starts
               /\ ~(call[c].pc = "preparing" /\ call[c].share = s)) => Excused(s)
    /\ call[c].pc = "preparing" =>
         /\ running[call[c].share] = NoInstance /\ call[c].share \in Sup!Desired(table)
         /\ call[c].print = table[call[c].share].print
    /\ call[c].pc \in Starting => running[call[c].share] = call[c].inst
Ending(c) ==
    /\ call[c].starts = {} /\ call[c].pc \in Stopping \cup {"next"}
    /\ \A s \in Supervised : running[s] # NoInstance => s \in call[c].stops

Honest(c) ==
    /\ call[c].ends = supStopped
    /\ call[c].purge # NoShare => table[call[c].purge] = NoRow
    /\ call[c].pc \in Stopping => running[inst[call[c].inst].share] = NoInstance
    /\ ~supStopped => Progress(c)
    /\ supStopped => Ending(c)

Settled ==
    /\ ~supStopped => \A s \in Supervised : IF running[s] # NoInstance THEN Fits(s) ELSE Excused(s)
    /\ supStopped => \A s \in Supervised : running[s] = NoInstance

\* a cycle is of the instance in the map, or of one that is waited for
CyclesAreKnown ==
    \A i \in Instances, s \in Supervised :
      Sup!Cycling(i, s) => \/ running[s] = i
                           \/ \E c \in Calls : /\ ~Sup!Idle(c) /\ call[c].pc = "waiting"
                                               /\ call[c].inst = i

InTurn ==
    ~overlapped =>
      /\ \A c, d \in Calls : (~Sup!Idle(c) /\ ~Sup!Idle(d)) => c = d
      /\ \A c \in Calls : ~Sup!Idle(c) => Honest(c)
      /\ Sup!Quiet => Settled
      /\ CyclesAreKnown

-----------------------------------------------------------------------------
(* What the parts of a step leave as it was. *)

\* the table but for its status column
SameTable(rows) ==
    /\ rows \in [Supervised -> Sup!Rows \cup {NoRow}]
    /\ \A s \in Supervised : /\ rows[s] = NoRow <=> table[s] = NoRow
                             /\ table[s] # NoRow => /\ rows[s].enabled = table[s].enabled
                                                    /\ rows[s].print = table[s].print

LEMMA StatusOnly ==
    ASSUME Sup!MarkersAreApart, table \in [Supervised -> Sup!Rows \cup {NoRow}], NEW s, NEW st \in Sup!Statuses
    PROVE  /\ SameTable(Sup!WithStatus(s, st))
           /\ \A t \in Supervised \ {s} : Sup!WithStatus(s, st)[t] = table[t]
           /\ (s \in Supervised /\ ~supStopped /\ table[s] # NoRow) => Sup!WithStatus(s, st)[s].status = st
<1>1. CASE supStopped \/ table[s] = NoRow \/ s \notin Supervised
  <2>1. Sup!WithStatus(s, st) = table
    BY <1>1 DEF Sup!WithStatus
  <2> QED
    BY <1>1, <2>1 DEF SameTable
<1>2. CASE ~supStopped /\ table[s] # NoRow /\ s \in Supervised
  <2>1. Sup!WithStatus(s, st) = [table EXCEPT ![s].status = st] /\ table[s] \in Sup!Rows
    BY <1>2 DEF Sup!WithStatus
  <2>2. Sup!WithStatus(s, st)[s] = [table[s] EXCEPT !.status = st]
    BY <1>2, <2>1
  <2>3. [table[s] EXCEPT !.status = st] \in Sup!Rows
        /\ [table[s] EXCEPT !.status = st].enabled = table[s].enabled
        /\ [table[s] EXCEPT !.status = st].print = table[s].print
        /\ [table[s] EXCEPT !.status = st].status = st
    BY <2>1 DEF Sup!Rows
  <2>4. \A t \in Supervised \ {s} : Sup!WithStatus(s, st)[t] = table[t]
    BY <2>1
  <2>5. Sup!WithStatus(s, st) \in [Supervised -> Sup!Rows \cup {NoRow}]
    BY <1>2, <2>1, <2>3
  <2> QED
    BY <1>2, <2>2, <2>3, <2>4, <2>5, Sup!MarkersAreApart DEF SameTable, Sup!MarkersAreApart
<1> QED
  BY <1>1, <1>2

\* what an instance is of
Alike(a, b) == a \in Sup!Running /\ a.share = b.share /\ a.print = b.print

LEMMA RunningIsUsed ==
    ASSUME Sup!MarkersAreApart, inst \in [Instances -> Sup!Running \cup {Sup!Unused}],
           NEW i \in Instances, inst[i] # Sup!Unused
    PROVE  inst[i] \in Sup!Running /\ inst[i].share \in Supervised
BY DEF Sup!Running

LEMMA UsedIsNotUnused ==
    ASSUME Sup!MarkersAreApart, NEW k \in Sup!Running PROVE k # Sup!Unused
<1>1. k.share \in Supervised /\ Sup!Unused.share = NoShare
  BY DEF Sup!Running, Sup!Unused
<1> QED
  BY <1>1 DEF Sup!MarkersAreApart

LEMMA CyclesAlike ==
    ASSUME NEW k \in Sup!Running
    PROVE  Alike(Sup!CycleOf(k), k) /\ Sup!CycleOf(k).timer = k.timer
<1>1. ASSUME NEW c \in Sup!CycleStates PROVE Alike([k EXCEPT !.cycle = c], k)
                                        /\ [k EXCEPT !.cycle = c].timer = k.timer
  BY DEF Alike, Sup!Running
<1> QED
  BY <1>1 DEF Sup!CycleOf, Alike, Sup!CycleStates

LEMMA MovesAlike ==
    ASSUME NEW i, inst[i] \in Sup!Running, NEW h \in BOOLEAN
    PROVE  Alike(Sup!Moved(i, h), inst[i]) /\ Sup!Moved(i, h).cycle = inst[i].cycle
BY DEF Sup!Moved, Alike, Sup!Running

LEMMA RowsMoved ==
    ASSUME Sup!MarkersAreApart, table \in [Supervised -> Sup!Rows \cup {NoRow}], NEW i, NEW h
    PROVE  /\ SameTable(Sup!MovedRow(i, h))
           /\ \A t \in Supervised \ {inst[i].share} : Sup!MovedRow(i, h)[t] = table[t]
BY StatusOnly DEF Sup!MovedRow, SameTable, Sup!Statuses

LEMMA NewCallIs ==
    ASSUME Sup!MarkersAreApart, NEW rows, NEW purge \in Supervised \cup {NoShare}
    PROVE  /\ Sup!NewCall(rows, purge) \in Sup!CallRecords
           /\ Sup!NewCall(rows, purge).pc = "next" /\ ~Sup!NewCall(rows, purge).ends
           /\ Sup!NewCall(rows, purge).purge = purge
           /\ Sup!NewCall(rows, purge).starts = Sup!Desired(rows)
           /\ Sup!NewCall(rows, purge).stops = {s \in Supervised : /\ running[s] # NoInstance
                                               /\ \/ s \notin Sup!Desired(rows)
                                                  \/ inst[running[s]].print # rows[s].print}
BY DEF Sup!NewCall, Sup!CallRecords, Sup!MarkersAreApart, Sup!Steps, Sup!Desired

LEMMA NewCallDoesNotEnd == \A rows, purge : Sup!NewCall(rows, purge).ends = FALSE
BY DEF Sup!NewCall

-----------------------------------------------------------------------------
(* Types. *)

\* the instances there are stay, of the same share and print
InstsKept ==
    /\ inst' \in [Instances -> Sup!Running \cup {Sup!Unused}]
    /\ \A i \in Instances : inst[i] # Sup!Unused =>
         inst'[i] # Sup!Unused /\ inst'[i].share = inst[i].share /\ inst'[i].print = inst[i].print

LEMMA OneInstMoves ==
    ASSUME Sup!MarkersAreApart, inst \in [Instances -> Sup!Running \cup {Sup!Unused}],
           NEW i \in Instances, inst[i] # Sup!Unused,
           NEW k, Alike(k, inst[i]), inst' = [inst EXCEPT ![i] = k]
    PROVE  InstsKept
BY UsedIsNotUnused DEF InstsKept, Alike

LEMMA InstsStay ==
    ASSUME inst \in [Instances -> Sup!Running \cup {Sup!Unused}], UNCHANGED inst PROVE InstsKept
BY DEF InstsKept

LEMMA TypeKept ==
    ASSUME TypeInv, InstsKept, table' \in [Supervised -> Sup!Rows \cup {NoRow}],
           running' \in [Supervised -> Instances \cup {NoInstance}],
           \A s \in Supervised : (running'[s] # NoInstance /\ running'[s] # running[s]) =>
                               inst'[running'[s]] # Sup!Unused /\ inst'[running'[s]].share = s,
           supStopped' \in BOOLEAN, serverUp' \in BOOLEAN, overlapped' \in BOOLEAN,
           mounted' \in [Supervised -> BOOLEAN], supRestarts' \in Nat,
           call' \in [Calls -> Sup!CallRecords \cup {NoCall}],
           \A c \in Calls : (call'[c] # NoCall /\ call'[c] # call[c]) => CallHolds(c)'
    PROVE  TypeInv'
<1>1. \A s \in Supervised : running'[s] # NoInstance =>
                          inst'[running'[s]] # Sup!Unused /\ inst'[running'[s]].share = s
  BY DEF TypeInv, Sup!TypeOK, InstsKept
<1>2. ASSUME NEW c \in Calls, call'[c] # NoCall PROVE CallHolds(c)'
  BY <1>2 DEF TypeInv, CallHolds, Sup!Idle, InstsKept
<1> QED
  BY <1>1, <1>2 DEF TypeInv, Sup!TypeOK, InstsKept, Sup!Idle

\* a step of a call that changes no instance, and the map in no other way than to forget
LEMMA CallTyped ==
    ASSUME TypeInv, NEW c \in Calls, ~Sup!Idle(c), NEW k \in Sup!CallRecords \cup {NoCall},
           call' = [call EXCEPT ![c] = k]
    PROVE  /\ call' \in [Calls -> Sup!CallRecords \cup {NoCall}] /\ call'[c] = k
           /\ \A d \in Calls \ {c} : call'[d] = call[d]
BY DEF TypeInv, Sup!TypeOK

LEMMA TypeInit == ASSUME Sup!MarkersAreApart PROVE Sup!Init => TypeInv
<1> SUFFICES ASSUME Sup!Init PROVE TypeInv
  OBVIOUS
<1>1. Sup!NewCall(table, NoShare) \in Sup!CallRecords /\ Sup!NewCall(table, NoShare).pc = "next"
  BY NewCallIs
<1>2. call \in [Calls -> Sup!CallRecords \cup {NoCall}]
      /\ \A c \in Calls : ~Sup!Idle(c) => call[c].pc = "next"
  BY <1>1 DEF Sup!Init, Sup!Idle
<1>3. table \in [Supervised -> Sup!Rows \cup {NoRow}]
  BY DEF Sup!Init, Sup!NewRow, Sup!Rows, Sup!Statuses, Sup!MarkersAreApart
<1> QED
  BY <1>2, <1>3 DEF Sup!Init, TypeInv, Sup!TypeOK, CallHolds, Stopping, Starting

\* the end of a start: a timer for its own instance, a cycle for the one in the map
LEMMA StartedIs ==
    ASSUME Sup!MarkersAreApart, TypeInv, NEW c \in Calls, ~Sup!Idle(c), call[c].pc \in Starting,
           NEW k, Alike(k, inst[call[c].inst]), k.cycle = inst[call[c].inst].cycle,
           NEW rows, Sup!Started(c, k, rows)
    PROVE  /\ InstsKept /\ table' = rows
           /\ call' = [call EXCEPT ![c] = [call[c] EXCEPT !.pc = "next", !.inst = NoInstance,
                                                          !.share = NoShare]]
           /\ \A j \in Instances : (inst[j] # Sup!Unused /\ j # running[call[c].share]) =>
                                     inst'[j].cycle = inst[j].cycle
           /\ \A j \in Instances : inst[j] = Sup!Unused => inst'[j] = Sup!Unused
<1> DEFINE i == call[c].inst
           s == call[c].share
           j == running[s]
           own == [k EXCEPT !.timer = TRUE]
           timed == [inst EXCEPT ![i] = own]
<1>1. /\ inst' = IF j = NoInstance THEN timed ELSE [timed EXCEPT ![j] = Sup!CycleOf(@)]
      /\ table' = rows
      /\ call' = [call EXCEPT ![c] = [call[c] EXCEPT !.pc = "next", !.inst = NoInstance,
                                                     !.share = NoShare]]
  BY DEF Sup!Started
<1>2. i \in Instances /\ inst[i] # Sup!Unused /\ s \in Supervised
      /\ inst \in [Instances -> Sup!Running \cup {Sup!Unused}]
      /\ running \in [Supervised -> Instances \cup {NoInstance}]
      /\ (j # NoInstance => j \in Instances /\ inst[j] # Sup!Unused)
  BY DEF TypeInv, Sup!TypeOK, CallHolds, Starting
<1>3. k \in Sup!Running /\ own \in Sup!Running /\ Alike(own, inst[i]) /\ own.cycle = inst[i].cycle
  BY DEF Alike, Sup!Running
<1> HIDE DEF own
<1>4. /\ timed \in [Instances -> Sup!Running \cup {Sup!Unused}]
      /\ \A n \in Instances : timed[n] = IF n = i THEN own ELSE inst[n]
  BY <1>2, <1>3
<1> HIDE DEF timed
<1>5. CASE j = NoInstance
  BY <1>1, <1>2, <1>3, <1>4, <1>5, UsedIsNotUnused DEF InstsKept, Alike
<1>6. CASE j # NoInstance
  <2>1. timed[j] \in Sup!Running
    BY <1>2, <1>3, <1>4, <1>6
  <2>2. Alike(Sup!CycleOf(timed[j]), timed[j])
    BY <2>1, CyclesAlike
  <2>3. inst' = [timed EXCEPT ![j] = Sup!CycleOf(timed[j])]
    BY <1>1, <1>6
  <2> DEFINE new == Sup!CycleOf(timed[j])
  <2>4. Alike(new, timed[j]) /\ inst' = [timed EXCEPT ![j] = new]
    BY <2>2, <2>3
  <2> HIDE DEF new
  <2>5. \A n \in Instances : inst'[n] = IF n = j THEN new ELSE timed[n]
    BY <1>4, <2>4
  <2>6. InstsKept
    BY <1>2, <1>3, <1>4, <1>6, <2>4, <2>5, UsedIsNotUnused DEF InstsKept, Alike
  <2> QED
    BY <1>1, <1>2, <1>3, <1>4, <1>6, <2>4, <2>5, <2>6
<1> QED
  BY <1>5, <1>6

LEMMA TypeNext == ASSUME Sup!MarkersAreApart PROVE TypeInv /\ [Sup!Next]_(Sup!vars) => TypeInv'
<1> SUFFICES ASSUME TypeInv, [Sup!Next]_(Sup!vars) PROVE TypeInv'
  OBVIOUS
<1> USE DEF Sup!budgets, Sup!Idle
<1>0. /\ table \in [Supervised -> Sup!Rows \cup {NoRow}]
      /\ running \in [Supervised -> Instances \cup {NoInstance}]
      /\ inst \in [Instances -> Sup!Running \cup {Sup!Unused}]
      /\ call \in [Calls -> Sup!CallRecords \cup {NoCall}]
      /\ supStopped \in BOOLEAN /\ serverUp \in BOOLEAN /\ overlapped \in BOOLEAN
      /\ mounted \in [Supervised -> BOOLEAN] /\ supRestarts \in Nat
      /\ \A s \in Supervised : running[s] # NoInstance =>
           inst[running[s]] # Sup!Unused /\ running[s] \in Instances
  BY DEF TypeInv, Sup!TypeOK
<1>1. ASSUME UNCHANGED inst PROVE InstsKept
  BY <1>0, <1>1, InstsStay
<1>2. ASSUME NEW c \in Calls, NEW rows \in [Supervised -> Sup!Rows \cup {NoRow}],
             NEW purge \in Supervised \cup {NoShare}, Sup!Edit(c, rows, purge)
      PROVE  TypeInv'
  <2>1. /\ call' = [call EXCEPT ![c] = Sup!NewCall(rows, purge)] /\ table' = rows
        /\ overlapped' \in BOOLEAN
        /\ UNCHANGED <<running, inst, supStopped, mounted, serverUp, supRestarts>>
    BY <1>2 DEF Sup!Edit, Sup!Begin
  <2>2. Sup!NewCall(rows, purge) \in Sup!CallRecords /\ Sup!NewCall(rows, purge).pc = "next"
    BY NewCallIs
  <2>3. \A d \in Calls : call'[d] # call[d] => call'[d].pc = "next"
    BY <1>0, <2>1, <2>2
  <2>4. \A d \in Calls : (call'[d] # NoCall /\ call'[d] # call[d]) => CallHolds(d)'
    BY <2>3 DEF CallHolds, Stopping, Starting
  <2> QED
    BY <1>0, <1>1, <2>1, <2>2, <2>4, TypeKept
<1>3. ASSUME NEW c \in Calls, Sup!Ask(c) PROVE TypeInv'
  <2>1. ASSUME NEW s \in Supervised, Sup!UpdateShare(c, s) PROVE TypeInv'
    <3>1. table[s] \in Sup!Rows
      BY <1>0, <2>1 DEF Sup!UpdateShare
    <3>2. [table EXCEPT ![s].enabled = ~@] \in [Supervised -> Sup!Rows \cup {NoRow}]
      BY <1>0, <3>1 DEF Sup!Rows
    <3>3. \A p \in Prints : [table EXCEPT ![s].print = p] \in [Supervised -> Sup!Rows \cup {NoRow}]
      BY <1>0, <3>1 DEF Sup!Rows
    <3> QED
      BY <1>2, <2>1, <3>2, <3>3 DEF Sup!UpdateShare
  <2>2. ASSUME NEW s \in Supervised, Sup!CreateShare(c, s) PROVE TypeInv'
    <3>1. PICK p \in Prints : Sup!Edit(c, [table EXCEPT ![s] = Sup!NewRow(p)], NoShare)
      BY <2>2 DEF Sup!CreateShare
    <3>2. Sup!NewRow(p) \in Sup!Rows
      BY DEF Sup!NewRow, Sup!Rows, Sup!Statuses
    <3>3. [table EXCEPT ![s] = Sup!NewRow(p)] \in [Supervised -> Sup!Rows \cup {NoRow}]
      BY <1>0, <3>2
    <3> QED
      BY <1>2, <3>1, <3>3
  <2>3. ASSUME NEW s \in Supervised, Sup!DeleteShare(c, s) PROVE TypeInv'
    <3>1. [table EXCEPT ![s] = NoRow] \in [Supervised -> Sup!Rows \cup {NoRow}]
      BY <1>0
    <3> QED
      BY <1>2, <2>3, <3>1 DEF Sup!DeleteShare
  <2>4. CASE Sup!AskToConverge(c)
    BY <1>0, <1>2, <2>4 DEF Sup!AskToConverge
  <2>5. CASE Sup!Stop(c)
    <3> DEFINE all == {s \in Supervised : running[s] # NoInstance}
               n == Sup!NewCall(table, NoShare)
               k == [n EXCEPT !.stops = all, !.starts = {}, !.ends = TRUE]
    <3>1. k \in Sup!CallRecords /\ k.pc = "next"
      <4>1. n \in Sup!CallRecords /\ n.pc = "next" /\ all \in SUBSET Supervised
        BY NewCallIs
      <4> HIDE DEF n, all
      <4> QED
        BY <4>1 DEF Sup!CallRecords
    <3> HIDE DEF k
    <3>2. /\ call' = [call EXCEPT ![c] = k] /\ supStopped' = TRUE /\ overlapped' \in BOOLEAN
          /\ UNCHANGED <<table, running, inst, mounted, serverUp, supRestarts>>
      BY <1>0, <2>5 DEF Sup!Stop, k
    <3>3. \A d \in Calls : call'[d] # call[d] => call'[d].pc = "next"
      BY <1>0, <3>1, <3>2
    <3>4. \A d \in Calls : (call'[d] # NoCall /\ call'[d] # call[d]) => CallHolds(d)'
      BY <3>3 DEF CallHolds, Stopping, Starting
    <3> QED
      BY <1>0, <1>1, <3>1, <3>2, <3>4, TypeKept
  <2>6. CASE Sup!Restart(c)
    <3> DEFINE n == Sup!NewCall(table, NoShare)
               k == [n EXCEPT !.stops = {}]
    <3>1. k \in Sup!CallRecords /\ k.pc = "next"
      <4>1. n \in Sup!CallRecords /\ n.pc = "next"
        BY NewCallIs
      <4> HIDE DEF n
      <4> QED
        BY <4>1 DEF Sup!CallRecords
    <3> HIDE DEF k
    <3>2. /\ call' = [d \in Calls |-> IF d # c THEN NoCall ELSE k]
          /\ running' = [s \in Supervised |-> NoInstance] /\ inst' = [i \in Instances |-> Sup!Unused]
          /\ supStopped' = FALSE /\ overlapped' = FALSE /\ supRestarts' = supRestarts + 1
          /\ UNCHANGED <<table, mounted, serverUp>>
      BY <2>6 DEF Sup!Restart, k
    <3>3. \A d \in Calls : call'[d] # NoCall => call'[d].pc = "next"
      BY <3>1, <3>2
    <3>4. \A s \in Supervised : running'[s] = NoInstance
      BY <3>2
    <3>5. Sup!TypeOK' /\ supRestarts' \in Nat
      <4>1. call' \in [Calls -> Sup!CallRecords \cup {NoCall}]
        BY <3>1, <3>2
      <4>2. inst' \in [Instances -> Sup!Running \cup {Sup!Unused}]
            /\ running' \in [Supervised -> Instances \cup {NoInstance}]
        BY <3>2
      <4> QED
        <5>1. supStopped' \in BOOLEAN /\ overlapped' \in BOOLEAN
          BY <3>2, Zenon
        <5>2. /\ table' \in [Supervised -> Sup!Rows \cup {NoRow}] /\ serverUp' \in BOOLEAN
              /\ mounted' \in [Supervised -> BOOLEAN]
          BY <1>0, <3>2
        <5> QED
          BY <1>0, <3>2, <3>4, <4>1, <4>2, <5>1, <5>2 DEF Sup!TypeOK
    <3>6. \A d \in Calls : call'[d] # NoCall => CallHolds(d)'
      BY <3>3 DEF CallHolds, Stopping, Starting
    <3> QED
      BY <3>4, <3>5, <3>6 DEF TypeInv
  <2> QED
    BY <1>3, <2>1, <2>2, <2>3, <2>4, <2>5, <2>6 DEF Sup!Ask
<1>4. ASSUME NEW c \in Calls, Sup!StopNext(c) PROVE TypeInv'
  <2>1. call[c] \in Sup!CallRecords /\ ~Sup!Idle(c) /\ UNCHANGED <<table, supStopped, mounted, serverUp,
                                                                   overlapped, supRestarts>>
    BY <1>0, <1>4 DEF Sup!StopNext
  <2>2. PICK s \in call[c].stops :
          LET i == running[s]
              left == [call[c] EXCEPT !.stops = @ \ {s}]
          IN  IF i = NoInstance
              THEN /\ call' = [call EXCEPT ![c] = left] /\ UNCHANGED <<running, inst>>
              ELSE /\ running' = [running EXCEPT ![s] = NoInstance]
                   /\ inst' = [inst EXCEPT ![i].timer = FALSE]
                   /\ call' = [call EXCEPT ![c] = [left EXCEPT !.pc = "waiting", !.inst = i]]
    BY <1>4 DEF Sup!StopNext
  <2> DEFINE left == [call[c] EXCEPT !.stops = @ \ {s}]
  <2>3. s \in Supervised /\ left \in Sup!CallRecords /\ left.pc = call[c].pc
        /\ left.inst = call[c].inst /\ left.share = call[c].share
    BY <2>1 DEF Sup!CallRecords
  <2>4. CASE running[s] = NoInstance
    <3>1. call' = [call EXCEPT ![c] = left] /\ UNCHANGED <<running, inst>>
      BY <2>2, <2>4
    <3>2. CallHolds(c)'
      BY <1>0, <2>1, <2>3, <3>1 DEF TypeInv, CallHolds
    <3> QED
      BY <1>0, <1>1, <2>1, <2>3, <3>1, <3>2, CallTyped, TypeKept
  <2>5. CASE running[s] # NoInstance
    <3> DEFINE i == running[s]
               k == [left EXCEPT !.pc = "waiting", !.inst = i]
               old == [inst[i] EXCEPT !.timer = FALSE]
    <3>1. /\ running' = [running EXCEPT ![s] = NoInstance]
          /\ inst' = [inst EXCEPT ![i] = old]
          /\ call' = [call EXCEPT ![c] = k]
      BY <2>2, <2>5
    <3>2. i \in Instances /\ inst[i] # Sup!Unused /\ inst[i] \in Sup!Running
      BY <1>0, <2>3, <2>5, RunningIsUsed
    <3>3. Alike(old, inst[i])
      BY <3>2 DEF Alike, Sup!Running
    <3>4. k \in Sup!CallRecords /\ k.pc = "waiting" /\ k.inst = i
      BY <2>3, <3>2 DEF Sup!CallRecords, Sup!Steps
    <3> HIDE DEF old, k, left
    <3>5. InstsKept
      BY <1>0, <3>1, <3>2, <3>3, OneInstMoves
    <3>6. CallHolds(c)'
      BY <1>0, <3>1, <3>2, <3>4, <3>5 DEF CallHolds, Starting, Stopping, InstsKept
    <3> QED
      BY <1>0, <2>1, <2>3, <3>1, <3>2, <3>4, <3>5, <3>6, CallTyped, TypeKept
  <2> QED
    BY <2>4, <2>5
<1>5. ASSUME NEW c \in Calls, Sup!CycleIsOver(c) PROVE TypeInv'
  <2> DEFINE k == [call[c] EXCEPT !.pc = "unmountCheck"]
  <2>1. call[c] \in Sup!CallRecords /\ ~Sup!Idle(c) /\ call[c].pc = "waiting"
        /\ call' = [call EXCEPT ![c] = k]
        /\ UNCHANGED <<table, running, inst, supStopped, mounted, serverUp, overlapped, supRestarts>>
    BY <1>0, <1>5 DEF Sup!CycleIsOver
  <2>2. k \in Sup!CallRecords /\ k.pc = "unmountCheck" /\ k.inst = call[c].inst
    BY <2>1 DEF Sup!CallRecords, Sup!Steps
  <2> HIDE DEF k
  <2>3. CallHolds(c)'
    BY <1>0, <2>1, <2>2 DEF TypeInv, CallHolds, Stopping, Starting
  <2> QED
    BY <1>0, <1>1, <2>1, <2>2, <2>3, CallTyped, TypeKept
<1>6. ASSUME NEW c \in Calls, Sup!UnmountCheck(c) \/ Sup!UnmountDo(c) PROVE TypeInv'
  <2> DEFINE i == call[c].inst
             done == [call[c] EXCEPT !.pc = "next", !.inst = NoInstance]
             going == [call[c] EXCEPT !.pc = "unmountDo"]
  <2>1. call[c] \in Sup!CallRecords /\ ~Sup!Idle(c) /\ call[c].pc \in {"unmountCheck", "unmountDo"}
        /\ UNCHANGED <<running, supStopped, serverUp, overlapped, supRestarts>>
    BY <1>0, <1>6 DEF Sup!UnmountCheck, Sup!UnmountDo
  <2>2. i \in Instances /\ inst[i] # Sup!Unused /\ inst[i] \in Sup!Running /\ inst[i].share \in Supervised
    BY <1>0, <2>1, RunningIsUsed DEF TypeInv, CallHolds, Stopping
  <2>3. done \in Sup!CallRecords /\ done.pc = "next"
        /\ going \in Sup!CallRecords /\ going.pc = "unmountDo" /\ going.inst = i
    BY <2>1 DEF Sup!CallRecords, Sup!Steps
  <2>4. call' = [call EXCEPT ![c] = done] \/ call' = [call EXCEPT ![c] = going]
    BY <1>6 DEF Sup!UnmountCheck, Sup!UnmountDo
  <2>5. mounted' \in [Supervised -> BOOLEAN]
    BY <1>0, <1>6, <2>2 DEF Sup!UnmountCheck, Sup!UnmountDo
  <2>6. \/ inst' = inst /\ table' = table
        \/ inst' = [inst EXCEPT ![i] = Sup!Moved(i, FALSE)] /\ table' = Sup!MovedRow(i, FALSE)
    BY <1>6 DEF Sup!UnmountCheck, Sup!UnmountDo
  <2> HIDE DEF done, going
  <2>7. InstsKept /\ table' \in [Supervised -> Sup!Rows \cup {NoRow}]
    <3>1. Alike(Sup!Moved(i, FALSE), inst[i])
      BY <2>2, MovesAlike
    <3>2. Sup!MovedRow(i, FALSE) \in [Supervised -> Sup!Rows \cup {NoRow}]
      BY <1>0, RowsMoved DEF SameTable
    <3>3. inst' = [inst EXCEPT ![i] = Sup!Moved(i, FALSE)] => InstsKept
      BY <1>0, <2>2, <3>1, OneInstMoves
    <3> QED
      BY <1>0, <1>1, <2>6, <3>2, <3>3
  <2>8. call' \in [Calls -> Sup!CallRecords \cup {NoCall}] /\ call'[c] \in {done, going}
        /\ \A d \in Calls \ {c} : call'[d] = call[d]
    BY <1>0, <2>1, <2>3, <2>4
  <2>9. CallHolds(c)'
    BY <2>2, <2>3, <2>7, <2>8 DEF CallHolds, Stopping, Starting, InstsKept
  <2> QED
    BY <1>0, <2>1, <2>5, <2>7, <2>8, <2>9, TypeKept
<1>7. ASSUME NEW c \in Calls, Sup!StartNext(c) PROVE TypeInv'
  <2>1. call[c] \in Sup!CallRecords /\ ~Sup!Idle(c) /\ call[c].pc = "next"
        /\ UNCHANGED <<table, running, inst, supStopped, mounted, serverUp, overlapped, supRestarts>>
    BY <1>0, <1>7 DEF Sup!StartNext
  <2>2. PICK s \in call[c].starts :
          LET left == [call[c] EXCEPT !.starts = @ \ {s}]
          IN  IF running[s] # NoInstance \/ table[s] = NoRow
              THEN call' = [call EXCEPT ![c] = left]
              ELSE call' = [call EXCEPT ![c] =
                     [left EXCEPT !.pc = "preparing", !.share = s, !.print = table[s].print]]
    BY <1>7 DEF Sup!StartNext
  <2> DEFINE left == [call[c] EXCEPT !.starts = @ \ {s}]
             k == [left EXCEPT !.pc = "preparing", !.share = s, !.print = table[s].print]
  <2>3. s \in Supervised /\ left \in Sup!CallRecords /\ left.pc = "next"
    BY <2>1 DEF Sup!CallRecords
  <2>4. table[s] # NoRow => k \in Sup!CallRecords /\ k.pc = "preparing" /\ k.share = s
    BY <1>0, <2>3 DEF Sup!CallRecords, Sup!Steps, Sup!Rows
  <2>5. \/ call' = [call EXCEPT ![c] = left]
        \/ table[s] # NoRow /\ call' = [call EXCEPT ![c] = k]
    BY <2>2
  <2> HIDE DEF left, k
  <2>6. call' \in [Calls -> Sup!CallRecords \cup {NoCall}] /\ CallHolds(c)'
        /\ \A d \in Calls \ {c} : call'[d] = call[d]
    BY <1>0, <2>3, <2>4, <2>5 DEF CallHolds, Stopping, Starting
  <2> QED
    BY <1>0, <1>1, <2>1, <2>6, TypeKept
<1>8. ASSUME NEW c \in Calls, Sup!Prepared(c) PROVE TypeInv'
  <2> DEFINE s == call[c].share
             k(i) == [call[c] EXCEPT !.pc = "mounting", !.inst = i]
             new == [share |-> s, print |-> call[c].print, online |-> FALSE, healthy |-> FALSE,
                     paused |-> FALSE, timer |-> FALSE, cycle |-> "none"]
             done == [call[c] EXCEPT !.pc = "next", !.share = NoShare]
  <2>1. call[c] \in Sup!CallRecords /\ ~Sup!Idle(c) /\ call[c].pc = "preparing"
        /\ UNCHANGED <<supStopped, mounted, serverUp, overlapped, supRestarts>>
    BY <1>0, <1>8 DEF Sup!Prepared
  <2>2. s \in Supervised
    BY <2>1 DEF TypeInv, CallHolds
  <2>3. new \in Sup!Running /\ new.share = s /\ new # Sup!Unused
    BY <2>1, <2>2, UsedIsNotUnused DEF Sup!Running, Sup!CallRecords, Sup!CycleStates
  <2>4. CASE \E i \in Sup!Fresh : /\ inst' = [inst EXCEPT ![i] = new]
                                  /\ running' = [running EXCEPT ![s] = i]
                                  /\ table' = Sup!WithStatus(s, "idle")
                                  /\ call' = [call EXCEPT ![c] = k(i)]
    <3>1. PICK i \in Sup!Fresh : /\ inst' = [inst EXCEPT ![i] = new]
                                 /\ running' = [running EXCEPT ![s] = i]
                                 /\ table' = Sup!WithStatus(s, "idle")
                                 /\ call' = [call EXCEPT ![c] = k(i)]
      BY <2>4
    <3>2. i \in Instances /\ inst[i] = Sup!Unused
      BY DEF Sup!Fresh
    <3>3. k(i) \in Sup!CallRecords /\ k(i).pc = "mounting" /\ k(i).inst = i /\ k(i).share = s
      BY <2>1, <3>2 DEF Sup!CallRecords, Sup!Steps
    <3> HIDE DEF k, new
    <3>4. InstsKept /\ inst'[i] = new
      BY <1>0, <2>3, <3>1, <3>2 DEF InstsKept
    <3>5. CallHolds(c)'
      BY <1>0, <2>2, <2>3, <3>1, <3>2, <3>3, <3>4 DEF CallHolds, Stopping, Starting
    <3>6. table' \in [Supervised -> Sup!Rows \cup {NoRow}]
      BY <1>0, <3>1, StatusOnly DEF SameTable, Sup!Statuses
    <3>7. call' \in [Calls -> Sup!CallRecords \cup {NoCall}] /\ \A d \in Calls \ {c} : call'[d] = call[d]
      BY <1>0, <3>1, <3>3
    <3>8. running' \in [Supervised -> Instances \cup {NoInstance}]
          /\ \A t \in Supervised : running'[t] # running[t] => t = s /\ running'[t] = i
      BY <1>0, <2>2, <3>1, <3>2
    <3> QED
      BY <1>0, <2>1, <2>3, <3>4, <3>5, <3>6, <3>7, <3>8, TypeKept
  <2>5. CASE running' = [running EXCEPT ![s] = NoInstance] /\ table' = Sup!WithStatus(s, "error")
             /\ call' = [call EXCEPT ![c] = done] /\ UNCHANGED inst
    <3>1. done \in Sup!CallRecords /\ done.pc = "next"
      BY <2>1 DEF Sup!CallRecords, Sup!Steps
    <3> HIDE DEF done
    <3>2. CallHolds(c)'
      BY <1>0, <2>5, <3>1 DEF CallHolds, Stopping, Starting
    <3>3. table' \in [Supervised -> Sup!Rows \cup {NoRow}]
      BY <1>0, <2>5, StatusOnly DEF SameTable, Sup!Statuses
    <3>4. running' \in [Supervised -> Instances \cup {NoInstance}]
          /\ \A t \in Supervised : running'[t] # running[t] => running'[t] = NoInstance
      BY <1>0, <2>2, <2>5
    <3> QED
      BY <1>0, <1>1, <2>1, <2>5, <3>1, <3>2, <3>3, <3>4, CallTyped, TypeKept
  <2>6. ASSUME NEW i \in Sup!Fresh,
               call' = [call EXCEPT ![c].pc = "mounting", ![c].inst = i]
        PROVE  call' = [call EXCEPT ![c] = k(i)]
    BY <1>0, <2>6
  <2>7. call' = [call EXCEPT ![c].pc = "next", ![c].share = NoShare]
          => call' = [call EXCEPT ![c] = done]
    BY <1>0
  <2>8. \/ \E i \in Sup!Fresh : /\ inst' = [inst EXCEPT ![i] = new]
                                /\ running' = [running EXCEPT ![s] = i]
                                /\ table' = Sup!WithStatus(s, "idle")
                                /\ call' = [call EXCEPT ![c].pc = "mounting", ![c].inst = i]
        \/ running' = [running EXCEPT ![s] = NoInstance] /\ table' = Sup!WithStatus(s, "error")
             /\ call' = [call EXCEPT ![c].pc = "next", ![c].share = NoShare] /\ UNCHANGED inst
    BY <1>8, Zenon DEF Sup!Prepared
  <2> HIDE DEF k, new, done
  <2> QED
    BY <2>4, <2>5, <2>6, <2>7, <2>8
<1>9. ASSUME NEW c \in Calls, ~Sup!Idle(c), call[c].pc \in Starting,
             NEW k, Alike(k, inst[call[c].inst]), k.cycle = inst[call[c].inst].cycle,
             NEW rows \in [Supervised -> Sup!Rows \cup {NoRow}], Sup!Started(c, k, rows),
             UNCHANGED <<running, supStopped, serverUp, overlapped, supRestarts, mounted>>
      PROVE  TypeInv'
  <2> DEFINE done == [call[c] EXCEPT !.pc = "next", !.inst = NoInstance, !.share = NoShare]
  <2>1. InstsKept /\ table' = rows /\ call' = [call EXCEPT ![c] = done]
    BY <1>9, StartedIs
  <2>2. done \in Sup!CallRecords /\ done.pc = "next"
    BY <1>0, <1>9, ZenonT(60) DEF Sup!CallRecords, Sup!Steps
  <2> HIDE DEF done
  <2>3. CallHolds(c)'
    BY <1>0, <2>1, <2>2 DEF CallHolds, Stopping, Starting
  <2> QED
    BY <1>0, <1>9, <2>1, <2>2, <2>3, CallTyped, TypeKept, SMTT(40)
<1>10. ASSUME NEW c \in Calls, ~Sup!Idle(c), call[c].pc \in Starting, NEW pc \in Starting,
              call' = [call EXCEPT ![c].pc = pc], mounted' \in [Supervised -> BOOLEAN],
              UNCHANGED <<table, inst, running, supStopped, serverUp, overlapped, supRestarts>>
       PROVE  TypeInv'
  <2> DEFINE k == [call[c] EXCEPT !.pc = pc]
  <2>1. call[c] \in Sup!CallRecords /\ call' = [call EXCEPT ![c] = k]
    BY <1>0, <1>10
  <2>2. k \in Sup!CallRecords /\ k.pc = pc /\ k.inst = call[c].inst /\ k.share = call[c].share
    BY <1>10, <2>1 DEF Sup!CallRecords, Sup!Steps, Starting
  <2> HIDE DEF k
  <2>3. CallHolds(c)'
    BY <1>0, <1>10, <2>1, <2>2 DEF TypeInv, CallHolds, Stopping, Starting
  <2> QED
    BY <1>0, <1>1, <1>10, <2>1, <2>2, <2>3, CallTyped, TypeKept
<1>11. ASSUME NEW c \in Calls, ~Sup!Idle(c), call[c].pc \in Starting, Sup!MountFails(c),
              UNCHANGED <<running, supStopped, serverUp, overlapped, supRestarts, mounted>>
       PROVE  TypeInv'
  <2>1. inst[call[c].inst] \in Sup!Running
    BY <1>0, <1>11, RunningIsUsed DEF TypeInv, CallHolds, Starting
  <2>2. Alike(inst[call[c].inst], inst[call[c].inst])
    BY <2>1 DEF Alike
  <2>3. Sup!WithStatus(call[c].share, "offline") \in [Supervised -> Sup!Rows \cup {NoRow}]
    BY <1>0, StatusOnly DEF Sup!Statuses, SameTable
  <2> QED
    BY <1>9, <1>11, <2>2, <2>3 DEF Sup!MountFails
<1>12. ASSUME NEW c \in Calls, Sup!Mounting(c) PROVE TypeInv'
  <2>1. ~Sup!Idle(c) /\ call[c].pc \in Starting /\ call[c].share \in Supervised
        /\ UNCHANGED <<running, supStopped, serverUp, overlapped, supRestarts>>
    BY <1>12 DEF Sup!Mounting, Starting, TypeInv, CallHolds
  <2>2. [mounted EXCEPT ![call[c].share] = TRUE] \in [Supervised -> BOOLEAN]
    BY <1>0, <2>1
  <2>3. \/ /\ call' = [call EXCEPT ![c].pc = "asserting"]
           /\ mounted' = [mounted EXCEPT ![call[c].share] = TRUE] /\ UNCHANGED <<inst, table>>
        \/ Sup!MountFails(c) /\ UNCHANGED mounted
    BY <1>12 DEF Sup!Mounting
  <2> QED
    BY <1>10, <1>11, <2>1, <2>2, <2>3 DEF Starting
<1>13. ASSUME NEW c \in Calls, Sup!Asserting(c) PROVE TypeInv'
  <2>1. ~Sup!Idle(c) /\ call[c].pc \in Starting
        /\ UNCHANGED <<running, supStopped, serverUp, overlapped, supRestarts, mounted>>
    BY <1>13 DEF Sup!Asserting, Starting
  <2>2. \/ call' = [call EXCEPT ![c].pc = "probing"] /\ UNCHANGED <<inst, table>>
        \/ Sup!MountFails(c)
    BY <1>13 DEF Sup!Asserting
  <2> QED
    BY <1>0, <1>10, <1>11, <2>1, <2>2 DEF Starting
<1>14. ASSUME NEW c \in Calls, Sup!Probing(c) PROVE TypeInv'
  <2> DEFINE i == call[c].inst
             well == [inst[i] EXCEPT !.healthy = TRUE, !.online = TRUE]
  <2>1. ~Sup!Idle(c) /\ call[c].pc \in Starting
        /\ UNCHANGED <<running, supStopped, serverUp, overlapped, supRestarts, mounted>>
    BY <1>14 DEF Sup!Probing, Starting
  <2>2. inst[i] \in Sup!Running
    BY <1>0, <2>1, RunningIsUsed DEF TypeInv, CallHolds, Starting
  <2>3. Alike(well, inst[i]) /\ well.cycle = inst[i].cycle
    BY <2>2 DEF Alike, Sup!Running
  <2>4. Sup!MovedRow(i, TRUE) \in [Supervised -> Sup!Rows \cup {NoRow}]
    BY <1>0, RowsMoved DEF SameTable
  <2>5. Sup!Started(c, well, Sup!MovedRow(i, TRUE)) \/ Sup!MountFails(c)
    BY <1>14 DEF Sup!Probing
  <2> HIDE DEF well
  <2> QED
    BY <1>9, <1>11, <2>1, <2>3, <2>4, <2>5
<1>15. ASSUME NEW c \in Calls, Sup!Finish(c) PROVE TypeInv'
  <2>1. call' = [call EXCEPT ![c] = NoCall] /\ ~Sup!Idle(c)
        /\ UNCHANGED <<table, running, inst, supStopped, mounted, serverUp, overlapped, supRestarts>>
    BY <1>15 DEF Sup!Finish
  <2> QED
    BY <1>0, <1>1, <2>1, CallTyped, TypeKept
<1>16. ASSUME NEW i \in Instances, inst[i] # Sup!Unused, NEW k, Alike(k, inst[i]),
              inst' = [inst EXCEPT ![i] = k], table' \in [Supervised -> Sup!Rows \cup {NoRow}],
              UNCHANGED <<running, call, supStopped, mounted, serverUp, overlapped, supRestarts>>
       PROVE  TypeInv'
  <2>1. InstsKept
    BY <1>0, <1>16, OneInstMoves
  <2> QED
    BY <1>0, <1>16, <2>1, TypeKept
<1>17. ASSUME NEW s \in Supervised, Sup!SetPaused(s) \/ Sup!StartCycle(s) PROVE TypeInv'
  <2> DEFINE i == running[s]
             held == [inst[i] EXCEPT !.paused = ~@]
  <2>1. i \in Instances /\ inst[i] # Sup!Unused /\ inst[i] \in Sup!Running
    BY <1>0, <1>17, RunningIsUsed DEF Sup!SetPaused, Sup!StartCycle
  <2>2. Alike(held, inst[i]) /\ Alike(Sup!CycleOf(inst[i]), inst[i])
    BY <2>1, CyclesAlike DEF Alike, Sup!Running
  <2>3. Sup!WithStatus(s, IF inst[i].paused THEN "idle" ELSE "paused") \in [Supervised -> Sup!Rows \cup {NoRow}]
    BY <1>0, StatusOnly DEF Sup!Statuses, SameTable
  <2>4. CASE Sup!SetPaused(s)
    <3>1. inst' = [inst EXCEPT ![i] = held]
          /\ table' = Sup!WithStatus(s, IF inst[i].paused THEN "idle" ELSE "paused")
          /\ UNCHANGED <<running, call, supStopped, mounted, serverUp, overlapped, supRestarts>>
      BY <2>4 DEF Sup!SetPaused
    <3> HIDE DEF held
    <3> QED
      BY <1>16, <2>1, <2>2, <2>3, <3>1
  <2>5. CASE Sup!StartCycle(s)
    <3>1. inst' = [inst EXCEPT ![i] = Sup!CycleOf(inst[i])]
          /\ UNCHANGED <<table, running, call, supStopped, mounted, serverUp, overlapped, supRestarts>>
      BY <2>5 DEF Sup!StartCycle
    <3> QED
      BY <1>0, <1>16, <2>1, <2>2, <3>1
  <2> QED
    BY <1>17, <2>4, <2>5
<1>18. ASSUME NEW i \in Instances, Sup!EndCycle(i) PROVE TypeInv'
  <2> DEFINE over == [inst[i] EXCEPT !.cycle = "none"]
  <2>1. inst[i] # Sup!Unused /\ inst[i] \in Sup!Running /\ inst' = [inst EXCEPT ![i] = over]
        /\ UNCHANGED <<running, call, supStopped, mounted, serverUp, overlapped, supRestarts>>
    BY <1>0, <1>18, RunningIsUsed DEF Sup!EndCycle
  <2>2. Alike(over, inst[i])
    BY <2>1 DEF Alike, Sup!Running, Sup!CycleStates
  <2>3. PICK st \in Sup!Statuses : table' = Sup!WithStatus(inst[i].share, st)
    BY <1>18 DEF Sup!EndCycle, Sup!Statuses
  <2>4. table' \in [Supervised -> Sup!Rows \cup {NoRow}]
    BY <1>0, <2>3, StatusOnly DEF SameTable
  <2> HIDE DEF over
  <2> QED
    BY <1>16, <2>1, <2>2, <2>4
<1>19. CASE Sup!ServerLost \/ Sup!ServerBack
  <2>1. serverUp' \in BOOLEAN
    BY <1>19, Zenon DEF Sup!ServerLost, Sup!ServerBack
  <2>2. UNCHANGED <<table, running, inst, call, supStopped, mounted, overlapped, supRestarts>>
    BY <1>19 DEF Sup!ServerLost, Sup!ServerBack
  <2> QED
    BY <1>0, <1>1, <2>1, <2>2, TypeKept
<1>20. CASE UNCHANGED Sup!vars
  BY <1>0, <1>1, <1>20, TypeKept DEF Sup!vars
<1> QED
  BY <1>3, <1>4, <1>5, <1>6, <1>7, <1>8, <1>12, <1>13, <1>14, <1>15, <1>17, <1>18, <1>19,
     <1>20 DEF Sup!Next, Sup!Step

LEMMA TypeInvariant == ASSUME Sup!MarkersAreApart PROVE Sup!Spec => []TypeInv
BY TypeInit, TypeNext, PTL DEF Sup!Spec

-----------------------------------------------------------------------------
(* Calls in turn. *)

LEMMA SameDesired ==
    ASSUME SameTable(table')
    PROVE  /\ Sup!Desired(table)' = Sup!Desired(table)
           /\ \A s \in Supervised : table'[s] = NoRow <=> table[s] = NoRow
BY DEF SameTable, Sup!Desired

LEMMA FitsKept ==
    ASSUME Sup!MarkersAreApart, TypeInv, InstsKept, SameTable(table'), NEW s \in Supervised,
           running[s] # NoInstance, running'[s] = running[s], Fits(s)
    PROVE  Fits(s)'
BY DEF TypeInv, Sup!TypeOK, InstsKept, SameTable, Fits

LEMMA ExcusedKept ==
    ASSUME SameTable(table'), NEW s \in Supervised
    PROVE  /\ (table'[s] = table[s] /\ Excused(s)) => Excused(s)'
           /\ s \notin Sup!Desired(table) => Excused(s)'
BY DEF SameTable, Excused, Sup!Desired

LEMMA SameTableStays ==
    ASSUME TypeInv, UNCHANGED table PROVE SameTable(table')
BY DEF TypeInv, Sup!TypeOK, SameTable

LEMMA Alone ==
    ASSUME InTurn, ~overlapped, NEW c \in Calls, ~Sup!Idle(c)
    PROVE  /\ \A d \in Calls \ {c} : Sup!Idle(d)
           /\ Honest(c) /\ CyclesAreKnown
BY DEF InTurn

\* a step of the only call under way that leaves it under way
LEMMA StillAlone ==
    ASSUME InTurn, ~overlapped, NEW c \in Calls, ~Sup!Idle(c), ~Sup!Idle(c)',
           \A d \in Calls \ {c} : call'[d] = call[d], Honest(c)', CyclesAreKnown'
    PROVE  InTurn'
BY Alone DEF InTurn, Sup!Quiet, Sup!Idle

\* no cycle begins but of the instance in the map, and none ends up unknown
LEMMA CyclesKept ==
    ASSUME Sup!MarkersAreApart, TypeInv, CyclesAreKnown, InstsKept,
           \A i \in Instances : inst[i] = Sup!Unused => (inst'[i] = Sup!Unused \/ inst'[i].cycle = "none"),
           \A i \in Instances : (inst[i] # Sup!Unused /\ inst[i].cycle = "none"
                                   /\ inst'[i].cycle # "none") => running'[inst[i].share] = i,
           \A s \in Supervised : (running[s] # NoInstance /\ running'[s] # running[s]) =>
              \E c \in Calls : call'[c] # NoCall /\ call'[c].pc = "waiting"
                                 /\ call'[c].inst = running[s],
           \A c \in Calls : (call[c] # NoCall /\ call[c].pc = "waiting") =>
              \/ call'[c] # NoCall /\ call'[c].pc = "waiting" /\ call'[c].inst = call[c].inst
              \/ inst[call[c].inst].cycle = "none"
    PROVE  CyclesAreKnown'
<1> SUFFICES ASSUME NEW i \in Instances, NEW s \in Supervised, Sup!Cycling(i, s)', running'[s] # i
             PROVE  \E c \in Calls : call'[c] # NoCall /\ call'[c].pc = "waiting"
                                       /\ call'[c].inst = i
  BY DEF CyclesAreKnown, Sup!Idle
<1>1. inst'[i] # Sup!Unused /\ inst'[i].share = s /\ inst'[i].cycle # "none"
  BY DEF Sup!Cycling
<1>2. inst[i] # Sup!Unused /\ inst[i].share = s
  BY <1>1 DEF InstsKept
<1>3. inst[i].cycle # "none"
  BY <1>1, <1>2
<1>4. Sup!Cycling(i, s)
  BY <1>2, <1>3 DEF Sup!Cycling
<1>5. CASE running[s] = i
  BY <1>5 DEF Sup!MarkersAreApart
<1>6. ASSUME NEW c \in Calls, call[c] # NoCall, call[c].pc = "waiting", call[c].inst = i
      PROVE  call'[c] # NoCall /\ call'[c].pc = "waiting" /\ call'[c].inst = i
  BY <1>3, <1>6
<1> QED
  BY <1>4, <1>5, <1>6 DEF CyclesAreKnown, Sup!Idle

\* a step that is no call's: it moves the status of a share that runs, or is being stopped
LEMMA QuietStep ==
    ASSUME Sup!MarkersAreApart, TypeInv, InTurn, InstsKept, SameTable(table'),
           UNCHANGED <<call, running, supStopped, overlapped>>,
           \A s \in Supervised : (running[s] = NoInstance /\ table'[s] # table[s]) =>
              ~supStopped /\ \E c \in Calls : ~Sup!Idle(c) /\ call[c].pc = "waiting",
           ~overlapped => CyclesAreKnown'
    PROVE  InTurn'
<1> SUFFICES ASSUME ~overlapped PROVE InTurn'
  BY DEF InTurn
<1>1. ASSUME NEW s \in Supervised, running[s] # NoInstance, Fits(s) PROVE Fits(s)'
  BY <1>1, FitsKept
<1>2. Sup!Quiet' = Sup!Quiet /\ \A c \in Calls : Sup!Idle(c)' = Sup!Idle(c)
  BY DEF Sup!Quiet, Sup!Idle
<1>3. CASE Sup!Quiet
  <2>1. \A s \in Supervised : running[s] = NoInstance => table'[s] = table[s]
    BY <1>3 DEF Sup!Quiet
  <2>2. Settled'
    BY <1>1, <1>3, <2>1, ExcusedKept DEF InTurn, Settled
  <2> QED
    BY <1>2, <1>3, <2>2 DEF InTurn, Sup!Quiet
<1>4. CASE ~Sup!Quiet
  <2>1. PICK c \in Calls : ~Sup!Idle(c)
    BY <1>4 DEF Sup!Quiet
  <2>2. Honest(c) /\ \A d \in Calls : ~Sup!Idle(d) => d = c
    BY <2>1, Alone
  <2>3. ASSUME ~supStopped, NEW s \in Supervised, running[s] = NoInstance, s \notin call[c].starts,
               ~(call[c].pc = "preparing" /\ call[c].share = s)
        PROVE  Excused(s)'
    <3>1. Excused(s) /\ (call[c].pc \in Stopping => call[c].starts = Sup!Desired(table))
      BY <2>2, <2>3 DEF Honest, Progress
    <3>2. CASE table'[s] = table[s]
      BY <3>1, <3>2, ExcusedKept
    <3>3. CASE table'[s] # table[s]
      <4>1. call[c].pc = "waiting"
        BY <2>2, <2>3, <3>3
      <4>2. s \notin Sup!Desired(table)
        BY <2>3, <3>1, <4>1 DEF Stopping
      <4> QED
        BY <4>2, ExcusedKept
    <3> QED
      BY <3>2, <3>3
  <2>4. ~supStopped => Progress(c)'
    <3> SUFFICES ASSUME ~supStopped PROVE Progress(c)'
      OBVIOUS
    <3>1. Progress(c)
      BY <2>2 DEF Honest
    <3>2. call[c].pc = "preparing" => table'[call[c].share].print = table[call[c].share].print
      BY <3>1 DEF Progress, SameTable, Sup!Desired
    <3> QED
      BY <1>1, <2>3, <3>1, <3>2, SameDesired DEF Progress
  <2>5. supStopped => Ending(c)'
    BY <2>2 DEF Honest, Ending
  <2>6. call[c].purge # NoShare => table'[call[c].purge] = NoRow
    <3>1. call[c] \in Sup!CallRecords
      BY <2>1 DEF TypeInv, Sup!TypeOK, Sup!Idle
    <3> QED
      BY <2>2, <3>1 DEF Honest, SameTable, Sup!CallRecords
  <2>7. call[c].pc \in Stopping => running[inst'[call[c].inst].share] = NoInstance
    BY <2>1, <2>2 DEF Honest, TypeInv, CallHolds, InstsKept
  <2>8. Honest(c)'
    BY <2>2, <2>4, <2>5, <2>6, <2>7 DEF Honest
  <2> QED
    BY <1>2, <1>4, <2>2, <2>8 DEF InTurn
<1> QED
  BY <1>3, <1>4

LEMMA CallStep ==
    ASSUME Sup!MarkersAreApart, TypeInv, InTurn, ~overlapped, NEW c \in Calls, ~Sup!Idle(c),
           NEW k \in Sup!CallRecords, call' = [call EXCEPT ![c] = k], UNCHANGED <<supStopped, overlapped>>,
           k.ends = call[c].ends, k.purge = call[c].purge, SameTable(table'), CyclesAreKnown',
           k.pc \in Stopping => running'[inst'[k.inst].share] = NoInstance,
           ~supStopped => Progress(c)', supStopped => Ending(c)'
    PROVE  InTurn'
<1>1. call'[c] = k /\ k # NoCall /\ \A d \in Calls \ {c} : call'[d] = call[d]
  BY DEF TypeInv, Sup!TypeOK, Sup!MarkersAreApart
<1>2. Honest(c)
  BY Alone
<1>3. k.purge # NoShare => table'[k.purge] = NoRow
  BY <1>2 DEF Honest, SameTable, Sup!CallRecords
<1>4. Honest(c)'
  BY <1>1, <1>2, <1>3 DEF Honest
<1> QED
  BY <1>1, <1>4, StillAlone DEF Sup!Idle

\* an instance is stopped, and its cycle waited for
LEMMA StopNextInTurn ==
    ASSUME Sup!MarkersAreApart, TypeInv, InTurn, ~overlapped, NEW c \in Calls, Sup!StopNext(c)
    PROVE  InTurn'
<1> USE DEF Sup!budgets
<1>1. /\ call[c] \in Sup!CallRecords /\ ~Sup!Idle(c) /\ call[c].pc = "next"
      /\ UNCHANGED <<table, supStopped, mounted, serverUp, overlapped>>
  BY DEF Sup!StopNext, TypeInv, Sup!TypeOK, Sup!Idle
<1>2. PICK s \in call[c].stops :
        LET i == running[s]
            left == [call[c] EXCEPT !.stops = @ \ {s}]
        IN  IF i = NoInstance
            THEN /\ call' = [call EXCEPT ![c] = left] /\ UNCHANGED <<running, inst>>
            ELSE /\ running' = [running EXCEPT ![s] = NoInstance]
                 /\ inst' = [inst EXCEPT ![i].timer = FALSE]
                 /\ call' = [call EXCEPT ![c] = [left EXCEPT !.pc = "waiting", !.inst = i]]
  BY DEF Sup!StopNext
<1>3. Honest(c) /\ CyclesAreKnown /\ \A d \in Calls \ {c} : Sup!Idle(d)
  BY <1>1, Alone
<1> DEFINE left == [call[c] EXCEPT !.stops = @ \ {s}]
<1>4. /\ s \in Supervised /\ left \in Sup!CallRecords /\ left.pc = "next"
      /\ left.stops = call[c].stops \ {s} /\ left.starts = call[c].starts
      /\ left.ends = call[c].ends /\ left.purge = call[c].purge
  BY <1>1 DEF Sup!CallRecords
<1>5. SameTable(table')
  BY <1>1, SameTableStays
<1>6. inst \in [Instances -> Sup!Running \cup {Sup!Unused}]
      /\ running \in [Supervised -> Instances \cup {NoInstance}]
      /\ call \in [Calls -> Sup!CallRecords \cup {NoCall}]
  BY DEF TypeInv, Sup!TypeOK
<1>7. CASE running[s] = NoInstance
  <2>1. call' = [call EXCEPT ![c] = left] /\ UNCHANGED <<running, inst>>
    BY <1>2, <1>7
  <2> HIDE DEF left
  <2>2. call'[c] = left /\ \A d \in Calls \ {c} : call'[d] = call[d]
    BY <1>6, <2>1
  <2>3. CyclesAreKnown'
    BY <1>1, <1>3, <1>4, <2>1, <2>2 DEF CyclesAreKnown, Sup!Cycling, Sup!Idle
  <2>4. ~supStopped => Progress(c)'
    BY <1>1, <1>3, <1>4, <1>7, <2>1, <2>2 DEF Honest, Progress, Fits, Excused, Starting, Stopping,
                                              Sup!Desired
  <2>5. supStopped => Ending(c)'
    BY <1>1, <1>3, <1>4, <1>7, <2>1, <2>2 DEF Honest, Ending
  <2> QED
    BY <1>1, <1>4, <1>5, <2>1, <2>3, <2>4, <2>5, CallStep DEF Stopping
<1>8. CASE running[s] # NoInstance
  <2> DEFINE i == running[s]
             k == [left EXCEPT !.pc = "waiting", !.inst = i]
             old == [inst[i] EXCEPT !.timer = FALSE]
  <2>1. /\ running' = [running EXCEPT ![s] = NoInstance] /\ inst' = [inst EXCEPT ![i] = old]
        /\ call' = [call EXCEPT ![c] = k]
    BY <1>2, <1>8
  <2>2. i \in Instances /\ inst[i] # Sup!Unused /\ inst[i] \in Sup!Running /\ inst[i].share = s
    BY <1>4, <1>6, <1>8, RunningIsUsed DEF TypeInv, Sup!TypeOK
  <2>3. Alike(old, inst[i]) /\ old.cycle = inst[i].cycle
    BY <2>2 DEF Alike, Sup!Running
  <2>4. /\ k \in Sup!CallRecords /\ k.pc = "waiting" /\ k.inst = i /\ k.stops = left.stops
        /\ k.starts = left.starts /\ k.ends = left.ends /\ k.purge = left.purge
    BY <1>4, <2>2 DEF Sup!CallRecords, Sup!Steps
  <2> HIDE DEF left, k, old
  <2>5. InstsKept /\ \A j \in Instances : inst'[j] = IF j = i THEN old ELSE inst[j]
    BY <1>6, <2>1, <2>2, <2>3, OneInstMoves
  <2>6. call'[c] = k /\ \A d \in Calls \ {c} : call'[d] = call[d]
    BY <1>6, <2>1
  <2>7. running'[s] = NoInstance /\ \A t \in Supervised \ {s} : running'[t] = running[t]
    BY <1>4, <1>6, <2>1
  <2>8. CyclesAreKnown'
    <3>1. \A j \in Instances : inst[j] = Sup!Unused => inst'[j] = Sup!Unused
      BY <2>2, <2>5
    <3>2. \A j \in Instances : inst[j] # Sup!Unused => inst'[j].cycle = inst[j].cycle
      BY <2>3, <2>5
    <3>3. k # NoCall
      BY <2>4 DEF Sup!MarkersAreApart
    <3>4. \A t \in Supervised : (running[t] # NoInstance /\ running'[t] # running[t]) =>
            call'[c] # NoCall /\ call'[c].pc = "waiting" /\ call'[c].inst = running[t]
      BY <2>4, <2>6, <2>7, <3>3
    <3>5. \A d \in Calls : ~(call[d] # NoCall /\ call[d].pc = "waiting")
      BY <1>1, <1>3 DEF Sup!Idle
    <3> QED
      BY <1>3, <2>5, <3>1, <3>2, <3>4, <3>5, CyclesKept
  <2>9. ~supStopped => Progress(c)'
    <3> SUFFICES ASSUME ~supStopped PROVE Progress(c)'
      OBVIOUS
    <3>1. Progress(c) /\ call[c].starts = Sup!Desired(table)
      BY <1>3 DEF Honest, Progress
    <3>2. Sup!Desired(table)' = Sup!Desired(table)
      BY <1>5, SameDesired
    <3>3. ASSUME NEW t \in Supervised, running'[t] # NoInstance, t \notin k.stops PROVE Fits(t)'
      <4>1. t # s /\ t \notin call[c].stops /\ running'[t] = running[t]
        BY <1>4, <2>4, <2>7, <3>3
      <4>2. Fits(t)
        BY <3>1, <3>3, <4>1 DEF Progress
      <4> QED
        BY <1>5, <2>5, <3>3, <4>1, <4>2, FitsKept
    <3>4. ASSUME NEW t \in Supervised, t \notin k.starts PROVE Excused(t)'
      BY <1>4, <1>5, <2>4, <3>1, <3>4, ExcusedKept
    <3> QED
      BY <1>4, <2>4, <2>6, <3>1, <3>2, <3>3, <3>4 DEF Progress, Starting
  <2>10. supStopped => Ending(c)'
    BY <1>1, <1>3, <1>4, <2>4, <2>6, <2>7 DEF Honest, Ending, Stopping
  <2>11. running'[inst'[k.inst].share] = NoInstance
    BY <2>2, <2>3, <2>4, <2>5, <2>7 DEF Alike
  <2> QED
    BY <1>1, <1>4, <1>5, <2>1, <2>4, <2>8, <2>9, <2>10, <2>11, CallStep
<1> QED
  BY <1>7, <1>8

LEMMA CycleIsOverInTurn ==
    ASSUME Sup!MarkersAreApart, TypeInv, InTurn, ~overlapped, NEW c \in Calls, Sup!CycleIsOver(c)
    PROVE  InTurn'
<1> USE DEF Sup!budgets
<1> DEFINE k == [call[c] EXCEPT !.pc = "unmountCheck"]
<1>1. /\ call[c] \in Sup!CallRecords /\ ~Sup!Idle(c) /\ call[c].pc = "waiting"
      /\ inst[call[c].inst].cycle = "none" /\ call' = [call EXCEPT ![c] = k]
      /\ UNCHANGED <<table, running, inst, supStopped, mounted, serverUp, overlapped>>
      /\ call \in [Calls -> Sup!CallRecords \cup {NoCall}]
      /\ inst \in [Instances -> Sup!Running \cup {Sup!Unused}]
  BY DEF Sup!CycleIsOver, TypeInv, Sup!TypeOK, Sup!Idle
<1>2. /\ k \in Sup!CallRecords /\ k.pc = "unmountCheck" /\ k.inst = call[c].inst
      /\ k.stops = call[c].stops /\ k.starts = call[c].starts
      /\ k.ends = call[c].ends /\ k.purge = call[c].purge
  BY <1>1 DEF Sup!CallRecords, Sup!Steps
<1> HIDE DEF k
<1>3. Honest(c) /\ CyclesAreKnown /\ \A d \in Calls \ {c} : Sup!Idle(d)
  BY <1>1, Alone
<1>4. SameTable(table') /\ InstsKept
  BY <1>1, SameTableStays, InstsStay
<1>5. call'[c] = k /\ \A d \in Calls \ {c} : call'[d] = call[d]
  BY <1>1
<1>6. CyclesAreKnown'
  BY <1>1, <1>3, <1>4, <1>5, CyclesKept DEF Sup!Idle
<1>7. ~supStopped => Progress(c)'
  BY <1>1, <1>2, <1>3, <1>5 DEF Honest, Progress, Fits, Excused, Starting, Stopping, Sup!Desired
<1>8. supStopped => Ending(c)'
  BY <1>1, <1>2, <1>3, <1>5 DEF Honest, Ending, Stopping
<1>9. running'[inst'[k.inst].share] = NoInstance
  BY <1>1, <1>2, <1>3 DEF Honest, Stopping
<1> QED
  BY <1>1, <1>2, <1>4, <1>6, <1>7, <1>8, <1>9, CallStep

\* a mount is checked and taken away: the share of it is one of those to be started, or unwanted
LEMMA UnmountInTurn ==
    ASSUME Sup!MarkersAreApart, TypeInv, InTurn, ~overlapped, NEW c \in Calls,
           Sup!UnmountCheck(c) \/ Sup!UnmountDo(c)
    PROVE  InTurn'
<1> USE DEF Sup!budgets
<1> DEFINE i == call[c].inst
           done == [call[c] EXCEPT !.pc = "next", !.inst = NoInstance]
           going == [call[c] EXCEPT !.pc = "unmountDo"]
<1>1. /\ call[c] \in Sup!CallRecords /\ ~Sup!Idle(c) /\ call[c].pc \in {"unmountCheck", "unmountDo"}
      /\ UNCHANGED <<running, supStopped, overlapped>>
      /\ call \in [Calls -> Sup!CallRecords \cup {NoCall}]
      /\ inst \in [Instances -> Sup!Running \cup {Sup!Unused}]
      /\ table \in [Supervised -> Sup!Rows \cup {NoRow}]
  BY DEF Sup!UnmountCheck, Sup!UnmountDo, TypeInv, Sup!TypeOK, Sup!Idle
<1>2. i \in Instances /\ inst[i] # Sup!Unused /\ inst[i] \in Sup!Running /\ inst[i].share \in Supervised
  BY <1>1, RunningIsUsed DEF TypeInv, CallHolds, Stopping
<1>3. \A k \in {done, going} :
        /\ k \in Sup!CallRecords /\ k.stops = call[c].stops /\ k.starts = call[c].starts
        /\ k.ends = call[c].ends /\ k.purge = call[c].purge
  BY <1>1, ZenonT(60) DEF Sup!CallRecords, Sup!Steps
<1>4. done.pc = "next" /\ going.pc = "unmountDo" /\ going.inst = i
  BY <1>1 DEF Sup!CallRecords
<1>5. call' = [call EXCEPT ![c] = done] \/ call' = [call EXCEPT ![c] = going]
  BY DEF Sup!UnmountCheck, Sup!UnmountDo
<1> HIDE DEF done, going
<1>6. PICK k \in {done, going} : call' = [call EXCEPT ![c] = k]
  BY <1>5
<1>7. \/ inst' = inst /\ table' = table
      \/ inst' = [inst EXCEPT ![i] = Sup!Moved(i, FALSE)] /\ table' = Sup!MovedRow(i, FALSE)
  BY DEF Sup!UnmountCheck, Sup!UnmountDo
<1>8. Alike(Sup!Moved(i, FALSE), inst[i]) /\ Sup!Moved(i, FALSE).cycle = inst[i].cycle
  BY <1>2, MovesAlike
<1>9. InstsKept /\ \A j \in Instances : /\ inst[j] = Sup!Unused => inst'[j] = Sup!Unused
                                        /\ inst[j] # Sup!Unused => inst'[j].cycle = inst[j].cycle
  <2>1. CASE inst' = inst
    BY <1>1, <2>1, InstsStay
  <2>2. CASE inst' = [inst EXCEPT ![i] = Sup!Moved(i, FALSE)]
    <3>1. InstsKept
      BY <1>1, <1>2, <1>8, <2>2, OneInstMoves
    <3>2. \A j \in Instances : inst'[j] = IF j = i THEN Sup!Moved(i, FALSE) ELSE inst[j]
      BY <1>1, <2>2
    <3> QED
      BY <1>2, <1>8, <3>1, <3>2
  <2> QED
    BY <1>7, <2>1, <2>2
<1>10. SameTable(table')
  <2>1. SameTable(Sup!MovedRow(i, FALSE))
    BY <1>1, RowsMoved
  <2>2. table' = table => SameTable(table')
    BY SameTableStays
  <2> QED
    BY <1>7, <2>1, <2>2
<1>11. Honest(c) /\ CyclesAreKnown /\ \A d \in Calls \ {c} : Sup!Idle(d)
  BY <1>1, Alone
<1>12. call'[c] = k /\ \A d \in Calls \ {c} : call'[d] = call[d]
  BY <1>1, <1>6
<1>13. CyclesAreKnown'
  BY <1>1, <1>9, <1>11, <1>12, CyclesKept DEF Sup!Idle
<1>14. ~supStopped => Progress(c)'
  <2> SUFFICES ASSUME ~supStopped PROVE Progress(c)'
    OBVIOUS
  <2>1. Progress(c) /\ call[c].starts = Sup!Desired(table) /\ Sup!Desired(table)' = Sup!Desired(table)
    BY <1>1, <1>10, <1>11, SameDesired DEF Honest, Progress, Stopping
  <2>2. ASSUME NEW t \in Supervised, running'[t] # NoInstance, t \notin k.stops PROVE Fits(t)'
    <3>1. Fits(t) /\ running'[t] = running[t]
      BY <1>1, <1>3, <2>1, <2>2 DEF Progress
    <3> QED
      BY <1>9, <1>10, <2>2, <3>1, FitsKept
  <2>3. ASSUME NEW t \in Supervised, t \notin k.starts PROVE Excused(t)'
    BY <1>3, <1>10, <2>1, <2>3, ExcusedKept
  <2>4. k.pc \in {"next", "unmountDo"} /\ k.starts = Sup!Desired(table)
    BY <1>3, <1>4, <2>1
  <2> QED
    BY <1>12, <2>1, <2>2, <2>3, <2>4 DEF Progress, Starting
<1>15. supStopped => Ending(c)'
  BY <1>1, <1>3, <1>4, <1>11, <1>12 DEF Honest, Ending, Stopping
<1>16. k.pc \in Stopping => running'[inst'[k.inst].share] = NoInstance
  BY <1>1, <1>2, <1>4, <1>9, <1>11 DEF Honest, Stopping, InstsKept
<1> QED
  BY <1>1, <1>3, <1>6, <1>10, <1>13, <1>14, <1>15, <1>16, CallStep

LEMMA StartNextInTurn ==
    ASSUME Sup!MarkersAreApart, TypeInv, InTurn, ~overlapped, NEW c \in Calls, Sup!StartNext(c)
    PROVE  InTurn'
<1> USE DEF Sup!budgets
<1>1. /\ call[c] \in Sup!CallRecords /\ ~Sup!Idle(c) /\ call[c].pc = "next" /\ call[c].stops = {}
      /\ UNCHANGED <<table, running, inst, supStopped, mounted, serverUp, overlapped>>
      /\ call \in [Calls -> Sup!CallRecords \cup {NoCall}]
      /\ inst \in [Instances -> Sup!Running \cup {Sup!Unused}]
      /\ table \in [Supervised -> Sup!Rows \cup {NoRow}]
  BY DEF Sup!StartNext, TypeInv, Sup!TypeOK, Sup!Idle
<1>2. PICK s \in call[c].starts :
        LET left == [call[c] EXCEPT !.starts = @ \ {s}]
        IN  IF running[s] # NoInstance \/ table[s] = NoRow
            THEN call' = [call EXCEPT ![c] = left]
            ELSE call' = [call EXCEPT ![c] =
                   [left EXCEPT !.pc = "preparing", !.share = s, !.print = table[s].print]]
  BY DEF Sup!StartNext
<1> DEFINE left == [call[c] EXCEPT !.starts = @ \ {s}]
           going == [left EXCEPT !.pc = "preparing", !.share = s, !.print = table[s].print]
<1>3. Honest(c) /\ CyclesAreKnown /\ \A d \in Calls \ {c} : Sup!Idle(d)
  BY <1>1, Alone
<1>4. ~supStopped /\ Progress(c) /\ s \in Sup!Desired(table) /\ s \in Supervised /\ table[s] # NoRow
  BY <1>3 DEF Honest, Ending, Progress, Sup!Desired
<1>5. /\ left \in Sup!CallRecords /\ left.pc = "next" /\ left.stops = {}
      /\ left.starts = call[c].starts \ {s}
      /\ left.ends = call[c].ends /\ left.purge = call[c].purge
  BY <1>1 DEF Sup!CallRecords
<1>6. /\ going \in Sup!CallRecords /\ going.pc = "preparing" /\ going.stops = {}
      /\ going.starts = left.starts /\ going.share = s /\ going.print = table[s].print
      /\ going.ends = call[c].ends /\ going.purge = call[c].purge
  BY <1>1, <1>4, <1>5 DEF Sup!CallRecords, Sup!Steps, Sup!Rows
<1> HIDE DEF left, going
<1>7. SameTable(table') /\ InstsKept
  BY <1>1, SameTableStays, InstsStay
<1>8. PICK k \in {left, going} : /\ call' = [call EXCEPT ![c] = k]
                                 /\ running[s] # NoInstance => k = left
                                 /\ running[s] = NoInstance => k = going
  BY <1>2, <1>4 DEF left, going
<1>9. call'[c] = k /\ \A d \in Calls \ {c} : call'[d] = call[d]
  BY <1>1, <1>8
<1>10. CyclesAreKnown'
  BY <1>1, <1>3, <1>7, <1>9, CyclesKept DEF Sup!Idle
<1>11. Progress(c)'
  <2>1. \A t \in Supervised : (running[t] # NoInstance) => Fits(t)'
    BY <1>1, <1>4 DEF Progress, Fits
  <2>2. ASSUME NEW t \in Supervised, running[t] = NoInstance, t \notin k.starts,
               ~(k.pc = "preparing" /\ k.share = t)
        PROVE  Excused(t)'
    <3>1. t # s
      BY <1>6, <1>8, <2>2
    <3>2. t \notin call[c].starts
      BY <1>5, <1>6, <2>2, <3>1
    <3> QED
      BY <1>1, <1>4, <2>2, <3>2 DEF Progress, Excused
  <2>3. k.starts \subseteq Sup!Desired(table) /\ k.stops = {} /\ k.pc \in {"next", "preparing"}
    BY <1>4, <1>5, <1>6 DEF Progress
  <2>4. k.pc = "preparing" => k = going /\ running[s] = NoInstance
    BY <1>5, <1>8
  <2> QED
    BY <1>1, <1>4, <1>6, <1>9, <2>1, <2>2, <2>3, <2>4
       DEF Progress, Stopping, Starting, Sup!Desired
<1>12. k \in Sup!CallRecords /\ k.pc \notin Stopping /\ k.ends = call[c].ends /\ k.purge = call[c].purge
  BY <1>5, <1>6 DEF Stopping
<1> QED
  BY <1>1, <1>4, <1>7, <1>8, <1>10, <1>11, <1>12, CallStep

\* what is running and of what share is recorded when a start has got that far
LEMMA PreparedInTurn ==
    ASSUME Sup!MarkersAreApart, TypeInv, InTurn, ~overlapped, NEW c \in Calls, Sup!Prepared(c)
    PROVE  InTurn'
<1> USE DEF Sup!budgets
<1> DEFINE s == call[c].share
           new == [share |-> s, print |-> call[c].print, online |-> FALSE, healthy |-> FALSE,
                   paused |-> FALSE, timer |-> FALSE, cycle |-> "none"]
           going(i) == [call[c] EXCEPT !.pc = "mounting", !.inst = i]
           done == [call[c] EXCEPT !.pc = "next", !.share = NoShare]
<1>1. /\ call[c] \in Sup!CallRecords /\ ~Sup!Idle(c) /\ call[c].pc = "preparing" /\ s \in Supervised
      /\ UNCHANGED <<supStopped, overlapped>>
      /\ call \in [Calls -> Sup!CallRecords \cup {NoCall}]
      /\ inst \in [Instances -> Sup!Running \cup {Sup!Unused}]
      /\ table \in [Supervised -> Sup!Rows \cup {NoRow}]
      /\ running \in [Supervised -> Instances \cup {NoInstance}]
  BY DEF Sup!Prepared, TypeInv, Sup!TypeOK, CallHolds, Sup!Idle
<1>2. Honest(c) /\ CyclesAreKnown /\ \A d \in Calls \ {c} : Sup!Idle(d)
  BY <1>1, Alone
<1>3. ~supStopped /\ Progress(c)
  BY <1>1, <1>2 DEF Honest, Ending, Stopping
<1>4. /\ running[s] = NoInstance /\ s \in Sup!Desired(table) /\ table[s] # NoRow
      /\ call[c].print = table[s].print
  BY <1>1, <1>3 DEF Progress, Sup!Desired
<1>5. /\ new \in Sup!Running /\ new # Sup!Unused /\ new.share = s /\ new.print = call[c].print
      /\ new.cycle = "none"
  BY <1>1, UsedIsNotUnused DEF Sup!Running, Sup!CallRecords, Sup!CycleStates
<1>6. PICK st \in {"idle", "error"} :
        /\ table' = Sup!WithStatus(s, st)
        /\ \/ /\ st = "idle"
              /\ \E i \in Sup!Fresh : /\ inst' = [inst EXCEPT ![i] = new]
                                      /\ running' = [running EXCEPT ![s] = i]
                                      /\ call' = [call EXCEPT ![c].pc = "mounting", ![c].inst = i]
           \/ /\ st = "error" /\ running' = [running EXCEPT ![s] = NoInstance]
              /\ call' = [call EXCEPT ![c].pc = "next", ![c].share = NoShare] /\ UNCHANGED inst
  BY Zenon DEF Sup!Prepared
<1>7. /\ SameTable(table') /\ \A t \in Supervised \ {s} : table'[t] = table[t]
      /\ table'[s].status = st
  BY <1>1, <1>3, <1>4, <1>6, StatusOnly DEF Sup!Statuses
<1>8. Sup!Desired(table)' = Sup!Desired(table)
  BY <1>7, SameDesired
<1>9. CASE st = "error"
  <2>1. call' = [call EXCEPT ![c] = done] /\ UNCHANGED inst /\ running' = running
    BY <1>1, <1>4, <1>6, <1>9
  <2>2. /\ done \in Sup!CallRecords /\ done.pc = "next" /\ done.stops = call[c].stops
        /\ done.starts = call[c].starts /\ done.ends = call[c].ends /\ done.purge = call[c].purge
    BY <1>1 DEF Sup!CallRecords, Sup!Steps
  <2> HIDE DEF done
  <2>3. call'[c] = done /\ (\A d \in Calls \ {c} : call'[d] = call[d]) /\ InstsKept
    BY <1>1, <2>1, InstsStay
  <2>4. CyclesAreKnown'
    BY <1>1, <1>2, <2>1, <2>3, CyclesKept DEF Sup!Idle
  <2>5. ASSUME NEW t \in Supervised, running[t] # NoInstance, t \notin done.stops PROVE Fits(t)'
    BY <1>3, <1>7, <2>1, <2>2, <2>3, <2>5, FitsKept DEF Progress
  <2>6. ASSUME NEW t \in Supervised, running[t] = NoInstance, t \notin done.starts PROVE Excused(t)'
    <3>1. CASE t = s
      BY <1>7, <1>9, <3>1 DEF Excused
    <3>2. CASE t # s
      BY <1>1, <1>3, <1>7, <2>2, <2>6, <3>2, ExcusedKept DEF Progress
    <3> QED
      BY <3>1, <3>2
  <2>7. Progress(c)'
    BY <1>3, <1>8, <2>1, <2>2, <2>3, <2>5, <2>6 DEF Progress, Stopping, Starting
  <2> QED
    BY <1>1, <1>3, <1>7, <2>1, <2>2, <2>4, <2>7, CallStep DEF Stopping
<1>10. CASE st = "idle"
  <2>1. PICK i \in Sup!Fresh : /\ inst' = [inst EXCEPT ![i] = new]
                               /\ running' = [running EXCEPT ![s] = i]
                               /\ call' = [call EXCEPT ![c].pc = "mounting", ![c].inst = i]
    BY <1>6, <1>10
  <2>2. i \in Instances /\ inst[i] = Sup!Unused /\ i # NoInstance
    BY DEF Sup!Fresh, Sup!MarkersAreApart
  <2> DEFINE k == going(i)
  <2>3. /\ k \in Sup!CallRecords /\ k.pc = "mounting" /\ k.stops = call[c].stops /\ k.inst = i
        /\ k.starts = call[c].starts /\ k.ends = call[c].ends /\ k.purge = call[c].purge
        /\ k.share = s
    BY <1>1, <2>2 DEF Sup!CallRecords, Sup!Steps
  <2>4. call' = [call EXCEPT ![c] = k]
    BY <1>1, <2>1
  <2> HIDE DEF k, new
  <2>5. inst'[i] = new /\ (\A j \in Instances \ {i} : inst'[j] = inst[j]) /\ InstsKept
    BY <1>1, <1>5, <2>1, <2>2 DEF InstsKept
  <2>6. call'[c] = k /\ k # NoCall /\ \A d \in Calls \ {c} : call'[d] = call[d]
    BY <1>1, <2>3, <2>4 DEF Sup!MarkersAreApart
  <2>7. running'[s] = i /\ \A t \in Supervised \ {s} : running'[t] = running[t]
    BY <1>1, <2>1
  <2>8. CyclesAreKnown'
    <3>1. \A j \in Instances : inst[j] = Sup!Unused => (inst'[j] = Sup!Unused \/ inst'[j].cycle = "none")
      BY <1>5, <2>5
    <3>2. \A j \in Instances : inst[j] # Sup!Unused => inst'[j].cycle = inst[j].cycle
      BY <2>2, <2>5
    <3>3. \A t \in Supervised : ~(running[t] # NoInstance /\ running'[t] # running[t])
      BY <1>4, <2>7
    <3>4. \A d \in Calls : ~(call[d] # NoCall /\ call[d].pc = "waiting")
      BY <1>1, <1>2 DEF Sup!Idle
    <3> QED
      BY <1>2, <2>5, <3>1, <3>2, <3>3, <3>4, CyclesKept
  <2>9. ASSUME NEW t \in Supervised, running'[t] # NoInstance, t \notin k.stops PROVE Fits(t)'
    <3>1. CASE t = s
      <4>1. table'[s] # NoRow /\ table'[s].enabled /\ table'[s].print = table[s].print
        BY <1>4, <1>7 DEF SameTable, Sup!Desired
      <4> QED
        BY <1>4, <1>5, <2>5, <2>7, <3>1, <4>1 DEF Fits
    <3>2. CASE t # s
      BY <1>3, <1>7, <2>3, <2>5, <2>7, <2>9, <3>2, FitsKept DEF Progress
    <3> QED
      BY <3>1, <3>2
  <2>10. ASSUME NEW t \in Supervised, running'[t] = NoInstance, t \notin k.starts PROVE Excused(t)'
    <3>1. t # s
      BY <2>2, <2>7, <2>10
    <3> QED
      BY <1>1, <1>3, <1>7, <2>3, <2>7, <2>10, <3>1, ExcusedKept DEF Progress
  <2>11. Progress(c)'
    BY <1>3, <1>8, <2>3, <2>6, <2>7, <2>9, <2>10 DEF Progress, Stopping, Starting
  <2> QED
    BY <1>1, <1>3, <1>7, <2>3, <2>4, <2>8, <2>11, CallStep DEF Stopping
<1> QED
  BY <1>9, <1>10

\* a start that is under way goes on
LEMMA GoesOnInTurn ==
    ASSUME Sup!MarkersAreApart, TypeInv, InTurn, ~overlapped, NEW c \in Calls, ~Sup!Idle(c),
           call[c].pc \in Starting, NEW pc \in Starting, call' = [call EXCEPT ![c].pc = pc],
           UNCHANGED <<table, inst, running, supStopped, overlapped>>
    PROVE  InTurn'
<1> DEFINE k == [call[c] EXCEPT !.pc = pc]
<1>1. /\ call[c] \in Sup!CallRecords /\ call \in [Calls -> Sup!CallRecords \cup {NoCall}]
      /\ inst \in [Instances -> Sup!Running \cup {Sup!Unused}] /\ call' = [call EXCEPT ![c] = k]
  BY DEF TypeInv, Sup!TypeOK, Sup!Idle
<1>2. /\ k \in Sup!CallRecords /\ k.pc = pc /\ k.stops = call[c].stops /\ k.inst = call[c].inst
      /\ k.starts = call[c].starts /\ k.ends = call[c].ends /\ k.purge = call[c].purge
      /\ k.share = call[c].share
  BY <1>1 DEF Sup!CallRecords, Sup!Steps, Starting
<1> HIDE DEF k
<1>3. Honest(c) /\ CyclesAreKnown /\ \A d \in Calls \ {c} : Sup!Idle(d)
  BY Alone
<1>4. ~supStopped /\ Progress(c)
  BY <1>3 DEF Honest, Ending, Stopping, Starting
<1>5. SameTable(table') /\ InstsKept
  BY <1>1, SameTableStays, InstsStay
<1>6. call'[c] = k /\ \A d \in Calls \ {c} : call'[d] = call[d]
  BY <1>1
<1>7. CyclesAreKnown'
  BY <1>3, <1>5, <1>6, CyclesKept DEF Sup!Idle, Starting
<1>8. k.pc \notin Stopping /\ k.pc # "preparing" /\ call[c].pc \notin Stopping
      /\ call[c].pc # "preparing"
  BY <1>2 DEF Stopping, Starting
<1>9. Progress(c)'
  BY <1>2, <1>4, <1>6, <1>8 DEF Progress, Fits, Excused, Sup!Desired
<1> QED
  BY <1>1, <1>2, <1>4, <1>5, <1>7, <1>8, <1>9, CallStep

\* and ends, well or badly
LEMMA StartedInTurn ==
    ASSUME Sup!MarkersAreApart, TypeInv, InTurn, ~overlapped, NEW c \in Calls, ~Sup!Idle(c),
           call[c].pc \in Starting, NEW n, Alike(n, inst[call[c].inst]),
           n.cycle = inst[call[c].inst].cycle, NEW rows, SameTable(rows),
           \A t \in Supervised \ {call[c].share} : rows[t] = table[t],
           Sup!Started(c, n, rows), UNCHANGED <<running, supStopped, overlapped>>
    PROVE  InTurn'
<1> DEFINE k == [call[c] EXCEPT !.pc = "next", !.inst = NoInstance, !.share = NoShare]
           s == call[c].share
<1>1. /\ InstsKept /\ table' = rows /\ call' = [call EXCEPT ![c] = k]
      /\ \A j \in Instances : (inst[j] # Sup!Unused /\ j # running[s]) => inst'[j].cycle = inst[j].cycle
      /\ \A j \in Instances : inst[j] = Sup!Unused => inst'[j] = Sup!Unused
  BY StartedIs
<1>2. /\ call[c] \in Sup!CallRecords /\ call \in [Calls -> Sup!CallRecords \cup {NoCall}]
  BY DEF TypeInv, Sup!TypeOK, Sup!Idle
<1>3. /\ k \in Sup!CallRecords /\ k.pc = "next" /\ k.stops = call[c].stops
      /\ k.starts = call[c].starts /\ k.ends = call[c].ends /\ k.purge = call[c].purge
  BY <1>2 DEF Sup!CallRecords, Sup!Steps
<1> HIDE DEF k
<1>4. Honest(c) /\ CyclesAreKnown /\ \A d \in Calls \ {c} : Sup!Idle(d)
  BY Alone
<1>5. ~supStopped /\ Progress(c) /\ running[s] = call[c].inst /\ s \in Supervised
      /\ call[c].inst \in Instances /\ inst[call[c].inst].share = s
  BY <1>4 DEF Honest, Ending, Stopping, Starting, Progress, TypeInv, CallHolds
<1>6. call'[c] = k /\ \A d \in Calls \ {c} : call'[d] = call[d]
  BY <1>1, <1>2
<1>7. CyclesAreKnown'
  BY <1>1, <1>4, <1>5, <1>6, CyclesKept DEF Sup!Idle, Starting
<1>8. ASSUME NEW t \in Supervised, running[t] # NoInstance, t \notin k.stops PROVE Fits(t)'
  BY <1>1, <1>3, <1>5, <1>8, FitsKept DEF Progress
<1>9. ASSUME NEW t \in Supervised, running[t] = NoInstance, t \notin k.starts PROVE Excused(t)'
  <2>1. t # s
    BY <1>5, <1>9 DEF Sup!MarkersAreApart
  <2>2. table'[t] = table[t] /\ Excused(t)
    BY <1>1, <1>3, <1>5, <1>9, <2>1 DEF Progress, Starting
  <2> QED
    BY <1>1, <2>2, ExcusedKept
<1>10. Sup!Desired(table)' = Sup!Desired(table)
  BY <1>1, SameDesired
<1>11. Progress(c)'
  BY <1>3, <1>5, <1>6, <1>8, <1>9, <1>10 DEF Progress, Stopping, Starting
<1> QED
  BY <1>1, <1>3, <1>5, <1>7, <1>11, CallStep DEF Stopping

\* when the call is through nothing is left to stop or to start
LEMMA FinishInTurn ==
    ASSUME Sup!MarkersAreApart, TypeInv, InTurn, ~overlapped, NEW c \in Calls, Sup!Finish(c)
    PROVE  InTurn'
<1> USE DEF Sup!budgets
<1>1. /\ ~Sup!Idle(c) /\ call[c].pc = "next" /\ call[c].stops = {} /\ call[c].starts = {}
      /\ call' = [call EXCEPT ![c] = NoCall]
      /\ UNCHANGED <<table, running, inst, supStopped, overlapped>>
      /\ call \in [Calls -> Sup!CallRecords \cup {NoCall}]
      /\ inst \in [Instances -> Sup!Running \cup {Sup!Unused}]
  BY DEF Sup!Finish, TypeInv, Sup!TypeOK
<1>2. Honest(c) /\ CyclesAreKnown /\ \A d \in Calls \ {c} : Sup!Idle(d)
  BY <1>1, Alone
<1>3. call'[c] = NoCall /\ (\A d \in Calls \ {c} : call'[d] = call[d]) /\ InstsKept
  BY <1>1, InstsStay
<1>4. \A d \in Calls : call'[d] = NoCall
  BY <1>2, <1>3 DEF Sup!Idle
<1>5. CyclesAreKnown'
  BY <1>1, <1>2, <1>3, CyclesKept DEF Sup!Idle
<1>6. Settled'
  BY <1>1, <1>2 DEF Honest, Progress, Ending, Settled, Fits, Excused
<1> QED
  BY <1>4, <1>5, <1>6 DEF InTurn, Sup!Quiet, Sup!Idle

\* a call that is made while there is no other
LEMMA BeginInTurn ==
    ASSUME Sup!MarkersAreApart, TypeInv, InTurn, ~overlapped', NEW c \in Calls,
           NEW rows \in [Supervised -> Sup!Rows \cup {NoRow}], NEW purge \in Supervised \cup {NoShare},
           purge # NoShare => rows[purge] = NoRow, Sup!Edit(c, rows, purge)
    PROVE  InTurn'
<1> USE DEF Sup!budgets
<1> DEFINE k == Sup!NewCall(rows, purge)
<1>1. /\ ~supStopped /\ table' = rows /\ call' = [call EXCEPT ![c] = k]
      /\ UNCHANGED <<running, inst, supStopped>>
      /\ call \in [Calls -> Sup!CallRecords \cup {NoCall}]
      /\ inst \in [Instances -> Sup!Running \cup {Sup!Unused}]
  BY DEF Sup!Edit, Sup!Begin, TypeInv, Sup!TypeOK
<1>2. ~overlapped /\ \A d \in Calls : Sup!Idle(d)
  BY DEF Sup!Edit, Sup!Begin, Sup!Quiet
<1>3. /\ k \in Sup!CallRecords /\ k.pc = "next" /\ ~k.ends /\ k.purge = purge
      /\ k.starts = Sup!Desired(rows)
      /\ k.stops = {s \in Supervised : /\ running[s] # NoInstance
                                       /\ \/ s \notin Sup!Desired(rows)
                                          \/ inst[running[s]].print # rows[s].print}
  BY NewCallIs
<1>9. k.ends = FALSE
  BY NewCallDoesNotEnd, Zenon
<1> HIDE DEF k
<1>4. call'[c] = k /\ (\A d \in Calls \ {c} : call'[d] = NoCall) /\ InstsKept
  BY <1>1, <1>2, InstsStay DEF Sup!Idle
<1>5. CyclesAreKnown'
  BY <1>1, <1>2, <1>4, CyclesKept DEF Sup!Idle, InTurn
<1>6. Progress(c)'
  <2>1. Sup!Desired(table)' = Sup!Desired(rows)
    BY <1>1 DEF Sup!Desired
  <2>2. ASSUME NEW s \in Supervised, running[s] # NoInstance, s \notin k.stops PROVE Fits(s)'
    BY <1>1, <1>3, <2>2 DEF Fits, Sup!Desired
  <2>3. ASSUME NEW s \in Supervised, s \notin k.starts PROVE Excused(s)'
    BY <1>1, <1>3, <2>3 DEF Excused, Sup!Desired
  <2> QED
    BY <1>1, <1>3, <1>4, <2>1, <2>2, <2>3 DEF Progress, Starting
<1>7. Honest(c)'
  <2>1. k.ends = supStopped'
    <3>1. supStopped = FALSE
      BY <1>1, Zenon DEF TypeInv, Sup!TypeOK
    <3> QED
      BY <1>1, <1>9, <3>1, Zenon
  <2> QED
    BY <1>1, <1>3, <1>4, <1>6, <2>1 DEF Honest, Stopping
<1>8. k # NoCall
  BY <1>3 DEF Sup!MarkersAreApart
<1> QED
  BY <1>4, <1>5, <1>7, <1>8 DEF InTurn, Sup!Quiet, Sup!Idle

LEMMA StopInTurn ==
    ASSUME Sup!MarkersAreApart, TypeInv, InTurn, ~overlapped', NEW c \in Calls, Sup!Stop(c)
    PROVE  InTurn'
<1> USE DEF Sup!budgets
<1> DEFINE all == {s \in Supervised : running[s] # NoInstance}
           n == Sup!NewCall(table, NoShare)
           k == [n EXCEPT !.stops = all, !.starts = {}, !.ends = TRUE]
<1>1. /\ supStopped' = TRUE /\ call' = [call EXCEPT ![c] = k]
      /\ UNCHANGED <<table, running, inst>>
      /\ call \in [Calls -> Sup!CallRecords \cup {NoCall}]
      /\ inst \in [Instances -> Sup!Running \cup {Sup!Unused}]
  BY DEF Sup!Stop, TypeInv, Sup!TypeOK
<1>2. ~overlapped /\ \A d \in Calls : Sup!Idle(d)
  BY DEF Sup!Stop, Sup!Quiet
<1>3. /\ k \in Sup!CallRecords /\ k.pc = "next" /\ k.ends /\ k.purge = NoShare
      /\ k.starts = {} /\ k.stops = all
  <2>1. n \in Sup!CallRecords /\ n.pc = "next" /\ n.purge = NoShare /\ all \in SUBSET Supervised
    BY NewCallIs
  <2> HIDE DEF n, all
  <2> QED
    BY <2>1 DEF Sup!CallRecords
<1> HIDE DEF k
<1>4. call'[c] = k /\ (\A d \in Calls \ {c} : call'[d] = NoCall) /\ InstsKept
  BY <1>1, <1>2, InstsStay DEF Sup!Idle
<1>5. CyclesAreKnown'
  BY <1>1, <1>2, <1>4, CyclesKept DEF Sup!Idle, InTurn
<1>6. Ending(c)'
  BY <1>1, <1>3, <1>4 DEF Ending
<1>7. k.ends = supStopped' /\ k.pc \notin Stopping
  BY <1>1, <1>3, Zenon DEF Stopping
<1>8. Honest(c)'
  BY <1>1, <1>3, <1>4, <1>6, <1>7 DEF Honest
<1>9. k # NoCall
  BY <1>3 DEF Sup!MarkersAreApart
<1> QED
  BY <1>4, <1>5, <1>8, <1>9 DEF InTurn, Sup!Quiet, Sup!Idle

LEMMA RestartInTurn ==
    ASSUME Sup!MarkersAreApart, NEW c \in Calls, Sup!Restart(c)
    PROVE  InTurn'
<1> DEFINE n == Sup!NewCall(table, NoShare)
           k == [n EXCEPT !.stops = {}]
<1>1. /\ supStopped' = FALSE /\ call' = [d \in Calls |-> IF d # c THEN NoCall ELSE k] /\ UNCHANGED table
      /\ running' = [s \in Supervised |-> NoInstance] /\ inst' = [i \in Instances |-> Sup!Unused]
  BY DEF Sup!Restart
<1>2. /\ k \in Sup!CallRecords /\ k.pc = "next" /\ ~k.ends /\ k.purge = NoShare
      /\ k.starts = Sup!Desired(table) /\ k.stops = {}
  <2>1. n \in Sup!CallRecords /\ n.pc = "next" /\ ~n.ends /\ n.purge = NoShare
        /\ n.starts = Sup!Desired(table)
    BY NewCallIs
  <2> HIDE DEF n
  <2> QED
    BY <2>1 DEF Sup!CallRecords
<1>7. k.ends = FALSE
  <2>1. k.ends = n.ends
    BY DEF Sup!NewCall
  <2> QED
    BY <2>1, NewCallDoesNotEnd, Zenon
<1> HIDE DEF k
<1>3. call'[c] = k /\ (\A d \in Calls \ {c} : call'[d] = NoCall) /\ k # NoCall
  BY <1>1, <1>2 DEF Sup!MarkersAreApart
<1>4. CyclesAreKnown'
  BY <1>1 DEF CyclesAreKnown, Sup!Cycling
<1>5. Progress(c)'
  BY <1>1, <1>2, <1>3 DEF Progress, Excused, Sup!Desired, Starting
<1>6. Honest(c)'
  <2>1. k.ends = supStopped'
    BY <1>1, <1>7, Zenon
  <2> QED
    BY <1>1, <1>2, <1>3, <1>5, <2>1 DEF Honest, Stopping
<1> QED
  BY <1>3, <1>4, <1>6 DEF InTurn, Sup!Quiet, Sup!Idle

LEMMA InTurnInit == ASSUME Sup!MarkersAreApart PROVE Sup!Init => InTurn
<1> SUFFICES ASSUME Sup!Init PROVE InTurn
  OBVIOUS
<1> DEFINE k == Sup!NewCall(table, NoShare)
<1>1. PICK c \in Calls : call = [d \in Calls |-> IF d = c THEN k ELSE NoCall]
  BY DEF Sup!Init
<1>2. /\ supStopped = FALSE /\ running = [s \in Supervised |-> NoInstance] /\ inst = [i \in Instances |-> Sup!Unused]
  BY DEF Sup!Init
<1>3. /\ k \in Sup!CallRecords /\ k.pc = "next" /\ ~k.ends /\ k.purge = NoShare
      /\ k.starts = Sup!Desired(table) /\ k.stops \subseteq {s \in Supervised : running[s] # NoInstance}
  BY NewCallIs
<1>8. k.ends = FALSE
  BY NewCallDoesNotEnd, Zenon
<1> HIDE DEF k
<1>4. call[c] = k /\ (\A d \in Calls \ {c} : call[d] = NoCall) /\ k # NoCall /\ k.stops = {}
  BY <1>1, <1>2, <1>3 DEF Sup!MarkersAreApart
<1>5. CyclesAreKnown
  BY <1>2 DEF CyclesAreKnown, Sup!Cycling
<1>6. Progress(c)
  BY <1>2, <1>3, <1>4 DEF Progress, Excused, Sup!Desired, Starting, Stopping
<1>7. Honest(c)
  <2>1. k.ends = supStopped
    BY <1>2, <1>8, Zenon
  <2> QED
    BY <1>2, <1>3, <1>4, <1>6, <2>1 DEF Honest, Stopping
<1> QED
  BY <1>4, <1>5, <1>7 DEF InTurn, Sup!Quiet, Sup!Idle

\* the rest of a start: a mount, what it asserts, and the probe
LEMMA MountInTurn ==
    ASSUME Sup!MarkersAreApart, TypeInv, InTurn, ~overlapped, NEW c \in Calls,
           Sup!Mounting(c) \/ Sup!Asserting(c) \/ Sup!Probing(c)
    PROVE  InTurn'
<1> USE DEF Sup!budgets
<1> DEFINE i == call[c].inst
           s == call[c].share
           well == [inst[i] EXCEPT !.healthy = TRUE, !.online = TRUE]
<1>1. /\ ~Sup!Idle(c) /\ call[c].pc \in Starting /\ UNCHANGED <<running, supStopped, overlapped>>
      /\ inst \in [Instances -> Sup!Running \cup {Sup!Unused}]
      /\ table \in [Supervised -> Sup!Rows \cup {NoRow}]
  BY DEF Sup!Mounting, Sup!Asserting, Sup!Probing, Starting, TypeInv, Sup!TypeOK
<1>2. i \in Instances /\ inst[i] # Sup!Unused /\ inst[i] \in Sup!Running /\ inst[i].share = s
      /\ s \in Supervised
  BY <1>1, RunningIsUsed DEF TypeInv, CallHolds, Starting
<1>3. \/ \E pc \in {"asserting", "probing"} : call' = [call EXCEPT ![c].pc = pc]
                                               /\ UNCHANGED <<table, inst>>
      \/ Sup!MountFails(c)
      \/ Sup!Started(c, well, Sup!MovedRow(i, TRUE))
  BY DEF Sup!Mounting, Sup!Asserting, Sup!Probing
<1>4. CASE \E pc \in {"asserting", "probing"} : call' = [call EXCEPT ![c].pc = pc]
                                                 /\ UNCHANGED <<table, inst>>
  BY <1>1, <1>4, GoesOnInTurn DEF Starting
<1>5. CASE Sup!MountFails(c)
  <2>1. /\ SameTable(Sup!WithStatus(s, "offline"))
        /\ \A t \in Supervised \ {s} : Sup!WithStatus(s, "offline")[t] = table[t]
    BY <1>1, StatusOnly DEF Sup!Statuses
  <2>2. Alike(inst[i], inst[i])
    BY <1>2 DEF Alike
  <2> QED
    BY <1>1, <1>5, <2>1, <2>2, StartedInTurn DEF Sup!MountFails
<1>6. CASE Sup!Started(c, well, Sup!MovedRow(i, TRUE))
  <2>1. SameTable(Sup!MovedRow(i, TRUE)) /\ \A t \in Supervised \ {s} : Sup!MovedRow(i, TRUE)[t] = table[t]
    <3>1. /\ SameTable(Sup!MovedRow(i, TRUE))
          /\ \A t \in Supervised \ {inst[i].share} : Sup!MovedRow(i, TRUE)[t] = table[t]
      BY <1>1, RowsMoved, ZenonT(60)
    <3> QED
      BY <1>2, <3>1
  <2>2. Alike(well, inst[i]) /\ well.cycle = inst[i].cycle
    BY <1>2 DEF Alike, Sup!Running
  <2> HIDE DEF well
  <2> QED
    BY <1>1, <1>6, <2>1, <2>2, StartedInTurn
<1> QED
  BY <1>3, <1>4, <1>5, <1>6

LEMMA AskInTurn ==
    ASSUME Sup!MarkersAreApart, TypeInv, InTurn, ~overlapped', NEW c \in Calls, Sup!Ask(c)
    PROVE  InTurn'
<1>1. table \in [Supervised -> Sup!Rows \cup {NoRow}]
  BY DEF TypeInv, Sup!TypeOK
<1>2. ASSUME NEW s \in Supervised, Sup!UpdateShare(c, s) PROVE InTurn'
  <2>1. table[s] \in Sup!Rows
    BY <1>1, <1>2 DEF Sup!UpdateShare
  <2>2. [table EXCEPT ![s].enabled = ~@] \in [Supervised -> Sup!Rows \cup {NoRow}]
    BY <1>1, <2>1 DEF Sup!Rows
  <2>3. \A p \in Prints : [table EXCEPT ![s].print = p] \in [Supervised -> Sup!Rows \cup {NoRow}]
    BY <1>1, <2>1 DEF Sup!Rows
  <2> DEFINE flipped == [table EXCEPT ![s].enabled = ~@]
  <2>4. CASE Sup!Edit(c, flipped, NoShare)
    <3>1. flipped \in [Supervised -> Sup!Rows \cup {NoRow}]
      BY <2>2
    <3> HIDE DEF flipped
    <3> QED
      BY <2>4, <3>1, BeginInTurn
  <2>5. CASE \E p \in Prints : Sup!Edit(c, [table EXCEPT ![s].print = p], NoShare)
    BY <2>3, <2>5, BeginInTurn
  <2> QED
    BY <1>2, <2>4, <2>5 DEF Sup!UpdateShare
<1>3. ASSUME NEW s \in Supervised, Sup!CreateShare(c, s) PROVE InTurn'
  <2>1. PICK p \in Prints : Sup!Edit(c, [table EXCEPT ![s] = Sup!NewRow(p)], NoShare)
    BY <1>3 DEF Sup!CreateShare
  <2>2. [table EXCEPT ![s] = Sup!NewRow(p)] \in [Supervised -> Sup!Rows \cup {NoRow}]
    BY <1>1 DEF Sup!NewRow, Sup!Rows, Sup!Statuses
  <2> QED
    BY <2>1, <2>2, BeginInTurn
<1>4. ASSUME NEW s \in Supervised, Sup!DeleteShare(c, s) PROVE InTurn'
  <2>1. PICK purge \in {NoShare, s} : Sup!Edit(c, [table EXCEPT ![s] = NoRow], purge)
    BY <1>4 DEF Sup!DeleteShare
  <2>2. [table EXCEPT ![s] = NoRow] \in [Supervised -> Sup!Rows \cup {NoRow}]
        /\ [table EXCEPT ![s] = NoRow][s] = NoRow
    BY <1>1
  <2> QED
    BY <2>1, <2>2, BeginInTurn
<1>5. CASE Sup!AskToConverge(c)
  BY <1>1, <1>5, BeginInTurn DEF Sup!AskToConverge
<1> QED
  BY <1>2, <1>3, <1>4, <1>5, StopInTurn, RestartInTurn DEF Sup!Ask

LEMMA PauseOrCycleInTurn ==
    ASSUME Sup!MarkersAreApart, TypeInv, InTurn, NEW s \in Supervised, Sup!SetPaused(s) \/ Sup!StartCycle(s)
    PROVE  InTurn'
<1> USE DEF Sup!budgets
<1> DEFINE i == running[s]
           held == [inst[i] EXCEPT !.paused = ~@]
           st == IF inst[i].paused THEN "idle" ELSE "paused"
<1>1. /\ inst \in [Instances -> Sup!Running \cup {Sup!Unused}] /\ table \in [Supervised -> Sup!Rows \cup {NoRow}]
      /\ running[s] # NoInstance /\ UNCHANGED <<call, running, supStopped, overlapped>>
  BY DEF Sup!SetPaused, Sup!StartCycle, TypeInv, Sup!TypeOK
<1>2. i \in Instances /\ inst[i] # Sup!Unused /\ inst[i] \in Sup!Running /\ inst[i].share = s
  BY <1>1, RunningIsUsed DEF TypeInv, Sup!TypeOK
<1>3. PICK k : /\ inst' = [inst EXCEPT ![i] = k] /\ Alike(k, inst[i])
               /\ table' = table \/ table' = Sup!WithStatus(s, st)
  <2>1. CASE Sup!SetPaused(s)
    <3>1. Alike(held, inst[i])
      BY <1>2 DEF Alike, Sup!Running
    <3>2. inst' = [inst EXCEPT ![i] = held] /\ table' = Sup!WithStatus(s, st)
      BY <2>1 DEF Sup!SetPaused
    <3> HIDE DEF held
    <3> QED
      BY <3>1, <3>2
  <2>2. CASE Sup!StartCycle(s)
    <3>1. Alike(Sup!CycleOf(inst[i]), inst[i])
      BY <1>2, CyclesAlike
    <3>2. inst' = [inst EXCEPT ![i] = Sup!CycleOf(inst[i])] /\ table' = table
      BY <2>2 DEF Sup!StartCycle
    <3> QED
      BY <3>1, <3>2
  <2> QED
    BY <2>1, <2>2
<1>4. /\ SameTable(Sup!WithStatus(s, st))
      /\ \A t \in Supervised \ {s} : Sup!WithStatus(s, st)[t] = table[t]
  BY <1>1, StatusOnly DEF Sup!Statuses
<1>5. SameTable(table') /\ \A t \in Supervised \ {s} : table'[t] = table[t]
  BY <1>3, <1>4, SameTableStays
<1>6. InstsKept /\ \A j \in Instances : inst'[j] = IF j = i THEN k ELSE inst[j]
  BY <1>1, <1>2, <1>3, OneInstMoves
<1>7. ~overlapped => CyclesAreKnown'
  <2> SUFFICES ASSUME ~overlapped PROVE CyclesAreKnown'
    OBVIOUS
  <2>1. CyclesAreKnown
    BY DEF InTurn
  <2>2. \A j \in Instances : (inst[j] # Sup!Unused /\ inst[j].cycle = "none"
                               /\ inst'[j].cycle # "none") => running'[inst[j].share] = j
    BY <1>1, <1>2, <1>6
  <2>3. \A j \in Instances : inst[j] = Sup!Unused => (inst'[j] = Sup!Unused \/ inst'[j].cycle = "none")
    BY <1>2, <1>6
  <2> QED
    BY <1>1, <1>6, <2>1, <2>2, <2>3, CyclesKept
<1> QED
  BY <1>1, <1>5, <1>6, <1>7, QuietStep

\* a cycle ends: the share of it runs, or is being stopped
LEMMA EndCycleInTurn ==
    ASSUME Sup!MarkersAreApart, TypeInv, InTurn, NEW i \in Instances, Sup!EndCycle(i)
    PROVE  InTurn'
<1> DEFINE over == [inst[i] EXCEPT !.cycle = "none"]
           s == inst[i].share
<1>1. /\ inst \in [Instances -> Sup!Running \cup {Sup!Unused}] /\ table \in [Supervised -> Sup!Rows \cup {NoRow}]
      /\ inst[i] # Sup!Unused /\ inst[i].cycle # "none" /\ inst' = [inst EXCEPT ![i] = over]
      /\ UNCHANGED <<call, running, supStopped, overlapped>>
  BY DEF Sup!EndCycle, TypeInv, Sup!TypeOK
<1>2. inst[i] \in Sup!Running /\ s \in Supervised
  BY <1>1, RunningIsUsed
<1>3. Alike(over, inst[i]) /\ over.cycle = "none"
  BY <1>2 DEF Alike, Sup!Running, Sup!CycleStates
<1>4. PICK st \in Sup!Statuses : table' = Sup!WithStatus(s, st)
  BY DEF Sup!EndCycle, Sup!Statuses
<1>5. SameTable(table') /\ \A t \in Supervised \ {s} : table'[t] = table[t]
  BY <1>1, <1>4, StatusOnly
<1>6. supStopped => table' = table
  BY <1>4 DEF Sup!WithStatus
<1> HIDE DEF over
<1>7. InstsKept /\ \A j \in Instances : inst'[j] = IF j = i THEN over ELSE inst[j]
  BY <1>1, <1>3, OneInstMoves
<1> SUFFICES ASSUME ~overlapped PROVE InTurn'
  BY <1>1 DEF InTurn
<1>8. CyclesAreKnown
  BY DEF InTurn
<1>9. CyclesAreKnown'
  BY <1>1, <1>3, <1>7, <1>8, CyclesKept
<1>10. \A t \in Supervised : (running[t] = NoInstance /\ table'[t] # table[t]) =>
         ~supStopped /\ \E c \in Calls : ~Sup!Idle(c) /\ call[c].pc = "waiting"
  <2>1. Sup!Cycling(i, s)
    BY <1>1 DEF Sup!Cycling
  <2>2. running[s] = NoInstance => \E c \in Calls : ~Sup!Idle(c) /\ call[c].pc = "waiting"
    BY <1>2, <1>8, <2>1 DEF CyclesAreKnown, Sup!MarkersAreApart
  <2> QED
    BY <1>5, <1>6, <2>2
<1> QED
  BY <1>1, <1>5, <1>7, <1>9, <1>10, QuietStep

LEMMA InTurnNext == ASSUME Sup!MarkersAreApart PROVE TypeInv /\ InTurn /\ [Sup!Next]_(Sup!vars) => InTurn'
<1> SUFFICES ASSUME TypeInv, InTurn, [Sup!Next]_(Sup!vars) PROVE InTurn'
  OBVIOUS
<1>1. ASSUME NEW c \in Calls, Sup!Step(c) PROVE InTurn'
  <2>1. overlapped' = overlapped
    BY <1>1 DEF Sup!Step, Sup!StopNext, Sup!CycleIsOver, Sup!UnmountCheck, Sup!UnmountDo,
       Sup!StartNext, Sup!Prepared,
                Sup!Mounting, Sup!Asserting, Sup!Probing, Sup!Finish
  <2>2. CASE overlapped
    BY <2>1, <2>2 DEF InTurn
  <2>3. CASE ~overlapped
    BY <1>1, <2>3, StopNextInTurn, CycleIsOverInTurn, UnmountInTurn, StartNextInTurn,
       PreparedInTurn, MountInTurn, FinishInTurn DEF Sup!Step
  <2> QED
    BY <2>2, <2>3, SMTT(40)
<1>2. ASSUME NEW c \in Calls, Sup!Ask(c) PROVE InTurn'
  <2>1. CASE overlapped'
    BY <2>1 DEF InTurn
  <2>2. CASE ~overlapped'
    BY <1>2, <2>2, AskInTurn
  <2> QED
    BY <2>1, <2>2
<1>3. CASE Sup!ServerLost \/ Sup!ServerBack \/ UNCHANGED Sup!vars
  <2>1. UNCHANGED <<table, running, inst, call, supStopped, overlapped>>
    BY <1>3 DEF Sup!ServerLost, Sup!ServerBack, Sup!vars
  <2>2. SameTable(table') /\ InstsKept
    BY <2>1, SameTableStays, InstsStay DEF TypeInv, Sup!TypeOK
  <2>3. ~overlapped => CyclesAreKnown'
    BY <2>1 DEF InTurn, CyclesAreKnown, Sup!Cycling, Sup!Idle
  <2> QED
    BY <2>1, <2>2, <2>3, QuietStep
<1> QED
  BY <1>1, <1>2, <1>3, PauseOrCycleInTurn, EndCycleInTurn DEF Sup!Next

LEMMA InTurnInvariant == ASSUME Sup!MarkersAreApart PROVE Sup!Spec => [](TypeInv /\ InTurn)
<1>1. Sup!Init => TypeInv /\ InTurn
  BY TypeInit, InTurnInit
<1>2. TypeInv /\ InTurn /\ [Sup!Next]_(Sup!vars) => (TypeInv /\ InTurn)'
  BY TypeNext, InTurnNext
<1> QED
  BY <1>1, <1>2, PTL DEF Sup!Spec

-----------------------------------------------------------------------------
(* What it comes to. *)

(* The supervisor's map, its instances, the calls under way and the table  *)
(* hold what their types say; the map names instances that exist.          *)
THEOREM SupervisorTypes == ASSUME Sup!MarkersAreApart PROVE Sup!Spec => []Sup!TypeOK
<1>1. TypeInv => Sup!TypeOK
  BY DEF TypeInv
<1> QED
  BY <1>1, TypeInvariant, PTL

(* When calls of reconcile() come one after the other and the last is      *)
(* through, every enabled share runs with the settings the table has, or   *)
(* says "error", and no other share runs.                                  *)
THEOREM CallsInTurnConverge == ASSUME Sup!MarkersAreApart PROVE Sup!Spec => []Sup!ConvergesInTurn
<1>1. InTurn => Sup!ConvergesInTurn
  BY DEF InTurn, Settled, Fits, Excused, Sup!ConvergesInTurn, Sup!Matches
<1> QED
  BY <1>1, InTurnInvariant, PTL

\* only a step of its own ends a call, but for the end of the process
LEMMA OnlyFinishEnds ==
    ASSUME Sup!MarkersAreApart, TypeInv, [Sup!Next]_(Sup!vars), NEW c \in Calls, ~Sup!Idle(c),
           call'[c] = NoCall, supRestarts' = supRestarts
    PROVE  Sup!Finish(c)
<1> USE DEF Sup!budgets
<1>1. /\ call \in [Calls -> Sup!CallRecords \cup {NoCall}] /\ call[c] \in Sup!CallRecords
      /\ inst \in [Instances -> Sup!Running \cup {Sup!Unused}] /\ supRestarts \in Nat
      /\ table \in [Supervised -> Sup!Rows \cup {NoRow}]
  BY DEF TypeInv, Sup!TypeOK, Sup!Idle
<1>2. call'[c] # call[c]
  BY DEF Sup!Idle
<1>3. ASSUME NEW d \in Calls, NEW k, call' = [call EXCEPT ![d] = k]
      PROVE  d = c /\ call'[c] = k
  BY <1>1, <1>2, <1>3
<1>4. \A k \in Sup!CallRecords : call' # [call EXCEPT ![c] = k]
  BY <1>3 DEF Sup!MarkersAreApart
<1>5. ASSUME NEW d \in Calls, Sup!Ask(d) PROVE FALSE
  <2>1. CASE Sup!Restart(d)
    BY <1>1, <2>1 DEF Sup!Restart
  <2>2. ASSUME NEW k, Sup!Idle(d), call' = [call EXCEPT ![d] = k] PROVE FALSE
    BY <1>3, <2>2
  <2> QED
    BY <1>5, <2>1, <2>2 DEF Sup!Ask, Sup!UpdateShare, Sup!CreateShare, Sup!DeleteShare,
       Sup!AskToConverge, Sup!Edit, Sup!Begin, Sup!Stop
<1>6. ASSUME NEW d \in Calls, Sup!Step(d) PROVE Sup!Finish(c)
  <2>1. PICK k : call' = [call EXCEPT ![d] = k]
    BY <1>6, Zenon DEF Sup!Step, Sup!StopNext, Sup!CycleIsOver, Sup!UnmountCheck, Sup!UnmountDo,
       Sup!StartNext, Sup!Prepared,
                Sup!Mounting, Sup!Asserting, Sup!Probing, Sup!MountFails, Sup!Started, Sup!Finish
  <2>2. d = c
    BY <1>3, <2>1
  <2> DEFINE left(s) == [call[c] EXCEPT !.stops = @ \ {s}]
             rest(s) == [call[c] EXCEPT !.starts = @ \ {s}]
  <2>3. \A s : left(s) \in Sup!CallRecords /\ rest(s) \in Sup!CallRecords
    BY <1>1 DEF Sup!CallRecords
  <2>4. \A i \in Instances : \A s : [left(s) EXCEPT !.pc = "waiting", !.inst = i] \in Sup!CallRecords
    BY <1>1 DEF Sup!CallRecords, Sup!Steps
  <2>5. \A s \in Supervised, p \in Prints :
          [rest(s) EXCEPT !.pc = "preparing", !.share = s, !.print = p] \in Sup!CallRecords
    BY <1>1 DEF Sup!CallRecords, Sup!Steps
  <2>6. \A i \in Instances \cup {NoInstance}, t \in Supervised \cup {NoShare}, pc \in Sup!Steps :
          /\ [call[c] EXCEPT !.pc = pc] \in Sup!CallRecords
          /\ [call[c] EXCEPT !.pc = pc, !.inst = i] \in Sup!CallRecords
          /\ [call[c] EXCEPT !.pc = pc, !.share = t] \in Sup!CallRecords
          /\ [call[c] EXCEPT !.pc = pc, !.inst = i, !.share = t] \in Sup!CallRecords
    BY <1>1 DEF Sup!CallRecords
  <2> HIDE DEF left, rest
  <2>7. ~Sup!StopNext(c)
    <3> SUFFICES ASSUME Sup!StopNext(c) PROVE FALSE
      OBVIOUS
    <3>1. PICK s \in call[c].stops :
            \/ call' = [call EXCEPT ![c] = left(s)]
            \/ /\ running[s] # NoInstance
               /\ call' = [call EXCEPT ![c] = [left(s) EXCEPT !.pc = "waiting", !.inst = running[s]]]
      BY DEF Sup!StopNext, left
    <3>2. s \in Supervised
      BY <1>1 DEF Sup!CallRecords
    <3>3. running[s] # NoInstance => running[s] \in Instances
      BY <3>2 DEF TypeInv, Sup!TypeOK
    <3> QED
      <4>1. CASE call' = [call EXCEPT ![c] = left(s)]
        BY <1>4, <2>3, <4>1
      <4>2. CASE /\ running[s] # NoInstance
                 /\ call' = [call EXCEPT ![c] =
                               [left(s) EXCEPT !.pc = "waiting", !.inst = running[s]]]
        BY <1>4, <2>4, <3>3, <4>2
      <4> QED
        BY <3>1, <4>1, <4>2
  <2>8. ~Sup!StartNext(c)
    <3> SUFFICES ASSUME Sup!StartNext(c) PROVE FALSE
      OBVIOUS
    <3>1. PICK s \in call[c].starts :
            \/ call' = [call EXCEPT ![c] = rest(s)]
            \/ /\ table[s] # NoRow
               /\ call' = [call EXCEPT ![c] = [rest(s) EXCEPT !.pc = "preparing", !.share = s,
                                                              !.print = table[s].print]]
      BY DEF Sup!StartNext, rest
    <3>2. s \in Supervised
      BY <1>1 DEF Sup!CallRecords
    <3>3. table[s] # NoRow => table[s].print \in Prints
      BY <1>1, <3>2 DEF Sup!Rows
    <3> QED
      <4>1. CASE call' = [call EXCEPT ![c] = rest(s)]
        BY <1>4, <2>3, <4>1
      <4>2. CASE table[s] # NoRow /\ call' = [call EXCEPT ![c] =
                   [rest(s) EXCEPT !.pc = "preparing", !.share = s, !.print = table[s].print]]
        BY <1>4, <2>5, <3>2, <3>3, <4>2
      <4> QED
        BY <3>1, <4>1, <4>2
  <2>9. ASSUME NEW pc \in Sup!Steps, NEW i \in Instances \cup {NoInstance},
               NEW t \in Supervised \cup {NoShare}
        PROVE  /\ call' # [call EXCEPT ![c].pc = pc]
               /\ call' # [call EXCEPT ![c].pc = pc, ![c].inst = i]
               /\ call' # [call EXCEPT ![c].pc = pc, ![c].share = t]
               /\ call' # [call EXCEPT ![c].pc = pc, ![c].inst = i, ![c].share = t]
    <3>1. /\ [call EXCEPT ![c].pc = pc] = [call EXCEPT ![c] = [call[c] EXCEPT !.pc = pc]]
          /\ [call EXCEPT ![c].pc = pc, ![c].inst = i]
               = [call EXCEPT ![c] = [call[c] EXCEPT !.pc = pc, !.inst = i]]
          /\ [call EXCEPT ![c].pc = pc, ![c].share = t]
               = [call EXCEPT ![c] = [call[c] EXCEPT !.pc = pc, !.share = t]]
          /\ [call EXCEPT ![c].pc = pc, ![c].inst = i, ![c].share = t]
               = [call EXCEPT ![c] = [call[c] EXCEPT !.pc = pc, !.inst = i, !.share = t]]
      BY <1>1
    <3> QED
      BY <1>4, <2>6, <3>1, Zenon
  <2>10. ~Sup!CycleIsOver(c) /\ ~Sup!UnmountCheck(c) /\ ~Sup!UnmountDo(c)
    BY <2>9 DEF Sup!CycleIsOver, Sup!UnmountCheck, Sup!UnmountDo, Sup!Steps
  <2>11. ~Sup!Prepared(c)
    <3>1. \A i \in Sup!Fresh : i \in Instances /\ call' # [call EXCEPT ![c].pc = "mounting", ![c].inst = i]
      BY <2>9, ZenonT(60) DEF Sup!Fresh, Sup!Steps
    <3>2. call' # [call EXCEPT ![c].pc = "next", ![c].share = NoShare]
      BY <2>9, ZenonT(60) DEF Sup!Steps
    <3> QED
      BY <3>1, <3>2, ZenonT(60) DEF Sup!Prepared
  <2>12. ~Sup!Mounting(c) /\ ~Sup!Asserting(c) /\ ~Sup!Probing(c)
    <3>1. /\ call' # [call EXCEPT ![c].pc = "next", ![c].inst = NoInstance, ![c].share = NoShare]
          /\ call' # [call EXCEPT ![c].pc = "asserting"] /\ call' # [call EXCEPT ![c].pc = "probing"]
      BY <2>9, ZenonT(60) DEF Sup!Steps
    <3> QED
      BY <3>1, ZenonT(60) DEF Sup!Mounting, Sup!Asserting, Sup!Probing, Sup!MountFails,
         Sup!Started
  <2> QED
    BY <1>6, <2>2, <2>7, <2>8, <2>10, <2>11, <2>12 DEF Sup!Step
<1> QED
  BY <1>2, <1>5, <1>6 DEF Sup!Next, Sup!SetPaused, Sup!StartCycle, Sup!EndCycle, Sup!ServerLost,
     Sup!ServerBack, Sup!vars

\* no call is under way but one that has its cycles behind it, so a cycle is of what runs
LEMMA CyclesRun ==
    ASSUME Sup!MarkersAreApart, InTurn, ~overlapped, NEW i \in Instances, NEW s \in Supervised, Sup!Cycling(i, s),
           \A c \in Calls : ~Sup!Idle(c) => call[c].pc # "waiting"
    PROVE  running[s] = i /\ running[s] # NoInstance
BY DEF InTurn, CyclesAreKnown, Sup!MarkersAreApart

LEMMA UnmountIsUnused ==
    ASSUME Sup!MarkersAreApart, TypeInv, InTurn, [Sup!Next]_(Sup!vars), ~overlapped' PROVE Sup!NoUnmount
<1> SUFFICES ASSUME NEW s \in Supervised, mounted[s], ~mounted'[s], NEW i \in Instances, Sup!Cycling(i, s)
             PROVE  FALSE
  BY DEF Sup!NoUnmount
<1> USE DEF Sup!budgets
<1>1. mounted \in [Supervised -> BOOLEAN]
  BY DEF TypeInv, Sup!TypeOK
<1>2. PICK c \in Calls : Sup!UnmountDo(c)
  <2>1. ASSUME NEW c \in Calls, Sup!Mounting(c) PROVE FALSE
    <3>1. \/ UNCHANGED mounted
          \/ mounted' = [mounted EXCEPT ![call[c].share] = TRUE]
      BY <2>1 DEF Sup!Mounting
    <3> QED
      BY <1>1, <3>1
  <2>2. ASSUME NEW c \in Calls, Sup!Ask(c) PROVE mounted' = mounted
    BY <2>2 DEF Sup!Ask, Sup!UpdateShare, Sup!CreateShare, Sup!DeleteShare, Sup!AskToConverge,
       Sup!Edit, Sup!Stop, Sup!Restart
  <2>3. ASSUME NEW c \in Calls, Sup!Step(c), ~Sup!UnmountDo(c), ~Sup!Mounting(c) PROVE mounted' = mounted
    BY <2>3 DEF Sup!Step, Sup!StopNext, Sup!CycleIsOver, Sup!UnmountCheck, Sup!StartNext,
       Sup!Prepared, Sup!Asserting, Sup!Probing,
                Sup!Finish
  <2> QED
    BY <2>1, <2>2, <2>3 DEF Sup!Next, Sup!SetPaused, Sup!StartCycle, Sup!EndCycle,
       Sup!ServerLost, Sup!ServerBack, Sup!vars
<1>3. /\ ~overlapped /\ ~Sup!Idle(c) /\ call[c].pc = "unmountDo"
      /\ mounted' = [mounted EXCEPT ![inst[call[c].inst].share] = FALSE] \/ UNCHANGED mounted
  BY <1>2 DEF Sup!UnmountDo
<1>4. inst[call[c].inst].share = s
  BY <1>1, <1>3
<1>5. Honest(c) /\ \A d \in Calls \ {c} : Sup!Idle(d)
  BY <1>3, Alone
<1>6. running[s] = NoInstance
  BY <1>3, <1>4, <1>5 DEF Honest, Stopping
<1> QED
  BY <1>3, <1>5, <1>6, CyclesRun

LEMMA PurgeIsUnused ==
    ASSUME Sup!MarkersAreApart, TypeInv, InTurn, [Sup!Next]_(Sup!vars), ~overlapped' PROVE Sup!NoPurge
<1> SUFFICES ASSUME NEW c \in Calls, ~Sup!Idle(c), call[c].purge # NoShare, call'[c] = NoCall,
                    supRestarts' = supRestarts, NEW i \in Instances, Sup!Cycling(i, call[c].purge)
             PROVE  FALSE
  BY DEF Sup!NoPurge
<1> DEFINE s == call[c].purge
<1>1. /\ ~overlapped /\ call[c].pc = "next" /\ call[c].stops = {} /\ call[c].starts = {}
  BY OnlyFinishEnds DEF Sup!Finish
<1>2. Honest(c) /\ (\A d \in Calls \ {c} : Sup!Idle(d)) /\ s \in Supervised
  BY <1>1, Alone DEF TypeInv, Sup!TypeOK, Sup!CallRecords, Sup!Idle
<1>3. running[s] # NoInstance
  BY <1>1, <1>2, CyclesRun
<1>4. table[s] = NoRow
  BY <1>2 DEF Honest
<1> QED
  BY <1>1, <1>2, <1>3, <1>4 DEF Honest, Progress, Ending, Fits

LEMMA NothingRunsAfterStop ==
    ASSUME Sup!MarkersAreApart, TypeInv, InTurn, ~overlapped, supStopped, ~Sup!StopUnderWay
    PROVE  \A i \in Instances, s \in Supervised : ~Sup!Cycling(i, s)
<1>1. ASSUME NEW c \in Calls, ~Sup!Idle(c) PROVE FALSE
  <2>1. call[c].ends = supStopped
    BY <1>1, Alone DEF Honest
  <2> QED
    BY <1>1, <2>1, Zenon DEF Sup!StopUnderWay
<1>2. \A s \in Supervised : running[s] = NoInstance
  BY <1>1 DEF InTurn, Sup!Quiet, Settled
<1> QED
  BY <1>1, <1>2, CyclesRun

(* When calls come one after the other no share is unmounted and no cache  *)
(* of a deleted share removed while a cycle of it is in flight, and once   *)
(* stop() has returned no cycle is: StopNext waits for the cycle of the    *)
(* instance it takes out of the map before anything of it is taken away.   *)
THEOREM CyclesEndFirst == ASSUME Sup!MarkersAreApart PROVE Sup!Spec => Sup!NothingEndsUnderACycle
<1> DEFINE Kept == ~overlapped => (~supStopped \/ Sup!StopUnderWay
                                    \/ \A i \in Instances, s \in Supervised : ~Sup!Cycling(i, s))
<1>1. TypeInv /\ InTurn => Kept
  BY NothingRunsAfterStop
<1>2. TypeInv /\ InTurn /\ [Sup!Next]_(Sup!vars) => (~overlapped' => Sup!NoUnmount /\ Sup!NoPurge)
  BY UnmountIsUnused, PurgeIsUnused
<1>3. Kept' => (~overlapped' => Sup!NoCycleAfterStop)
  BY DEF Sup!NoCycleAfterStop
<1> DEFINE Safe == ~overlapped' => (Sup!NoUnmount /\ Sup!NoPurge /\ Sup!NoCycleAfterStop)
<1>4. TypeInv /\ InTurn /\ [Sup!Next]_(Sup!vars) /\ Kept' => [Safe]_(Sup!vars)
  BY <1>2, <1>3
<1> HIDE DEF Kept
<1>5. Sup!Spec => [][Safe]_(Sup!vars)
  <2> HIDE DEF Safe
  <2> QED
    BY <1>1, <1>4, InTurnInvariant, PTL DEF Sup!Spec
<1> QED
  BY <1>5 DEF Sup!NothingEndsUnderACycle, Safe
-----------------------------------------------------------------------------
(* The copy of one file, for any number of attempts, saves, faults and     *)
(* power cuts: what is found at the destination was on the medium and is   *)
(* whole, or looks changed to the next cycle.                              *)

Steps == {"idle", "sleep", "stat", "open", "first", "second", "sync", "verify",
          "date", "rename", "directory"}
\* the steps after which something is known of this attempt
Stated  == {"open", "first", "second", "sync", "verify", "date", "rename"}
Opened  == {"first", "second", "sync", "verify", "date", "rename"}
HalfRead == {"second", "sync", "verify", "date", "rename"}
AllRead == {"sync", "verify", "date", "rename"}

Copies == [first : Nat, second : Nat, mtime : Nat]

Typed ==
    /\ source \in Copies /\ source.first # Copy!Bad /\ source.second # Copy!Bad
    /\ step \in Steps /\ saves \in Nat
    /\ step \in Stated => seen \in Copies
    /\ step \in Opened => temp \in Copies /\ hashed \in Copies

\* what may be found at the destination: the time decides what else is asked of it
Sound(bytes) ==
    bytes # Absent =>
      /\ bytes \in Copies /\ bytes.first # Copy!Bad /\ bytes.second # Copy!Bad
      /\ bytes.mtime <= source.mtime
      /\ bytes.mtime = source.mtime => Copy!Same(bytes, source)

(* While the source looks as it did when it was stated it holds what was   *)
(* read of it; what is read back is that; and what is renamed was synced.  *)
Faithful ==
    /\ step \in Stated => seen.mtime <= source.mtime
    /\ step \in HalfRead =>
         /\ hashed.first # Copy!Bad
         /\ seen.mtime = source.mtime => hashed.first = source.first
    /\ step \in AllRead =>
         /\ hashed.second # Copy!Bad
         /\ seen.mtime = source.mtime => hashed.second = source.second
    /\ step \in {"date", "rename"} => Copy!Same(temp, hashed)
    /\ step \in {"verify", "date", "rename", "directory"} => safe
    /\ step = "rename" => temp.mtime = seen.mtime

CopyInv == Typed /\ Sound(destination) /\ Sound(before) /\ Faithful /\ Copy!DebrisHasAReason

-----------------------------------------------------------------------------
\* a failure, permanent or not, touches nothing but the temporary file
LEMMA FailureIsHarmless ==
    ASSUME CopyInv, NEW permanent, NEW removed, Copy!Fail(permanent, removed), UNCHANGED saves
    PROVE  CopyInv'
<1>1. step' \in {"idle", "sleep"}
  BY DEF Copy!Fail, Copy!GiveUp, Copy!Again, Copy!Goto
<1>2. UNCHANGED <<source, there, destination, before, saves>>
  BY DEF Copy!Fail
<1>3. Sound(destination)' /\ Sound(before)'
  BY <1>2 DEF CopyInv, Sound, Copy!Same
<1>4. Copy!DebrisHasAReason'
  BY DEF Copy!Fail, Copy!Discard, CopyInv, Copy!DebrisHasAReason
<1>5. Typed' /\ Faithful'
  BY <1>1, <1>2 DEF CopyInv, Typed, Faithful, Steps, Stated, Opened, HalfRead, AllRead
<1> QED
  BY <1>3, <1>4, <1>5 DEF CopyInv

\* a save makes the source newer than everything that was made of it
LEMMA SaveIsNoticed ==
    ASSUME CopyInv, source' \in Copies, source'.first # Copy!Bad, source'.second # Copy!Bad,
           source'.mtime > source.mtime, saves' \in Nat,
           UNCHANGED <<destination, Copy!copy, before, debris, excused>>
    PROVE  CopyInv'
<1>1. source.mtime \in Nat /\ source'.mtime \in Nat
  BY DEF CopyInv, Typed, Copies
<1>2. ASSUME NEW bytes, Sound(bytes) PROVE bytes # Absent =>
        /\ bytes \in Copies /\ bytes.first # Copy!Bad /\ bytes.second # Copy!Bad
        /\ bytes.mtime <= source'.mtime /\ bytes.mtime # source'.mtime
  BY <1>1, <1>2 DEF Sound, Copies
<1>3. Sound(destination)' /\ Sound(before)'
  BY <1>2 DEF CopyInv, Sound
<1>4. Typed'
  BY DEF CopyInv, Typed, Copy!copy
<1>5. Faithful'
  <2>1. step \in Stated => seen.mtime <= source'.mtime /\ seen.mtime # source'.mtime
    BY <1>1 DEF CopyInv, Typed, Faithful, Copies
  <2>2. HalfRead \subseteq Stated /\ AllRead \subseteq Stated
    BY DEF HalfRead, AllRead, Stated
  <2> QED
    BY <2>1, <2>2 DEF CopyInv, Faithful, Copy!copy, Copy!Same
<1>6. Copy!DebrisHasAReason'
  BY DEF CopyInv, Copy!DebrisHasAReason
<1> QED
  BY <1>3, <1>4, <1>5, <1>6 DEF CopyInv

LEMMA CopyInit == Copy!Init => CopyInv
BY DEF Copy!Init, CopyInv, Typed, Sound, Faithful, Copy!DebrisHasAReason, Steps, Stated, Opened,
       HalfRead, AllRead, Copies, Copy!File, Copy!Same, Copy!Bad

\* the places a step of the copy itself leaves alone
LEMMA PlacesKept ==
    ASSUME CopyInv, UNCHANGED <<source, destination, before, debris, excused, saves>>
    PROVE  Sound(destination)' /\ Sound(before)' /\ Copy!DebrisHasAReason'
           /\ source' \in Copies /\ source'.first # Copy!Bad /\ source'.second # Copy!Bad /\ saves' \in Nat
BY DEF CopyInv, Typed, Sound, Copy!Same, Copy!DebrisHasAReason

LEMMA CopyNext == CopyInv /\ [Copy!Next]_(Copy!vars) => CopyInv'
<1> SUFFICES ASSUME CopyInv, [Copy!Next]_(Copy!vars) PROVE CopyInv'
  OBVIOUS
<1> USE DEF Copy!Goto, Copy!KeepPlaces, Copy!bounds, Copy!copy
<1>1. source \in Copies /\ source.first # Copy!Bad /\ source.second # Copy!Bad /\ saves \in Nat
  BY DEF CopyInv, Typed
<1>2. CASE Copy!SaveFirst
  <2>1. source' = Copy!File(saves + 2, source.second, source.mtime + 1) /\ saves' = saves + 1
    BY <1>2 DEF Copy!SaveFirst
  <2>2. source' \in Copies /\ source'.first # Copy!Bad /\ source'.second # Copy!Bad
        /\ source'.mtime > source.mtime /\ saves' \in Nat
    BY <1>1, <2>1 DEF Copy!File, Copies, Copy!Bad
  <2> QED
    BY <1>2, <2>2, SaveIsNoticed DEF Copy!SaveFirst
<1>3. CASE Copy!SaveSecond
  <2>1. source' = Copy!File(source.first, source.first, source.mtime + 1)
    BY <1>3 DEF Copy!SaveSecond
  <2>2. source' \in Copies /\ source'.first # Copy!Bad /\ source'.second # Copy!Bad
        /\ source'.mtime > source.mtime /\ saves' \in Nat
    BY <1>1, <1>3, <2>1 DEF Copy!SaveSecond, Copy!File, Copies, Copy!Bad
  <2> QED
    BY <1>3, <2>2, SaveIsNoticed DEF Copy!SaveSecond
<1>4. CASE Copy!RemoveSource
  <2>1. UNCHANGED <<source, destination, Copy!copy, before, debris, excused>> /\ saves' \in Nat
    BY <1>1, <1>4 DEF Copy!RemoveSource
  <2> QED
    BY <2>1 DEF CopyInv, Typed, Sound, Copy!Same, Faithful, Copy!DebrisHasAReason
<1>5. CASE Copy!Begin
  <2>1. Typed' /\ Faithful'
    BY <1>1, <1>5 DEF Copy!Begin, Typed, Faithful, Steps, Stated, Opened, HalfRead, AllRead
  <2> QED
    BY <1>5, <2>1, PlacesKept DEF Copy!Begin, CopyInv
<1>6. CASE Copy!Wake
  <2>1. Typed' /\ Faithful'
    BY <1>1, <1>6 DEF Copy!Wake, Typed, Faithful, Steps, Stated, Opened, HalfRead, AllRead
  <2> QED
    BY <1>6, <2>1, PlacesKept DEF Copy!Wake, CopyInv
<1>7. CASE Copy!StatSource
  <2>1. CASE ~there
    BY <1>7, <2>1, FailureIsHarmless DEF Copy!StatSource
  <2>2. CASE there
    <3>1. Typed' /\ Faithful'
      BY <1>1, <1>7, <2>2 DEF Copy!StatSource, Typed, Faithful, Steps, Stated, Opened, HalfRead,
                              AllRead, Copies
    <3> QED
      BY <1>7, <2>2, <3>1, PlacesKept DEF Copy!StatSource, CopyInv
  <2> QED
    BY <2>1, <2>2
<1>8. CASE Copy!Open
  <2>1. Copy!File(Copy!Bad, Copy!Bad, 9) \in Copies
    BY DEF Copy!File, Copy!Bad, Copies
  <2>2. Typed' /\ Faithful'
    BY <1>1, <1>8, <2>1 DEF Copy!Open, CopyInv, Typed, Faithful, Steps, Stated, Opened, HalfRead,
                            AllRead
  <2> QED
    BY <1>8, <2>2, PlacesKept DEF Copy!Open, CopyInv
<1>9. CASE Copy!CopyFirst
  <2>1. CASE ~there
    BY <1>9, <2>1, FailureIsHarmless DEF Copy!CopyFirst
  <2>2. CASE there
    <3>1. PICK v \in Copy!Stored(source.first) : temp' = [temp EXCEPT !.first = v]
      BY <1>9, <2>2 DEF Copy!CopyFirst
    <3>2. v \in Nat /\ temp \in Copies /\ hashed \in Copies /\ seen \in Copies
      BY <1>1, <1>9 DEF Copy!Stored, Copy!Bad, Copy!CopyFirst, CopyInv, Typed, Stated, Opened,
         Copies
    <3>3. hashed' = [hashed EXCEPT !.first = source.first] /\ step' = "second"
          /\ UNCHANGED <<source, destination, seen, before, debris, excused, saves>>
      BY <1>9, <2>2 DEF Copy!CopyFirst
    <3>4. temp' \in Copies /\ hashed' \in Copies /\ hashed'.first = source.first
      BY <1>1, <3>1, <3>2, <3>3 DEF Copies
    <3>5. step = "first"
      BY <1>9 DEF Copy!CopyFirst
    <3>6. Typed' /\ Faithful'
      BY <1>1, <3>2, <3>3, <3>4, <3>5 DEF CopyInv, Typed, Faithful, Steps, Stated, Opened,
                                          HalfRead, AllRead
    <3> QED
      BY <3>3, <3>6, PlacesKept DEF CopyInv
  <2> QED
    BY <2>1, <2>2
<1>10. CASE Copy!CopySecond
  <2>1. /\ hashed' = [hashed EXCEPT !.second = source.second]
        /\ temp' = [temp EXCEPT !.second = source.second] /\ step = "second" /\ step' = "sync"
        /\ UNCHANGED <<source, destination, seen, before, debris, excused, saves>>
    BY <1>10 DEF Copy!CopySecond
  <2>2. temp \in Copies /\ hashed \in Copies /\ seen \in Copies
    BY <2>1 DEF CopyInv, Typed, Stated, Opened
  <2>3. temp' \in Copies /\ hashed' \in Copies /\ hashed'.first = hashed.first
        /\ hashed'.second = source.second
    BY <1>1, <2>1, <2>2 DEF Copies
  <2>4. Typed' /\ Faithful'
    BY <1>1, <2>1, <2>2, <2>3 DEF CopyInv, Typed, Faithful, Steps, Stated, Opened, HalfRead,
                                  AllRead
  <2> QED
    BY <2>1, <2>4, PlacesKept DEF CopyInv
<1>11. CASE Copy!SyncFile
  <2>1. Typed' /\ Faithful'
    BY <1>1, <1>11 DEF Copy!SyncFile, CopyInv, Typed, Faithful, Steps, Stated, Opened, HalfRead,
                       AllRead
  <2> QED
    BY <1>11, <2>1, PlacesKept DEF Copy!SyncFile, CopyInv
<1>12. CASE Copy!Verify
  <2>1. CASE Copy!Same(temp, hashed)
    <3>1. Typed' /\ Faithful'
      BY <1>1, <1>12, <2>1 DEF Copy!Verify, CopyInv, Typed, Faithful, Steps, Stated, Opened,
                               HalfRead, AllRead, Copy!Same
    <3> QED
      BY <1>12, <2>1, <3>1, PlacesKept DEF Copy!Verify, CopyInv
  <2>2. CASE ~Copy!Same(temp, hashed)
    BY <1>12, <2>2, FailureIsHarmless DEF Copy!Verify
  <2> QED
    BY <2>1, <2>2
<1>13. CASE Copy!Date
  <2>1. temp' = [temp EXCEPT !.mtime = seen.mtime] /\ temp \in Copies /\ seen \in Copies
    BY <1>13 DEF Copy!Date, CopyInv, Typed, Stated, Opened
  <2>2. temp' \in Copies /\ temp'.mtime = seen.mtime /\ Copy!Same(temp', temp)
    BY <2>1 DEF Copies, Copy!Same
  <2>3. Typed' /\ Faithful'
    BY <1>1, <1>13, <2>2 DEF Copy!Date, CopyInv, Typed, Faithful, Steps, Stated, Opened,
                             HalfRead, AllRead, Copy!Same
  <2> QED
    BY <1>13, <2>3, PlacesKept DEF Copy!Date, CopyInv
<1>14. CASE Copy!Rename
  <2>1. Sound(temp)
    BY <1>1, <1>14 DEF Copy!Rename, CopyInv, Typed, Faithful, Sound, Copy!Same, Stated, Opened,
                       HalfRead, AllRead
  <2>2. destination' = temp /\ before' = destination /\ UNCHANGED source
    BY <1>14 DEF Copy!Rename
  <2>3. Sound(destination)' /\ Sound(before)'
    BY <2>1, <2>2 DEF CopyInv, Sound, Copy!Same
  <2>4. Typed' /\ Faithful' /\ Copy!DebrisHasAReason'
    BY <1>1, <1>14 DEF Copy!Rename, CopyInv, Typed, Faithful, Steps, Stated, Opened, HalfRead,
                       AllRead, Copy!DebrisHasAReason
  <2> QED
    BY <2>3, <2>4 DEF CopyInv
<1>15. CASE Copy!SyncDirectory
  <2>1. Typed' /\ Faithful' /\ Copy!DebrisHasAReason'
    BY <1>1, <1>15 DEF Copy!SyncDirectory, Copy!GiveUp, CopyInv, Typed, Faithful, Steps, Stated,
                       Opened, HalfRead, AllRead, Copy!DebrisHasAReason
  <2>2. Sound(destination)' /\ Sound(before)'
    BY <1>15 DEF Copy!SyncDirectory, CopyInv, Sound, Copy!Same
  <2> QED
    BY <2>1, <2>2 DEF CopyInv
<1>16. CASE Copy!Fault
  BY <1>16, FailureIsHarmless DEF Copy!Fault
<1>17. CASE Copy!Cut
  <2>1. destination' \in {destination, before} /\ before' = destination' /\ UNCHANGED source
    BY <1>17 DEF Copy!Cut, CopyInv, Faithful, Copy!Torn
  <2>2. Sound(destination)' /\ Sound(before)'
    BY <2>1 DEF CopyInv, Sound, Copy!Same
  <2>3. Typed' /\ Faithful' /\ Copy!DebrisHasAReason'
    BY <1>1, <1>17 DEF Copy!Cut, Copy!GiveUp, CopyInv, Typed, Faithful, Steps, Stated, Opened,
                       HalfRead, AllRead, Copy!DebrisHasAReason
  <2> QED
    BY <2>2, <2>3 DEF CopyInv
<1>18. CASE UNCHANGED Copy!vars
  BY <1>18 DEF Copy!vars, CopyInv, Typed, Sound, Copy!Same, Faithful, Copy!DebrisHasAReason
<1> QED
  BY <1>2, <1>3, <1>4, <1>5, <1>6, <1>7, <1>8, <1>9, <1>10, <1>11, <1>12, <1>13, <1>14,
     <1>15, <1>16, <1>17, <1>18 DEF Copy!Next

(* Over any number of saves, faults and power cuts: nothing that was       *)
(* stored badly or was not on the medium is found at the destination, a    *)
(* copy that looks like its source is its source, and what is left beside  *)
(* it was left by a kill or by an unlink that failed.                      *)
THEOREM CopiesHold == Copy!Spec => []Copy!CopiesAreSound
<1>1. CopyInv => Copy!CopiesAreSound
  BY DEF CopyInv, Sound, Copy!CopiesAreSound, Copy!NeverTorn, Copy!MixtureIsNoticed
<1> QED
  BY <1>1, CopyInit, CopyNext, PTL DEF Copy!Spec

-----------------------------------------------------------------------------
(* The attempts are counted, and a temporary file is there only while one  *)
(* is under way; a transfer that sleeps has an attempt left.               *)
Counted == Copy!TransferTypeOK /\ (step = "sleep" => try < LastAttempt)

LEMMA CountedFails ==
    ASSUME LastAttempt \in Nat \ {0}, Counted, NEW permanent, NEW removed,
           Copy!Fail(permanent, removed), step # "idle"
    PROVE  Counted'
<1>1. temp' = Absent /\ try \in 0..LastAttempt /\ try # 0
  BY DEF Copy!Fail, Copy!Discard, Counted, Copy!TransferTypeOK
<1>2. CASE permanent \/ try > LastAttempt - 1
  BY <1>1, <1>2 DEF Copy!Fail, Copy!GiveUp, Copy!Goto, Counted, Copy!TransferTypeOK
<1>3. CASE ~(permanent \/ try > LastAttempt - 1)
  BY <1>1, <1>3 DEF Copy!Fail, Copy!Again, Copy!Goto, Counted, Copy!TransferTypeOK
<1> QED
  BY <1>2, <1>3

LEMMA CountedNext == ASSUME LastAttempt \in Nat \ {0} PROVE Counted /\ [Copy!Next]_(Copy!vars) => Counted'
<1> SUFFICES ASSUME Counted, [Copy!Next]_(Copy!vars) PROVE Counted'
  OBVIOUS
<1> USE DEF Copy!Goto, Copy!KeepPlaces, Copy!copy
<1>1. CASE Copy!SaveFirst \/ Copy!SaveSecond \/ Copy!RemoveSource \/ UNCHANGED Copy!vars
  BY <1>1 DEF Copy!SaveFirst, Copy!SaveSecond, Copy!RemoveSource, Copy!vars, Counted,
     Copy!TransferTypeOK
<1>2. CASE Copy!Begin \/ Copy!Wake
  BY <1>2 DEF Copy!Begin, Copy!Wake, Counted, Copy!TransferTypeOK
<1>3. CASE Copy!Open \/ Copy!CopySecond \/ Copy!SyncFile \/ Copy!Date \/ Copy!Rename
  BY <1>3 DEF Copy!Open, Copy!CopySecond, Copy!SyncFile, Copy!Date, Copy!Rename, Counted,
     Copy!TransferTypeOK
<1>4. CASE Copy!SyncDirectory \/ Copy!Cut
  BY <1>4 DEF Copy!SyncDirectory, Copy!Cut, Copy!GiveUp, Counted, Copy!TransferTypeOK
<1>5. CASE Copy!StatSource
  BY <1>5, CountedFails DEF Copy!StatSource, Counted, Copy!TransferTypeOK
<1>6. CASE Copy!CopyFirst
  BY <1>6, CountedFails DEF Copy!CopyFirst, Counted, Copy!TransferTypeOK
<1>7. CASE Copy!Verify
  BY <1>7, CountedFails DEF Copy!Verify, Counted, Copy!TransferTypeOK
<1>8. CASE Copy!Fault
  BY <1>8, CountedFails DEF Copy!Fault
<1> QED
  BY <1>1, <1>2, <1>3, <1>4, <1>5, <1>6, <1>7, <1>8 DEF Copy!Next

(* A transfer makes no more attempts than it may, and holds a temporary    *)
(* file only between the opening and the end of one.                       *)
THEOREM AttemptsAreCounted == ASSUME LastAttempt \in Nat \ {0} PROVE Copy!Spec => []Copy!TransferTypeOK
<1>1. Copy!Init => Counted
  BY DEF Copy!Init, Counted, Copy!TransferTypeOK
<1>2. Counted => Copy!TransferTypeOK
  BY DEF Counted
<1> QED
  BY <1>1, <1>2, CountedNext, PTL DEF Copy!Spec
-----------------------------------------------------------------------------
(* The monitor of a mount, for any number of probes and remounts at once,  *)
(* outages, starts and calls of its owner.                                 *)

Trying == \E a \in Attempts : attempt[a] # "none"
Probing == \E t \in Ticks : tick[t] # "none"
MountInv ==
    /\ timers \in Nat /\ tick \in [Ticks -> {"none", "ok", "fails"}]
    /\ attempt \in [Attempts -> {"none", "unmounting", "mounting"}]
    /\ Mount!MonitorKeepsTrying

\* what is called offline was so before, or has its remount on the clock
LEMMA FailuresAreMended ==
    ASSUME Mount!RecordFailure
    PROVE  /\ reconnect => reconnect'
           /\ state' = "offline" => state = "offline" \/ reconnect' \/ stopped
BY DEF Mount!RecordFailure, Mount!health, Mount!ScheduleReconnect

LEMMA MountNext == MountInv /\ [Mount!Next]_(Mount!vars) => MountInv'
<1> SUFFICES ASSUME MountInv, [Mount!Next]_(Mount!vars) PROVE MountInv'
  OBVIOUS
<1>1. /\ timers \in Nat /\ tick \in [Ticks -> {"none", "ok", "fails"}]
      /\ attempt \in [Attempts -> {"none", "unmounting", "mounting"}]
      /\ state = "offline" /\ ~stopped /\ ~abandoned => reconnect \/ Trying
      /\ ~stopped => timers > 0 \/ Probing
  BY DEF MountInv, Mount!MonitorKeepsTrying, Mount!OfflineIsMended, Mount!LoopGoesOn, Trying,
     Probing
<1>2. SUFFICES /\ timers' \in Nat /\ tick' \in [Ticks -> {"none", "ok", "fails"}]
               /\ attempt' \in [Attempts -> {"none", "unmounting", "mounting"}]
               /\ state' = "offline" /\ ~stopped' /\ ~abandoned' => reconnect' \/ Trying'
               /\ ~stopped' => timers' > 0 \/ Probing'
  BY DEF MountInv, Mount!MonitorKeepsTrying, Mount!OfflineIsMended, Mount!LoopGoesOn, Trying,
     Probing
<1>3. CASE Mount!Mount
  BY <1>1, <1>3 DEF Mount!Mount, Mount!DoMount, Mount!MountGoesThrough, Mount!health, Mount!loop,
       Trying, Probing
<1>4. CASE Mount!Unmount \/ Mount!ServerLost \/ Mount!ServerBack \/ UNCHANGED Mount!vars
  BY <1>1, <1>4 DEF Mount!Unmount, Mount!ServerLost, Mount!ServerBack, Mount!vars, Mount!health,
       Mount!loop, Trying, Probing
<1>5. CASE Mount!GuardFails
  BY <1>1, <1>5, FailuresAreMended DEF Mount!GuardFails, Mount!loop, Trying, Probing
<1>6. CASE Mount!Start
  <2>1. UNCHANGED <<state, tick, attempt>> /\ timers' = timers + 1
    BY <1>6 DEF Mount!Start, Mount!health
  <2>2. state = "offline" /\ ~abandoned' => Trying
    <3>1. abandoned' = (/\ state \in {"offline", "remounting"}
                        /\ \A a \in Attempts : attempt[a] = "none")
      BY <1>6 DEF Mount!Start
    <3> QED
      BY <3>1, Zenon DEF Trying
  <2> QED
    BY <1>1, <2>1, <2>2 DEF Trying
<1>7. CASE Mount!Stop
  BY <1>1, <1>7 DEF Mount!Stop, Mount!health, Trying, Probing
<1>8. CASE Mount!ProbeTimer
  <2>1. UNCHANGED <<state, stopped, reconnect, attempt, abandoned>>
    BY <1>8 DEF Mount!ProbeTimer, Mount!health
  <2>2. CASE Mount!TickIdle
    BY <1>1, <1>8, <2>1, <2>2 DEF Mount!ProbeTimer, Mount!ScheduleProbe, Trying, Probing
  <2>3. CASE ~Mount!TickIdle
    <3>1. PICK t \in Ticks : tick' = [tick EXCEPT ![t] = Mount!ProbeAnswer] /\ timers' = timers - 1
      BY <1>8, <2>3 DEF Mount!ProbeTimer
    <3>2. timers > 0 /\ Mount!ProbeAnswer \in {"ok", "fails"}
      BY <1>8 DEF Mount!ProbeTimer, Mount!ProbeAnswer
    <3>3. tick' \in [Ticks -> {"none", "ok", "fails"}] /\ tick'[t] # "none" /\ timers' \in Nat
      BY <1>1, <3>1, <3>2
    <3> QED
      BY <1>1, <2>1, <3>3 DEF Trying, Probing
  <2> QED
    BY <2>2, <2>3
<1>9. ASSUME NEW t \in Ticks, Mount!ProbeAnswered(t)
      PROVE  /\ timers' \in Nat /\ tick' \in [Ticks -> {"none", "ok", "fails"}]
             /\ attempt' \in [Attempts -> {"none", "unmounting", "mounting"}]
             /\ state' = "offline" /\ ~stopped' /\ ~abandoned' => reconnect' \/ Trying'
             /\ ~stopped' => timers' > 0 \/ Probing'
  <2>1. /\ tick' = [tick EXCEPT ![t] = "none"] /\ Mount!ScheduleProbe(timers)
        /\ UNCHANGED <<stopped, attempt, abandoned>>
        /\ (Mount!RecordSuccess /\ UNCHANGED reconnect) \/ Mount!RecordFailure
    BY <1>9 DEF Mount!ProbeAnswered
  <2>2. timers' \in Nat /\ (~stopped => timers' > 0)
    BY <1>1, <2>1 DEF Mount!ScheduleProbe
  <2>3. CASE Mount!RecordSuccess /\ UNCHANGED reconnect
    BY <1>1, <2>1, <2>2, <2>3 DEF Mount!RecordSuccess, Trying
  <2>4. CASE Mount!RecordFailure
    BY <1>1, <2>1, <2>2, <2>4, FailuresAreMended DEF Trying
  <2> QED
    BY <2>1, <2>3, <2>4
<1>10. CASE Mount!ReconnectTimer
  BY <1>1, <1>10 DEF Mount!ReconnectTimer, Mount!loop, Trying, Probing
<1>11. ASSUME NEW a \in Attempts, Mount!RemountUnmounts(a)
       PROVE  /\ UNCHANGED <<timers, tick, stopped>> /\ Trying'
              /\ attempt' \in [Attempts -> {"none", "unmounting", "mounting"}]
  BY <1>1, <1>11 DEF Mount!RemountUnmounts, Mount!loop, Trying
<1>12. ASSUME NEW a \in Attempts, Mount!RemountMounts(a)
       PROVE  /\ UNCHANGED <<timers, tick, stopped>>
              /\ state' = "offline" => reconnect' \/ stopped
              /\ attempt' \in [Attempts -> {"none", "unmounting", "mounting"}]
  BY <1>1, <1>12 DEF Mount!RemountMounts, Mount!DoMount, Mount!ScheduleReconnect, Mount!loop
<1> QED
  BY <1>1, <1>3, <1>4, <1>5, <1>6, <1>7, <1>8, <1>9, <1>10, <1>11, <1>12
     DEF Mount!Next, Probing

(* The monitor never gives up: while it runs, its loop of probes goes on,  *)
(* and a mount it calls offline has a remount on the clock or under way,   *)
(* but for a monitor that was stopped and started over an offline mount.   *)
THEOREM MonitorGoesOn ==
    Mount!Init /\ [][Mount!Next]_(Mount!vars) => []Mount!MonitorKeepsTrying
<1>1. Mount!Init => MountInv
  BY DEF Mount!Init, MountInv, Mount!MonitorKeepsTrying, Mount!OfflineIsMended, Mount!LoopGoesOn
<1>2. MountInv => Mount!MonitorKeepsTrying
  BY DEF MountInv
<1> QED
  BY <1>1, <1>2, MountNext, PTL
LEMMA LeastNumber ==
  ASSUME NEW T, T \subseteq Nat, T # {}
  PROVE  \E x \in T : \A y \in T : x <= y
<1>1. PICK x \in T : \A y \in T : ~ (<<y, x>> \in OpToRel(<, Nat))
  BY NatLessThanWellFounded, WFMin, Zenon
<1>2. \A y \in T : ~(y < x)
  BY <1>1, Zenon DEF OpToRel
<1>3. \A y \in T : x <= y
  BY <1>2
<1> QED
  BY <1>3, Zenon
-----------------------------------------------------------------------------
(* The audit feed.  What is said below of a file, of the lines L at the    *)
(* positions W that are on their way, of the handles that are open on it   *)
(* and of the locks it may come to have, carries over every step.          *)

Mentions(e, f) == e.path = f \/ e.new = f
HasIt(on, m) == \E h \in on : h.machine = m
Closing(L, W, f, m) == \E i \in W : L[i].op = "close" /\ L[i].path = f /\ L[i].machine = m
\* a file that nothing is in doubt about is opened and closed, and goes by its name
Plain(L, W, f) ==
    \A i \in W : Mentions(L[i], f) =>
      L[i].path = f /\ L[i].new = f /\ L[i].op \in {"open", "close"}
\* who opens it closes it later, or has it open
OpensEnd(L, W, f, on) ==
    \A i \in W : L[i].op = "open" /\ L[i].path = f =>
      \/ \E j \in W : i < j /\ L[j].op = "close" /\ L[j].path = f /\ L[j].machine = L[i].machine
      \/ HasIt(on, L[i].machine)
\* the last line that mentions it opens it for writing
EndsWriting(L, W, f) ==
    \E i \in W : /\ L[i].op = "open" /\ L[i].path = f /\ L[i].mode = "w"
                 /\ \A j \in W : i < j => ~Mentions(L[j], f)
Silent(L, W, f) == \A i \in W : ~Mentions(L[i], f)
WrittenOn(on) == \E h \in on : h.mode = "w"
\* a machine that has the lock will give it up or has the file open; what is written
\* is locked, or the last line will lock it
Right(l, L, W, f, on) ==
    /\ l \in Machines => Closing(L, W, f, l) \/ HasIt(on, l)
    /\ WrittenOn(on) => EndsWriting(L, W, f) \/ (Silent(L, W, f) /\ l # Feed!Nobody)
Tidy(L, W, f, on, locks) ==
    Plain(L, W, f) /\ OpensEnd(L, W, f, on) /\ \A l \in locks : Right(l, L, W, f, on)

\* V are the positions in M of the lines at W of L, but for some that do not mention the file
Renumbers(g, M, V, L, W, f) ==
    /\ W \subseteq Nat /\ V \subseteq Nat
    /\ \A i \in V : g[i] \in W /\ M[i] = L[g[i]]
    /\ \A i, j \in V : i < j <=> g[i] < g[j]
    /\ \A k \in W : Mentions(L[k], f) => \E i \in V : g[i] = k

LEMMA OthersDoNotMatter ==
    ASSUME NEW L, NEW W, NEW f, NEW on, NEW locks, Tidy(L, W, f, on, locks),
           NEW M, NEW V, NEW g, Renumbers(g, M, V, L, W, f)
    PROVE  Tidy(M, V, f, on, locks)
<1> USE DEF Renumbers
<1>1. Plain(M, V, f)
  BY DEF Tidy, Plain
<1>2. \A m : Closing(L, W, f, m) => Closing(M, V, f, m)
  BY DEF Closing, Mentions
<1>3. OpensEnd(M, V, f, on)
  <2> SUFFICES ASSUME NEW i \in V, M[i].op = "open", M[i].path = f, ~HasIt(on, M[i].machine)
               PROVE  \E j \in V : i < j /\ M[j].op = "close" /\ M[j].path = f /\ M[j].machine = M[i].machine
    BY DEF OpensEnd
  <2>1. PICK p \in W : p = g[i] /\ L[p] = M[i]
    OBVIOUS
  <2>2. PICK k \in W : p < k /\ L[k].op = "close" /\ L[k].path = f /\ L[k].machine = M[i].machine
    BY <2>1 DEF Tidy, OpensEnd
  <2>3. PICK j \in V : g[j] = k
    BY <2>2 DEF Mentions
  <2>4. i < j /\ M[j] = L[k]
    BY <2>1, <2>2, <2>3
  <2> QED
    BY <2>2, <2>4
<1>4. Silent(L, W, f) => Silent(M, V, f)
  BY DEF Silent
<1>5. EndsWriting(L, W, f) => EndsWriting(M, V, f)
  <2> SUFFICES ASSUME EndsWriting(L, W, f) PROVE EndsWriting(M, V, f)
    OBVIOUS
  <2>1. PICK k \in W : /\ L[k].op = "open" /\ L[k].path = f /\ L[k].mode = "w"
                       /\ \A j \in W : k < j => ~Mentions(L[j], f)
    BY DEF EndsWriting
  <2>2. PICK i \in V : g[i] = k
    BY <2>1 DEF Mentions
  <2>3. \A j \in V : i < j => ~Mentions(M[j], f)
    BY <2>1, <2>2
  <2> QED
    BY <2>1, <2>2, <2>3 DEF EndsWriting
<1> QED
  BY <1>1, <1>2, <1>3, <1>4, <1>5 DEF Tidy, Right

\* the next line to be handled is the first
TakenOver(l, e) ==
    IF e.op = "open" THEN IF e.mode = "w" /\ l = Feed!Nobody THEN e.machine ELSE l
    ELSE IF l = e.machine THEN Feed!Nobody ELSE l

LEMMA OneIsHandled ==
    ASSUME NEW L, NEW W, NEW f, NEW on, NEW l, Tidy(L, W, f, on, {l}), W \subseteq Nat,
           NEW a \in W, \A i \in W : a <= i, L[a].machine # Feed!Nobody,
           NEW k, k = IF Mentions(L[a], f) THEN TakenOver(l, L[a]) ELSE l
    PROVE  Tidy(L, W \ {a}, f, on, {k})
<1> DEFINE V == W \ {a}
<1>1. Plain(L, V, f)
  BY DEF Tidy, Plain
<1>2. OpensEnd(L, V, f, on)
  <2> SUFFICES ASSUME NEW i \in V, L[i].op = "open", L[i].path = f, ~HasIt(on, L[i].machine)
               PROVE  \E j \in V : i < j /\ L[j].op = "close" /\ L[j].path = f /\ L[j].machine = L[i].machine
    BY DEF OpensEnd
  <2>1. PICK j \in W : i < j /\ L[j].op = "close" /\ L[j].path = f /\ L[j].machine = L[i].machine
    BY DEF Tidy, OpensEnd
  <2>2. j # a
    BY <2>1
  <2> QED
    BY <2>1, <2>2
<1>3. Right(l, L, W, f, on)
  BY DEF Tidy
<1>4. CASE ~Mentions(L[a], f)
  <2>1. k = l /\ (Closing(L, W, f, l) => Closing(L, V, f, l))
    BY <1>4 DEF Closing, Mentions
  <2>2. (EndsWriting(L, W, f) => EndsWriting(L, V, f)) /\ (Silent(L, W, f) => Silent(L, V, f))
    BY <1>4 DEF EndsWriting, Silent, Mentions
  <2> QED
    BY <1>1, <1>2, <1>3, <2>1, <2>2 DEF Right, Tidy
<1>5. CASE Mentions(L[a], f)
  <2>1. L[a].path = f /\ L[a].op \in {"open", "close"} /\ ~Silent(L, W, f) /\ k = TakenOver(l, L[a])
    BY <1>5 DEF Tidy, Plain, Silent
  <2>2. ASSUME WrittenOn(on) PROVE EndsWriting(L, V, f) \/ (Silent(L, V, f) /\ k # Feed!Nobody)
    <3>1. PICK i \in W : /\ L[i].op = "open" /\ L[i].path = f /\ L[i].mode = "w"
                         /\ \A j \in W : i < j => ~Mentions(L[j], f)
      BY <1>3, <2>1, <2>2 DEF Right, EndsWriting
    <3>2. CASE i # a
      BY <3>1, <3>2 DEF EndsWriting
    <3>3. CASE i = a
      <4>1. \A j \in V : a < j
        OBVIOUS
      <4>2. Silent(L, V, f)
        BY <3>1, <3>3, <4>1 DEF Silent
      <4>3. k # Feed!Nobody
        BY <2>1, <3>1, <3>3 DEF TakenOver
      <4> QED
        BY <4>2, <4>3
    <3> QED
      BY <3>2, <3>3
  <2>3. ASSUME k \in Machines, ~HasIt(on, k) PROVE Closing(L, V, f, k)
    <3>1. CASE k = l
      <4>1. PICK i \in W : L[i].op = "close" /\ L[i].path = f /\ L[i].machine = k
        BY <1>3, <2>3, <3>1 DEF Right, Closing
      <4>2. i # a
        BY <2>1, <2>3, <3>1, <4>1 DEF TakenOver
      <4> QED
        BY <4>1, <4>2 DEF Closing
    <3>2. CASE k # l
      <4>1. L[a].op = "open" /\ k = L[a].machine
        BY <2>1, <2>3, <3>2, FeedAssumption DEF TakenOver, Feed!NamesAreApart, Feed!Nobody
      <4>2. PICK j \in W : a < j /\ L[j].op = "close" /\ L[j].path = f /\ L[j].machine = k
        BY <2>1, <2>3, <4>1 DEF Tidy, OpensEnd
      <4> QED
        BY <4>2 DEF Closing
    <3> QED
      BY <3>1, <3>2
  <2> QED
    BY <1>1, <1>2, <2>2, <2>3 DEF Right, Tidy
<1> QED
  BY <1>4, <1>5

\* a line that mentions it, at the end
LEMMA OneIsOpened ==
    ASSUME NEW L, NEW W, NEW f, NEW locks, Tidy(L, W, f, {}, locks), W \subseteq Nat,
           NEW b \in Nat, \A i \in W : i < b, NEW h, L[b].op = "open", L[b].path = f, L[b].new = f,
           L[b].machine = h.machine, L[b].mode = h.mode
    PROVE  Tidy(L, W \cup {b}, f, {h}, locks)
<1>1. HasIt({h}, h.machine) /\ \A m : ~HasIt({}, m)
  BY DEF HasIt
<1>2. Plain(L, W \cup {b}, f)
  BY DEF Tidy, Plain
<1>3. OpensEnd(L, W \cup {b}, f, {h})
  BY <1>1 DEF Tidy, OpensEnd
<1>4. \A m : Closing(L, W, f, m) => Closing(L, W \cup {b}, f, m)
  BY DEF Closing
<1>5. h.mode = "w" => EndsWriting(L, W \cup {b}, f)
  BY DEF EndsWriting
<1>6. \A l \in locks : Right(l, L, W \cup {b}, f, {h})
  BY <1>1, <1>4, <1>5 DEF Tidy, Right, WrittenOn
<1> QED
  BY <1>2, <1>3, <1>6 DEF Tidy

LEMMA OneIsClosed ==
    ASSUME NEW L, NEW W, NEW f, NEW h, NEW locks, Tidy(L, W, f, {h}, locks), W \subseteq Nat,
           NEW b \in Nat, \A i \in W : i < b, L[b].op = "close", L[b].path = f, L[b].new = f,
           L[b].machine = h.machine
    PROVE  Tidy(L, W \cup {b}, f, {}, locks)
<1>1. \A m : HasIt({h}, m) => m = h.machine
  BY DEF HasIt
<1>2. Plain(L, W \cup {b}, f)
  BY DEF Tidy, Plain
<1>3. OpensEnd(L, W \cup {b}, f, {})
  <2> SUFFICES ASSUME NEW i \in W, L[i].op = "open", L[i].path = f
               PROVE  \E j \in W \cup {b} : i < j /\ L[j].op = "close" /\ L[j].path = f
                                              /\ L[j].machine = L[i].machine
    BY DEF OpensEnd
  <2>1. i < b
    OBVIOUS
  <2>2. \/ \E j \in W : i < j /\ L[j].op = "close" /\ L[j].path = f /\ L[j].machine = L[i].machine
        \/ L[i].machine = h.machine
    BY <1>1 DEF Tidy, OpensEnd
  <2> QED
    BY <2>1, <2>2
<1>4. \A m : Closing(L, W, f, m) \/ HasIt({h}, m) => Closing(L, W \cup {b}, f, m)
  BY <1>1 DEF Closing
<1>5. ~WrittenOn({})
  BY DEF WrittenOn
<1>6. \A l \in locks : Right(l, L, W \cup {b}, f, {})
  BY <1>4, <1>5 DEF Tidy, Right
<1> QED
  BY <1>2, <1>3, <1>6 DEF Tidy

LEMMA OneIsOther ==
    ASSUME NEW L, NEW W, NEW f, NEW on, NEW locks, Tidy(L, W, f, on, locks), W \subseteq Nat,
           NEW b \in Nat, \A i \in W : i < b, ~Mentions(L[b], f)
    PROVE  Tidy(L, W \cup {b}, f, on, locks)
<1>1. Plain(L, W \cup {b}, f) /\ OpensEnd(L, W \cup {b}, f, on)
  <2>1. Plain(L, W \cup {b}, f)
    BY DEF Tidy, Plain
  <2>2. OpensEnd(L, W \cup {b}, f, on)
    BY DEF Tidy, OpensEnd, Mentions
  <2> QED
    BY <2>1, <2>2
<1>2. \A m : Closing(L, W, f, m) => Closing(L, W \cup {b}, f, m)
  BY DEF Closing
<1>3. Silent(L, W, f) => Silent(L, W \cup {b}, f)
  BY DEF Silent
<1>4. EndsWriting(L, W, f) => EndsWriting(L, W \cup {b}, f)
  BY DEF EndsWriting
<1> QED
  BY <1>1, <1>2, <1>3, <1>4 DEF Tidy, Right

\* one of the lines is dropped, and the others move up
LEMMA OneIsDropped ==
    ASSUME NEW L, NEW n \in Nat, NEW f, NEW on, NEW locks, Tidy(L, 1..n, f, on, locks),
           NEW k \in 1..n, ~Mentions(L[k], f),
           NEW M, \A i \in 1..(n - 1) : M[i] = IF i < k THEN L[i] ELSE L[i + 1]
    PROVE  Tidy(M, 1..(n - 1), f, on, locks)
<1> DEFINE g == [i \in 1..(n - 1) |-> IF i < k THEN i ELSE i + 1]
<1>1. \A i \in 1..(n - 1) : g[i] \in 1..n /\ M[i] = L[g[i]]
  OBVIOUS
<1>2. \A i, j \in 1..(n - 1) : i < j <=> g[i] < g[j]
  OBVIOUS
<1>3. ASSUME NEW j \in 1..n, Mentions(L[j], f) PROVE \E i \in 1..(n - 1) : g[i] = j
  <2>1. j # k
    BY <1>3
  <2>2. CASE j < k
    <3>1. j \in 1..(n - 1) /\ g[j] = j
      BY <2>2
    <3> QED
      BY <3>1
  <2>3. CASE j > k
    <3>1. j - 1 \in 1..(n - 1) /\ g[j - 1] = j
      BY <2>3
    <3> QED
      BY <3>1
  <2> QED
    BY <2>1, <2>2, <2>3
<1> HIDE DEF g
<1>4. 1..n \subseteq Nat /\ 1..(n - 1) \subseteq Nat
  OBVIOUS
<1>5. Renumbers(g, M, 1..(n - 1), L, 1..n, f)
  BY <1>1, <1>2, <1>3, <1>4, Zenon DEF Renumbers
<1> QED
  BY <1>5, OthersDoNotMatter

\* other names for the same lines
LEMMA SameLines ==
    ASSUME NEW L, NEW n \in Nat, NEW f, NEW on, NEW locks, Tidy(L, 1..n, f, on, locks),
           NEW M, \A i \in 1..n : M[i] = L[i]
    PROVE  Tidy(M, 1..n, f, on, locks)
<1> DEFINE g == [i \in 1..n |-> i]
<1>1. \A i \in 1..n : g[i] \in 1..n /\ M[i] = L[g[i]] /\ g[i] = i
  OBVIOUS
<1> HIDE DEF g
<1>2. (\A i, j \in 1..n : i < j <=> g[i] < g[j]) /\ 1..n \subseteq Nat
  BY <1>1
<1>3. \A j \in 1..n : Mentions(L[j], f) => \E i \in 1..n : g[i] = j
  BY <1>1
<1>5. Renumbers(g, M, 1..n, L, 1..n, f)
  BY <1>1, <1>2, <1>3, Zenon DEF Renumbers
<1> QED
  BY <1>5, OthersDoNotMatter

\* the first lines have been handled, and those that are left are counted from one again
LEMMA TheRest ==
    ASSUME NEW L, NEW n \in Nat, NEW d \in Nat, NEW f, NEW on, NEW locks,
           Tidy(L, (d + 1)..(d + n), f, on, locks),
           NEW M, \A i \in 1..n : M[i] = L[d + i]
    PROVE  Tidy(M, 1..n, f, on, locks)
<1> DEFINE g == [i \in 1..n |-> d + i]
<1>1. \A i \in 1..n : g[i] \in (d + 1)..(d + n) /\ M[i] = L[g[i]] /\ g[i] = d + i
  OBVIOUS
<1> HIDE DEF g
<1>2. \A i, j \in 1..n : i < j <=> g[i] < g[j]
  BY <1>1
<1>3. ASSUME NEW j \in (d + 1)..(d + n) PROVE \E i \in 1..n : g[i] = j
  <2>1. j - d \in 1..n /\ g[j - d] = j
    <3>1. j - d \in 1..n /\ d + (j - d) = j
      OBVIOUS
    <3> QED
      BY <3>1, <1>1
  <2> QED
    BY <2>1
<1>4. 1..n \subseteq Nat /\ (d + 1)..(d + n) \subseteq Nat
  OBVIOUS
<1>5. Renumbers(g, M, 1..n, L, (d + 1)..(d + n), f)
  BY <1>1, <1>2, <1>3, <1>4, Zenon DEF Renumbers
<1> QED
  BY <1>5, OthersDoNotMatter

-----------------------------------------------------------------------------
(* What every variable of the feed holds.                                  *)
Lined == [op : {"open", "close", "rename", "noise"}, machine : Machines \cup {Feed!Nobody},
          path : Feed!Names, new : Feed!Names, mode : Feed!Modes]
Answers == [Feed!Names -> SUBSET Machines]
FeedTyped ==
    /\ Feed!AuditTypeOK
    /\ wire \in Seq(Lined) /\ queue \in Seq(Lined)
    /\ \A i \in 1..Len(queue) : queue[i].op # "noise" /\ queue[i].machine \in Machines
    /\ \A i \in 1..Len(wire) : wire[i].op # "noise" => wire[i].machine \in Machines
    /\ answer \in {Feed!NoAnswer, Feed!Failed} \cup {Feed!Read(o) : o \in Answers}

LEMMA AnswersAreApart ==
    /\ Feed!NoAnswer # Feed!Failed
    /\ \A o : Feed!Read(o) # Feed!NoAnswer /\ Feed!Read(o) # Feed!Failed /\ Feed!Read(o).open = o
BY DEF Feed!NoAnswer, Feed!Failed, Feed!Read

LEMMA LinesAreTyped ==
    ASSUME NEW m \in Machines, NEW f \in Files, NEW g \in Files, NEW mode \in Feed!Modes
    PROVE  /\ Feed!Line("open", m, Feed!Parsed("open", f), mode) \in Lined
           /\ Feed!Line("close", m, Feed!Parsed("close", f), mode) \in Lined
           /\ Feed!Renaming(m, f, g) \in Lined
           /\ Feed!Line("open", m, Feed!Parsed("open", f), mode)
                = [op |-> "open", machine |-> m, path |-> f, new |-> f, mode |-> mode]
           /\ Feed!Line("close", m, Feed!Parsed("close", f), mode)
                = [op |-> "close", machine |-> m, path |-> f, new |-> f, mode |-> mode]
           /\ Feed!Renaming(m, f, g).op = "rename" /\ Feed!Renaming(m, f, g).machine = m
           /\ Feed!Renaming(m, f, g).path \in {f, Half} /\ Feed!Renaming(m, f, g).new \in {g, Half}
<1>1. f \in Feed!Names /\ g \in Feed!Names /\ Half \in Feed!Names
  BY DEF Feed!Names
<1>2. Feed!Parsed("open", f) = f /\ Feed!Parsed("close", f) = f /\ Feed!Parsed("rename", f) \in {f, Half}
  BY DEF Feed!Parsed
<1>3. /\ Feed!Line("open", m, Feed!Parsed("open", f), mode)
           = [op |-> "open", machine |-> m, path |-> f, new |-> f, mode |-> mode]
      /\ Feed!Line("close", m, Feed!Parsed("close", f), mode)
           = [op |-> "close", machine |-> m, path |-> f, new |-> f, mode |-> mode]
  BY <1>2 DEF Feed!Line
<1>4. Feed!Renaming(m, f, g) = [op |-> "rename", machine |-> m, path |-> Feed!Parsed("rename", f),
                                new |-> IF f \in Piped THEN Half ELSE g, mode |-> "w"]
  BY DEF Feed!Renaming, Feed!Line
<1>5. "w" \in Feed!Modes
  BY DEF Feed!Modes
<1> QED
  BY <1>1, <1>2, <1>3, <1>4, <1>5 DEF Lined

LEMMA AboutOne ==
    ASSUME NEW e, NEW f \in Files
    PROVE  f \in Feed!About(<<e>>) <=> Mentions(e, f)
<1>1. DOMAIN <<e>> = {1} /\ <<e>>[1] = e
  OBVIOUS
<1>2. {<<e>>[i] : i \in DOMAIN <<e>>} = {e}
  BY <1>1
<1>3. UNION {{x.path, x.new} : x \in {e}} = {e.path, e.new}
  OBVIOUS
<1> QED
  BY <1>2, <1>3 DEF Feed!About, Mentions

LEMMA AboutMany ==
    ASSUME NEW lines, NEW f \in Files, f \notin Feed!About(lines)
    PROVE  \A i \in DOMAIN lines : ~Mentions(lines[i], f)
BY DEF Feed!About, Mentions

\* the drain of the queue, as a function of how many lines it has handled
After(g, i, locks, lines) == IF i = 0 THEN locks ELSE Feed!Handled(g[i - 1], lines[i])
IsDrain(g, n, locks, lines) == g = [i \in 0..n |-> After(g, i, locks, lines)]

LEMMA DrainsExist == ASSUME NEW n \in Nat, NEW locks, NEW lines PROVE \E g : IsDrain(g, n, locks, lines)
<1> DEFINE Is(k) == \E g : IsDrain(g, k, locks, lines)
<1>1. Is(0)
  <2> DEFINE g == [i \in 0..0 |-> locks]
  <2>1. g = [i \in 0..0 |-> After(g, i, locks, lines)]
    BY DEF After
  <2>2. IsDrain(g, 0, locks, lines)
    BY <2>1 DEF IsDrain
  <2> HIDE DEF g
  <2> QED
    BY <2>2
<1>2. ASSUME NEW k \in Nat, Is(k) PROVE Is(k + 1)
  <2>1. PICK g : g = [i \in 0..k |-> After(g, i, locks, lines)]
    BY <1>2 DEF IsDrain
  <2> DEFINE h == [i \in 0..(k + 1) |-> After(g, i, locks, lines)]
  <2>2. ASSUME NEW i \in 0..(k + 1) PROVE After(g, i, locks, lines) = After(h, i, locks, lines)
    <3>1. i # 0 => i - 1 \in 0..k /\ i - 1 \in 0..(k + 1)
      OBVIOUS
    <3>2. i # 0 => g[i - 1] = h[i - 1]
      BY <2>1, <3>1
    <3> QED
      BY <3>2 DEF After
  <2>3. h = [i \in 0..(k + 1) |-> After(h, i, locks, lines)]
    BY <2>2
  <2>4. IsDrain(h, k + 1, locks, lines)
    BY <2>3 DEF IsDrain
  <2> HIDE DEF h
  <2> QED
    BY <2>4
<1> HIDE DEF Is
<1> DEFINE T == {k \in Nat : ~Is(k)}
<1>3. T = {}
  <2> SUFFICES ASSUME T # {} PROVE FALSE
    OBVIOUS
  <2>1. PICK x \in T : \A y \in T : x <= y
    <3>1. T \subseteq Nat
      OBVIOUS
    <3> HIDE DEF T
    <3> QED
      BY <3>1, LeastNumber
  <2>2. x # 0
    BY <1>1
  <2>3. x - 1 \in Nat /\ x - 1 \notin T
    BY <2>1, <2>2
  <2> QED
    BY <1>2, <2>3
<1>4. Is(n)
  BY <1>3
<1> QED
  BY <1>4 DEF Is

\* what holds of the locks and carries over the handling of each line holds at the end
LEMMA DrainedIs ==
    ASSUME queue \in Seq(Lined)
    PROVE  \E g : /\ g[0] = locked /\ Feed!Drained = g[Len(queue)]
                  /\ \A i \in 1..Len(queue) : g[i] = Feed!Handled(g[i - 1], queue[i])
<1>1. PICK n \in Nat : n = Len(queue)
  BY LenProperties
<1>2. PICK g : g = CHOOSE h : IsDrain(h, n, locked, queue)
  OBVIOUS
<1>3. IsDrain(g, n, locked, queue)
  <2>1. \E h : IsDrain(h, n, locked, queue)
    BY DrainsExist
  <2> QED
    BY <1>2, <2>1, Zenon
<1>4. Feed!Drained = g[n]
  BY <1>1, <1>2, Zenon DEF Feed!Drained, IsDrain, After
<1>5. \A i \in 0..n : g[i] = After(g, i, locked, queue)
  BY <1>3 DEF IsDrain
<1> QED
  BY <1>1, <1>4, <1>5 DEF After

(* The lines on their way, the queue's first, and the locks a file may     *)
(* have once the answer of smbstatus has been used.                        *)
Lines == queue \o wire
Possible(f) ==
    IF answer.state # "read" THEN {locked[f]}
    ELSE IF locked[f] = Feed!Nobody /\ answer.open[f] # {} THEN answer.open[f]
    ELSE IF locked[f] \in Machines /\ answer.open[f] = {} THEN {Feed!Nobody}
    ELSE {locked[f]}
AllTidy == \A f \in Files \ doubt : Tidy(Lines, 1..Len(Lines), f, Feed!On(f), Possible(f))

Joined(p, q) ==
    /\ Len(p \o q) = Len(p) + Len(q) /\ Len(p) \in Nat /\ Len(q) \in Nat
    /\ \A i \in 1..Len(p) : (p \o q)[i] = p[i]
    /\ \A i \in 1..Len(q) : (p \o q)[Len(p) + i] = q[i]
\* M is L without its k-th
Dropped(M, L, k) ==
    /\ Len(L) \in Nat /\ Len(M) = Len(L) - 1 /\ k \in 1..Len(L)
    /\ \A i \in 1..(Len(L) - 1) : M[i] = IF i < k THEN L[i] ELSE L[i + 1]

LEMMA JoinIs ==
    ASSUME NEW S, NEW p \in Seq(S), NEW q \in Seq(S)
    PROVE  p \o q \in Seq(S) /\ Joined(p, q)
<1>1. Len(p) \in Nat /\ Len(q) \in Nat
  BY LenProperties
<1>2. p \o q \in Seq(S) /\ Len(p \o q) = Len(p) + Len(q)
  BY ConcatProperties
<1>3. \A i \in 1..(Len(p) + Len(q)) : (p \o q)[i] = IF i <= Len(p) THEN p[i] ELSE q[i - Len(p)]
  BY ConcatProperties
<1>4. \A i \in 1..Len(p) : (p \o q)[i] = p[i]
  BY <1>1, <1>3
<1>5. ASSUME NEW i \in 1..Len(q) PROVE (p \o q)[Len(p) + i] = q[i]
  <2>1. Len(p) + i \in 1..(Len(p) + Len(q)) /\ ~(Len(p) + i <= Len(p)) /\ Len(p) + i - Len(p) = i
    BY <1>1
  <2> QED
    BY <2>1, <1>3
<1> QED
  BY <1>1, <1>2, <1>4, <1>5 DEF Joined

LEMMA RemovedIs ==
    ASSUME NEW S, NEW p \in Seq(S), NEW k \in 1..Len(p)
    PROVE  /\ Feed!RemoveAt(p, k) \in Seq(S) /\ Len(Feed!RemoveAt(p, k)) = Len(p) - 1
           /\ \A i \in 1..(Len(p) - 1) : Feed!RemoveAt(p, k)[i] = IF i < k THEN p[i] ELSE p[i + 1]
<1>1. Len(p) \in Nat
  BY LenProperties
<1> DEFINE a == SubSeq(p, 1, k - 1)
           b == SubSeq(p, k + 1, Len(p))
<1>2. a \in Seq(S) /\ Len(a) = k - 1 /\ \A i \in 1..(k - 1) : a[i] = p[i]
  <2>1. \A i \in 1..(k - 1) : i \in 1..Len(p)
    BY <1>1
  <2> QED
    BY <1>1, <2>1, SubSeqProperties
<1>3. b \in Seq(S) /\ Len(b) = Len(p) - k /\ \A i \in 1..(Len(p) - k) : b[i] = p[k + i]
  <2>1. \A i \in (k + 1)..Len(p) : i \in 1..Len(p)
    BY <1>1
  <2>2. b \in Seq(S) /\ Len(b) = Len(p) - k
    BY <1>1, <2>1, SubSeqProperties
  <2>3. \A i \in 1..(Len(p) - k) : b[i] = p[(k + 1) + i - 1]
    BY <1>1, <2>1, <2>2, SubSeqProperties
  <2>4. \A i \in 1..(Len(p) - k) : (k + 1) + i - 1 = k + i
    BY <1>1
  <2> QED
    BY <2>2, <2>3, <2>4
<1>4. Feed!RemoveAt(p, k) = a \o b
  BY DEF Feed!RemoveAt
<1> HIDE DEF a, b
<1>5. /\ a \o b \in Seq(S) /\ Len(a \o b) = Len(p) - 1
      /\ \A i \in 1..(k - 1) : (a \o b)[i] = p[i]
      /\ \A i \in 1..(Len(p) - k) : (a \o b)[k - 1 + i] = p[k + i]
  <2>1. /\ a \o b \in Seq(S) /\ Len(a \o b) = Len(a) + Len(b)
        /\ \A i \in 1..Len(a) : (a \o b)[i] = a[i]
        /\ \A i \in 1..Len(b) : (a \o b)[Len(a) + i] = b[i]
    <3>1. Joined(a, b)
      BY <1>2, <1>3, JoinIs
    <3>2. a \o b \in Seq(S)
      BY <1>2, <1>3, JoinIs
    <3> QED
      BY <3>1, <3>2 DEF Joined
  <2> QED
    BY <1>1, <1>2, <1>3, <2>1
<1>6. ASSUME NEW i \in 1..(Len(p) - 1), ~(i < k) PROVE (a \o b)[i] = p[i + 1]
  <2>1. i - k + 1 \in 1..(Len(p) - k) /\ k - 1 + (i - k + 1) = i /\ k + (i - k + 1) = i + 1
    BY <1>1, <1>6
  <2> QED
    BY <1>5, <2>1
<1>7. \A i \in 1..(Len(p) - 1) : i < k => i \in 1..(k - 1)
  BY <1>1
<1> QED
  BY <1>4, <1>5, <1>6, <1>7

LEMMA LinesAre ==
    ASSUME FeedTyped
    PROVE  /\ Len(Lines) = Len(queue) + Len(wire) /\ Len(queue) \in Nat /\ Len(wire) \in Nat
           /\ \A i \in 1..Len(queue) : Lines[i] = queue[i]
           /\ \A i \in 1..Len(wire) : Lines[Len(queue) + i] = wire[i]
<1>1. queue \in Seq(Lined) /\ wire \in Seq(Lined)
  BY DEF FeedTyped
<1>2. Joined(queue, wire)
  BY <1>1, JoinIs
<1> QED
  BY <1>2 DEF Joined, Lines

LEMMA FeedStarts == Feed!AuditStart => FeedTyped /\ AllTidy
<1> SUFFICES ASSUME Feed!AuditStart PROVE FeedTyped /\ AllTidy
  OBVIOUS
<1> USE DEF Feed!AuditStart
<1>1. Feed!AuditTypeOK
  BY FeedAssumption DEF Feed!AuditTypeOK, Feed!NamesAreApart
<1>2. FeedTyped
  BY <1>1 DEF FeedTyped
<1>3. Lines = <<>> /\ Len(Lines) = 0 /\ 1..Len(Lines) = {}
  BY DEF Lines
<1>4. ASSUME NEW f \in Files PROVE Tidy(Lines, {}, f, Feed!On(f), Possible(f))
  <2>1. Feed!On(f) = {} /\ Possible(f) = {Feed!Nobody}
    <3>1. locked[f] = Feed!Nobody /\ answer.state = "none"
      BY DEF Feed!NoAnswer, Feed!Names
    <3> QED
      BY <3>1 DEF Feed!On, Possible
  <2>2. Feed!Nobody \notin Machines
    BY FeedAssumption DEF Feed!NamesAreApart, Feed!Nobody
  <2> QED
    BY <2>1, <2>2 DEF Tidy, Plain, OpensEnd, Right, WrittenOn
<1> QED
  BY <1>2, <1>3, <1>4 DEF AllTidy

\* a line of the audit comes at the end, or what it is about is in doubt
Grown(M, L, line) ==
    Len(M) = Len(L) + 1 /\ M[Len(M)] = line /\ \A i \in 1..Len(L) : M[i] = L[i]

LEMMA AuditedIs ==
    ASSUME FeedTyped, NEW line \in Lined, line.op # "noise" => line.machine \in Machines,
           NEW D, D \subseteq Files, Feed!Audited(line, D), queue' = queue
    PROVE  /\ wire' \in Seq(Lined)
           /\ \A i \in 1..Len(wire') : wire'[i].op # "noise" => wire'[i].machine \in Machines
           /\ doubt' \subseteq Files /\ doubt \cup D \subseteq doubt'
           /\ \/ Grown(Lines', Lines, line)
              \/ Lines' = Lines /\ \A f \in Files : Mentions(line, f) => f \in doubt'
<1>1. doubt \subseteq Files /\ wire \in Seq(Lined) /\ queue \in Seq(Lined)
  BY DEF FeedTyped, Feed!AuditTypeOK
<1>2. CASE wire' = Append(wire, line) /\ doubt' = doubt \cup D
  <2>1. /\ wire' \in Seq(Lined) /\ Len(wire') = Len(wire) + 1 /\ Len(wire) \in Nat
        /\ wire'[Len(wire) + 1] = line /\ \A i \in 1..Len(wire) : wire'[i] = wire[i]
    BY <1>1, <1>2, AppendProperties, LenProperties
  <2>2. \A i \in 1..Len(wire') : wire'[i].op # "noise" => wire'[i].machine \in Machines
    <3> SUFFICES ASSUME NEW i \in 1..Len(wire') PROVE wire'[i].op # "noise" => wire'[i].machine \in Machines
      OBVIOUS
    <3>1. i = Len(wire) + 1 \/ i \in 1..Len(wire)
      BY <2>1
    <3> QED
      BY <2>1, <3>1 DEF FeedTyped
  <2>3. Grown(Lines', Lines, line)
    <3>1. Lines' = queue \o wire'
      BY DEF Lines
    <3>2. /\ Len(queue \o wire') = Len(queue) + Len(wire') /\ Len(queue) \in Nat
          /\ \A i \in 1..Len(queue) : (queue \o wire')[i] = queue[i]
          /\ \A i \in 1..Len(wire') : (queue \o wire')[Len(queue) + i] = wire'[i]
      <4>1. Joined(queue, wire')
        BY <1>1, <2>1, JoinIs
      <4> QED
        BY <4>1 DEF Joined
    <3>3. /\ Len(Lines) = Len(queue) + Len(wire)
          /\ \A i \in 1..Len(queue) : Lines[i] = queue[i]
          /\ \A i \in 1..Len(wire) : Lines[Len(queue) + i] = wire[i]
      BY LinesAre
    <3>4. Len(Lines') = Len(Lines) + 1 /\ Len(Lines') = Len(queue) + (Len(wire) + 1)
      BY <2>1, <3>1, <3>2, <3>3
    <3>5. Lines'[Len(queue) + (Len(wire) + 1)] = line
      <4>1. Len(wire) + 1 \in 1..Len(wire')
        BY <2>1
      <4> QED
        BY <2>1, <3>1, <3>2, <4>1
    <3>6. ASSUME NEW i \in 1..Len(Lines) PROVE Lines'[i] = Lines[i]
      <4>1. CASE i \in 1..Len(queue)
        BY <4>1, <3>1, <3>2, <3>3
      <4>2. CASE i \notin 1..Len(queue)
        <5>1. i - Len(queue) \in 1..Len(wire) /\ i - Len(queue) \in 1..Len(wire')
              /\ Len(queue) + (i - Len(queue)) = i
          BY <2>1, <3>2, <3>3, <4>2
        <5> QED
          BY <2>1, <3>1, <3>2, <3>3, <5>1
      <4> QED
        BY <4>1, <4>2
    <3> QED
      BY <3>4, <3>5, <3>6 DEF Grown
  <2> QED
    BY <1>1, <1>2, <2>1, <2>2, <2>3
<1>3. CASE wire' = wire /\ doubt' = doubt \cup D \cup Feed!About(<<line>>)
  <2>1. Lines' = Lines
    BY <1>3 DEF Lines
  <2>2. Feed!About(<<line>>) \subseteq Files
    BY DEF Feed!About
  <2>3. \A f \in Files : Mentions(line, f) => f \in doubt'
    BY <1>3, AboutOne
  <2> QED
    BY <1>1, <1>3, <2>1, <2>2, <2>3 DEF FeedTyped
<1> QED
  BY <1>2, <1>3 DEF Feed!Audited

LEMMA GrownIsTidy ==
    ASSUME NEW L, NEW M, NEW line, Grown(M, L, line), Len(L) \in Nat, NEW f,
           NEW on, NEW locks, Tidy(L, 1..Len(L), f, on, locks)
    PROVE  /\ ~Mentions(line, f) => Tidy(M, 1..Len(M), f, on, locks)
           /\ \A h : (line.op = "open" /\ line.path = f /\ line.new = f /\ line.machine = h.machine
                        /\ line.mode = h.mode /\ on = {}) => Tidy(M, 1..Len(M), f, {h}, locks)
           /\ \A h : (line.op = "close" /\ line.path = f /\ line.new = f /\ line.machine = h.machine
                        /\ on = {h}) => Tidy(M, 1..Len(M), f, {}, locks)
<1>1. PICK W : W = 1..Len(L)
  OBVIOUS
<1>2. PICK b \in Nat : b = Len(L) + 1
  OBVIOUS
<1>3. 1..Len(M) = W \cup {b} /\ M[b] = line /\ W \subseteq Nat /\ \A i \in W : i < b
  BY <1>1, <1>2 DEF Grown
<1>4. Tidy(M, W, f, on, locks)
  BY <1>1, SameLines DEF Grown
<1>5. ~Mentions(line, f) => Tidy(M, W \cup {b}, f, on, locks)
  BY <1>3, <1>4, OneIsOther
<1>6. ASSUME NEW h, line.op = "open", line.path = f, line.new = f, line.machine = h.machine,
             line.mode = h.mode, on = {}
      PROVE  Tidy(M, W \cup {b}, f, {h}, locks)
  BY <1>3, <1>4, <1>6, OneIsOpened
<1>7. ASSUME NEW h, line.op = "close", line.path = f, line.new = f, line.machine = h.machine, on = {h}
      PROVE  Tidy(M, W \cup {b}, f, {}, locks)
  BY <1>3, <1>4, <1>7, OneIsClosed
<1> QED
  BY <1>3, <1>5, <1>6, <1>7

LEMMA TypedKept ==
    ASSUME FeedTyped, UNCHANGED <<queue, tokens, answer, locked>>, wire' \in Seq(Lined),
           \A i \in 1..Len(wire') : wire'[i].op # "noise" => wire'[i].machine \in Machines,
           doubt' \subseteq Files, handles' \subseteq Feed!Handles
    PROVE  FeedTyped'
BY DEF FeedTyped, Feed!AuditTypeOK

LEMMA NobodyIsNoMachine == Feed!Nobody \notin Machines /\ Feed!Operator \notin Machines
                           /\ Feed!Nobody # Feed!Operator
BY FeedAssumption DEF Feed!NamesAreApart, Feed!Nobody, Feed!Operator

LEMMA PossibleKept ==
    ASSUME NEW f, UNCHANGED <<answer, locked>>
    PROVE  Possible(f)' = Possible(f)
BY DEF Possible

LEMMA OpensTidy ==
    ASSUME FeedTyped, AllTidy, NEW m \in Machines, NEW f0 \in Files, NEW mode \in Feed!Modes,
           Feed!Opens(m, f0, mode)
    PROVE  FeedTyped' /\ AllTidy'
<1>1. PICK line : line = Feed!Line("open", m, Feed!Parsed("open", f0), mode)
  OBVIOUS
<1>2. /\ line \in Lined /\ line.op = "open" /\ line.machine = m /\ line.path = f0
      /\ line.new = f0 /\ line.mode = mode
  BY <1>1, LinesAreTyped
<1>3. PICK h : h = [machine |-> m, file |-> f0, mode |-> mode]
  OBVIOUS
<1>4. h \in Feed!Handles /\ h.machine = m /\ h.file = f0 /\ h.mode = mode
  BY <1>3 DEF Feed!Handles
<1>5. PICK D : D = IF Feed!On(f0) = {} THEN {} ELSE {f0}
  OBVIOUS
<1>6. /\ handles' = handles \cup {h} /\ Feed!Audited(line, D)
      /\ UNCHANGED <<queue, tokens, listening, answer, locked>>
  BY <1>1, <1>3, <1>5, Zenon DEF Feed!Opens
<1>7. /\ wire' \in Seq(Lined)
      /\ \A i \in 1..Len(wire') : wire'[i].op # "noise" => wire'[i].machine \in Machines
      /\ doubt' \subseteq Files /\ doubt \cup D \subseteq doubt'
      /\ \/ Grown(Lines', Lines, line)
         \/ Lines' = Lines /\ \A f \in Files : Mentions(line, f) => f \in doubt'
  <2>1. D \subseteq Files /\ queue' = queue
    BY <1>5, <1>6
  <2> QED
    BY <1>2, <1>6, <2>1, AuditedIs
<1>8. FeedTyped'
  <2>1. handles' \subseteq Feed!Handles
    BY <1>4, <1>6 DEF FeedTyped, Feed!AuditTypeOK
  <2> QED
    BY <1>6, <1>7, <2>1, TypedKept
<1>9. ASSUME NEW f \in Files \ doubt' PROVE Tidy(Lines', 1..Len(Lines'), f, Feed!On(f)', Possible(f)')
  <2>1. Possible(f)' = Possible(f)
    BY <1>6, PossibleKept
  <2>2. Tidy(Lines, 1..Len(Lines), f, Feed!On(f), Possible(f))
    BY <1>7, <1>9 DEF AllTidy
  <2>3. Len(Lines) \in Nat
    BY LinesAre
  <2>4. CASE f # f0
    <3>1. Feed!On(f)' = Feed!On(f)
      BY <1>4, <1>6, <2>4 DEF Feed!On
    <3>2. ~Mentions(line, f)
      BY <1>2, <2>4 DEF Mentions
    <3> QED
      BY <1>7, <2>1, <2>2, <2>3, <3>1, <3>2, GrownIsTidy
  <2>5. CASE f = f0
    <3>1. Feed!On(f) = {}
      BY <1>5, <1>7, <1>9, <2>5
    <3>2. Feed!On(f)' = {h}
      BY <1>4, <1>6, <2>5, <3>1 DEF Feed!On
    <3>3. Mentions(line, f) /\ Grown(Lines', Lines, line)
      BY <1>2, <1>7, <1>9, <2>5 DEF Mentions
    <3> QED
      BY <1>2, <1>4, <2>1, <2>2, <2>3, <2>5, <3>1, <3>2, <3>3, GrownIsTidy
  <2> QED
    BY <2>4, <2>5
<1> QED
  BY <1>8, <1>9 DEF AllTidy

LEMMA ClosesTidy ==
    ASSUME FeedTyped, AllTidy, NEW h \in handles, Feed!Closes(h)
    PROVE  FeedTyped' /\ AllTidy'
<1>1. h \in Feed!Handles /\ handles \subseteq Feed!Handles
  BY DEF FeedTyped, Feed!AuditTypeOK
<1>2. h.machine \in Machines /\ h.file \in Files /\ h.mode \in Feed!Modes
  BY <1>1 DEF Feed!Handles
<1>3. PICK line : line = Feed!Line("close", h.machine, Feed!Parsed("close", h.file), h.mode)
  OBVIOUS
<1>4. /\ line \in Lined /\ line.op = "close" /\ line.machine = h.machine /\ line.path = h.file
      /\ line.new = h.file /\ line.mode = h.mode
  BY <1>2, <1>3, LinesAreTyped
<1>5. PICK D : D = IF Feed!On(h.file) = {h} THEN {} ELSE {h.file}
  OBVIOUS
<1>6. /\ handles' = handles \ {h} /\ Feed!Audited(line, D)
      /\ UNCHANGED <<queue, tokens, listening, answer, locked>>
  BY <1>3, <1>5, Zenon DEF Feed!Closes
<1>7. /\ wire' \in Seq(Lined)
      /\ \A i \in 1..Len(wire') : wire'[i].op # "noise" => wire'[i].machine \in Machines
      /\ doubt' \subseteq Files /\ doubt \cup D \subseteq doubt'
      /\ \/ Grown(Lines', Lines, line)
         \/ Lines' = Lines /\ \A f \in Files : Mentions(line, f) => f \in doubt'
  <2>1. D \subseteq Files /\ queue' = queue
    BY <1>2, <1>5, <1>6
  <2> QED
    BY <1>2, <1>4, <1>6, <2>1, AuditedIs
<1>8. FeedTyped'
  BY <1>1, <1>6, <1>7, TypedKept
<1>9. ASSUME NEW f \in Files \ doubt' PROVE Tidy(Lines', 1..Len(Lines'), f, Feed!On(f)', Possible(f)')
  <2>1. Possible(f)' = Possible(f)
    BY <1>6, PossibleKept
  <2>2. Tidy(Lines, 1..Len(Lines), f, Feed!On(f), Possible(f))
    BY <1>7, <1>9 DEF AllTidy
  <2>3. Len(Lines) \in Nat
    BY LinesAre
  <2>4. CASE f # h.file
    <3>1. Feed!On(f)' = Feed!On(f)
      BY <1>6, <2>4 DEF Feed!On
    <3>2. ~Mentions(line, f)
      BY <1>4, <2>4 DEF Mentions
    <3> QED
      BY <1>7, <2>1, <2>2, <2>3, <3>1, <3>2, GrownIsTidy
  <2>5. CASE f = h.file
    <3>1. Feed!On(f) = {h}
      BY <1>5, <1>7, <1>9, <2>5
    <3>2. Feed!On(f)' = {}
      BY <1>6, <2>5, <3>1 DEF Feed!On
    <3>3. Mentions(line, f) /\ Grown(Lines', Lines, line)
      BY <1>4, <1>7, <1>9, <2>5 DEF Mentions
    <3> QED
      BY <1>4, <2>1, <2>2, <2>3, <2>5, <3>1, <3>2, <3>3, GrownIsTidy
  <2> QED
    BY <2>4, <2>5
<1> QED
  BY <1>8, <1>9 DEF AllTidy

LEMMA RenamesTidy ==
    ASSUME FeedTyped, AllTidy, NEW h \in handles, NEW g \in Files, Feed!Renames(h, g)
    PROVE  FeedTyped' /\ AllTidy'
<1>1. h \in Feed!Handles /\ handles \subseteq Feed!Handles
  BY DEF FeedTyped, Feed!AuditTypeOK
<1>2. h.machine \in Machines /\ h.file \in Files /\ h.mode \in Feed!Modes
  BY <1>1 DEF Feed!Handles
<1>3. PICK line : line = Feed!Renaming(h.machine, h.file, g)
  OBVIOUS
<1>4. /\ line \in Lined /\ line.machine = h.machine
      /\ line.path \in {h.file, Half} /\ line.new \in {g, Half}
  BY <1>2, <1>3, LinesAreTyped
<1>5. PICK k : k = [h EXCEPT !.file = g]
  OBVIOUS
<1>6. k \in Feed!Handles /\ k.file = g
  BY <1>1, <1>5 DEF Feed!Handles
<1>7. /\ handles' = {k} \cup (handles \ {h}) /\ Feed!Audited(line, {h.file, g})
      /\ UNCHANGED <<queue, tokens, listening, answer, locked>>
  BY <1>3, <1>5, Zenon DEF Feed!Renames
<1>8. /\ wire' \in Seq(Lined)
      /\ \A i \in 1..Len(wire') : wire'[i].op # "noise" => wire'[i].machine \in Machines
      /\ doubt' \subseteq Files /\ doubt \cup {h.file, g} \subseteq doubt'
      /\ \/ Grown(Lines', Lines, line)
         \/ Lines' = Lines /\ \A f \in Files : Mentions(line, f) => f \in doubt'
  <2>1. {h.file, g} \subseteq Files /\ queue' = queue
    BY <1>2, <1>7
  <2> QED
    BY <1>2, <1>4, <1>7, <2>1, AuditedIs
<1>9. FeedTyped'
  <2>1. handles' \subseteq Feed!Handles
    BY <1>1, <1>6, <1>7
  <2> QED
    BY <1>7, <1>8, <2>1, TypedKept
<1>10. ASSUME NEW f \in Files \ doubt' PROVE Tidy(Lines', 1..Len(Lines'), f, Feed!On(f)', Possible(f)')
  <2>1. Possible(f)' = Possible(f)
    BY <1>7, PossibleKept
  <2>2. Tidy(Lines, 1..Len(Lines), f, Feed!On(f), Possible(f))
    BY <1>8, <1>10 DEF AllTidy
  <2>3. f # h.file /\ f # g /\ f # Half
    BY <1>8, <1>10, FeedAssumption DEF Feed!NamesAreApart
  <2>4. Feed!On(f)' = Feed!On(f)
    BY <1>6, <1>7, <2>3 DEF Feed!On
  <2>5. ~Mentions(line, f)
    BY <1>4, <2>3 DEF Mentions
  <2>6. Len(Lines) \in Nat
    BY LinesAre
  <2> QED
    BY <1>8, <2>1, <2>2, <2>4, <2>5, <2>6, GrownIsTidy
<1> QED
  BY <1>9, <1>10 DEF AllTidy

\* a line in the second of two sequences is dropped
LEMMA JoinDrops ==
    ASSUME NEW S, NEW p \in Seq(S), NEW q \in Seq(S), NEW r \in Seq(S), NEW k, Dropped(r, q, k)
    PROVE  Dropped(p \o r, p \o q, Len(p) + k)
<1>1. /\ Len(p \o q) = Len(p) + Len(q) /\ Len(p) \in Nat /\ Len(q) \in Nat
      /\ \A i \in 1..Len(p) : (p \o q)[i] = p[i]
      /\ \A i \in 1..Len(q) : (p \o q)[Len(p) + i] = q[i]
  <2>1. Joined(p, q)
    BY JoinIs
  <2> QED
    BY <2>1 DEF Joined
<1>2. /\ Len(p \o r) = Len(p) + Len(r)
      /\ \A i \in 1..Len(p) : (p \o r)[i] = p[i]
      /\ \A i \in 1..Len(r) : (p \o r)[Len(p) + i] = r[i]
  <2>1. Joined(p, r)
    BY JoinIs
  <2> QED
    BY <2>1 DEF Joined
<1>3. /\ Len(r) = Len(q) - 1 /\ k \in 1..Len(q)
      /\ \A i \in 1..(Len(q) - 1) : r[i] = IF i < k THEN q[i] ELSE q[i + 1]
  BY DEF Dropped
<1>4. ASSUME NEW i \in 1..(Len(p \o q) - 1)
      PROVE  (p \o r)[i] = IF i < Len(p) + k THEN (p \o q)[i] ELSE (p \o q)[i + 1]
  <2>1. CASE i <= Len(p)
    <3>1. i \in 1..Len(p) /\ i < Len(p) + k
      BY <1>1, <1>3, <2>1
    <3> QED
      BY <1>1, <1>2, <3>1
  <2>2. CASE i > Len(p)
    <3>1. PICK j \in 1..(Len(q) - 1) : i = Len(p) + j
      <4>1. i - Len(p) \in 1..(Len(q) - 1) /\ i = Len(p) + (i - Len(p))
        BY <1>1, <1>3, <2>2
      <4> QED
        BY <4>1
    <3>2. (p \o r)[i] = r[j]
      BY <1>1, <1>2, <1>3, <3>1
    <3>3. j \in 1..Len(q) /\ j + 1 \in 1..Len(q) /\ i + 1 = Len(p) + (j + 1)
          /\ (i < Len(p) + k <=> j < k)
      BY <1>1, <1>3, <3>1
    <3>4. (p \o q)[i] = q[j] /\ (p \o q)[i + 1] = q[j + 1]
      BY <1>1, <3>1, <3>3
    <3> QED
      BY <1>3, <3>1, <3>2, <3>3, <3>4
  <2>3. i <= Len(p) \/ i > Len(p)
    BY <1>1
  <2> QED
    BY <2>1, <2>2, <2>3
<1> QED
  BY <1>1, <1>2, <1>3, <1>4 DEF Dropped

LEMMA TailIs ==
    ASSUME NEW S, NEW q \in Seq(S), q # <<>>
    PROVE  /\ Tail(q) \in Seq(S) /\ Len(Tail(q)) = Len(q) - 1 /\ Len(q) \in Nat \ {0}
           /\ Head(q) = q[1] /\ Head(q) \in S
           /\ \A i \in 1..(Len(q) - 1) : Tail(q)[i] = q[i + 1]
<1>1. Len(q) \in Nat \ {0}
  BY LenProperties, EmptySeq
<1>2. Tail(q) \in Seq(S) /\ Len(Tail(q)) = Len(q) - 1 /\ \A i \in 1..Len(Tail(q)) : Tail(q)[i] = q[i + 1]
  BY <1>1, HeadTailProperties
<1>3. Head(q) = q[1] /\ Head(q) \in S
  BY <1>1, HeadTailProperties
<1> QED
  BY <1>1, <1>2, <1>3

\* the first line of the one goes to the end of the other
LEMMA JoinMoves ==
    ASSUME NEW S, NEW p \in Seq(S), NEW q \in Seq(S), q # <<>>
    PROVE  /\ Append(p, Head(q)) \in Seq(S) /\ Len(Append(p, Head(q))) = Len(p) + 1
           /\ Append(p, Head(q))[Len(p) + 1] = q[1]
           /\ \A i \in 1..Len(p) : Append(p, Head(q))[i] = p[i]
           /\ Len(Append(p, Head(q)) \o Tail(q)) = Len(p \o q)
           /\ \A i \in 1..Len(p \o q) : (Append(p, Head(q)) \o Tail(q))[i] = (p \o q)[i]
<1>1. PICK a : a = Append(p, Head(q))
  OBVIOUS
<1>2. /\ Tail(q) \in Seq(S) /\ Len(Tail(q)) = Len(q) - 1 /\ Len(q) \in Nat \ {0}
      /\ Head(q) = q[1] /\ Head(q) \in S
      /\ \A i \in 1..(Len(q) - 1) : Tail(q)[i] = q[i + 1]
  BY TailIs
<1>3. /\ a \in Seq(S) /\ Len(a) = Len(p) + 1 /\ Len(p) \in Nat
      /\ a[Len(p) + 1] = q[1] /\ \A i \in 1..Len(p) : a[i] = p[i]
  BY <1>1, <1>2, AppendProperties, LenProperties
<1>4. /\ Len(a \o Tail(q)) = Len(a) + Len(Tail(q))
      /\ \A i \in 1..Len(a) : (a \o Tail(q))[i] = a[i]
      /\ \A i \in 1..Len(Tail(q)) : (a \o Tail(q))[Len(a) + i] = Tail(q)[i]
  <2>1. Joined(a, Tail(q))
    BY <1>2, <1>3, JoinIs
  <2> QED
    BY <2>1 DEF Joined
<1>5. /\ Len(p \o q) = Len(p) + Len(q)
      /\ \A i \in 1..Len(p) : (p \o q)[i] = p[i]
      /\ \A i \in 1..Len(q) : (p \o q)[Len(p) + i] = q[i]
  <2>1. Joined(p, q)
    BY JoinIs
  <2> QED
    BY <2>1 DEF Joined
<1>6. Len(a \o Tail(q)) = Len(p \o q)
  BY <1>2, <1>3, <1>4, <1>5
<1>7. ASSUME NEW i \in 1..Len(p \o q) PROVE (a \o Tail(q))[i] = (p \o q)[i]
  <2>1. CASE i \in 1..Len(p)
    <3>1. i \in 1..Len(a)
      BY <1>3, <2>1
    <3> QED
      BY <1>3, <1>4, <1>5, <2>1, <3>1
  <2>2. CASE i = Len(p) + 1
    <3>1. i \in 1..Len(a) /\ 1 \in 1..Len(q)
      BY <1>2, <1>3, <2>2
    <3> QED
      BY <1>3, <1>4, <1>5, <2>2, <3>1
  <2>3. CASE i > Len(p) + 1
    <3>1. PICK j \in 1..(Len(q) - 1) : i = Len(a) + j /\ i = Len(p) + (j + 1)
      <4>1. i - Len(a) \in 1..(Len(q) - 1) /\ i = Len(a) + (i - Len(a)) /\ i = Len(p) + ((i - Len(a)) + 1)
        BY <1>2, <1>3, <1>5, <2>3
      <4> QED
        BY <4>1
    <3>2. j + 1 \in 1..Len(q) /\ j \in 1..Len(Tail(q))
      BY <1>2, <3>1
    <3> QED
      BY <1>2, <1>4, <1>5, <3>1, <3>2
  <2> QED
    BY <1>3, <1>5, <2>1, <2>2, <2>3
<1> QED
  BY <1>1, <1>3, <1>6, <1>7

LEMMA LostTidy ==
    ASSUME FeedTyped, AllTidy, NEW k \in DOMAIN wire, Feed!Lost(k)
    PROVE  FeedTyped' /\ AllTidy'
<1>1. wire \in Seq(Lined) /\ queue \in Seq(Lined) /\ k \in 1..Len(wire) /\ doubt \subseteq Files
  BY LenProperties DEF FeedTyped, Feed!AuditTypeOK
<1>2. /\ wire' = Feed!RemoveAt(wire, k) /\ doubt' = doubt \cup Feed!About(<<wire[k]>>)
      /\ UNCHANGED <<handles, queue, tokens, listening, answer, locked>>
  BY Zenon DEF Feed!Lost
<1>3. /\ wire' \in Seq(Lined) /\ Len(wire') = Len(wire) - 1
      /\ \A i \in 1..(Len(wire) - 1) : wire'[i] = IF i < k THEN wire[i] ELSE wire[i + 1]
  BY <1>1, <1>2, RemovedIs
<1>4. FeedTyped'
  <2>1. ASSUME NEW i \in 1..Len(wire'), wire'[i].op # "noise" PROVE wire'[i].machine \in Machines
    <3>1. Len(wire) \in Nat
      BY <1>1, LenProperties
    <3>2. i \in 1..Len(wire) /\ i + 1 \in 1..Len(wire) /\ i \in 1..(Len(wire) - 1)
      BY <1>3, <3>1
    <3> QED
      BY <1>3, <2>1, <3>2 DEF FeedTyped
  <2>2. doubt' \subseteq Files /\ handles' \subseteq Feed!Handles
    BY <1>1, <1>2 DEF Feed!About, FeedTyped, Feed!AuditTypeOK
  <2> QED
    BY <1>2, <1>3, <2>1, <2>2, TypedKept
<1>5. ASSUME NEW f \in Files \ doubt' PROVE Tidy(Lines', 1..Len(Lines'), f, Feed!On(f)', Possible(f)')
  <2>1. Possible(f)' = Possible(f) /\ Feed!On(f)' = Feed!On(f)
    BY <1>2, PossibleKept DEF Feed!On
  <2>2. Tidy(Lines, 1..Len(Lines), f, Feed!On(f), Possible(f))
    BY <1>2, <1>5 DEF AllTidy
  <2>3. Lines' = queue \o wire' /\ Lines = queue \o wire
    BY <1>2 DEF Lines
  <2>4. /\ Len(Lines') = Len(Lines) - 1 /\ Len(queue) + k \in 1..Len(Lines)
        /\ \A i \in 1..(Len(Lines) - 1) :
             Lines'[i] = IF i < Len(queue) + k THEN Lines[i] ELSE Lines[i + 1]
    <3>1. PICK r \in Seq(Lined) : r = wire'
      BY <1>3
    <3>2. Len(r) = Len(wire) - 1 /\ \A i \in 1..(Len(wire) - 1) : r[i] = IF i < k THEN wire[i] ELSE wire[i + 1]
      BY <1>3, <3>1
    <3>3. Dropped(r, wire, k)
      BY <1>1, <3>1, <3>2, LenProperties DEF Dropped
    <3>4. Dropped(queue \o r, queue \o wire, Len(queue) + k)
      BY <1>1, <3>1, <3>3, JoinDrops
    <3> QED
      BY <2>3, <3>1, <3>4 DEF Dropped
  <2>5. Lines[Len(queue) + k] = wire[k] /\ Len(Lines) \in Nat
    BY <1>1, LinesAre
  <2>6. ~Mentions(Lines[Len(queue) + k], f)
    BY <1>2, <1>5, <2>5, AboutOne
  <2>7. Tidy(Lines', 1..(Len(Lines) - 1), f, Feed!On(f), Possible(f))
    BY <2>2, <2>4, <2>5, <2>6, OneIsDropped
  <2> QED
    BY <2>1, <2>4, <2>7
<1> QED
  BY <1>4, <1>5 DEF AllTidy

LEMMA OtherTidy ==
    ASSUME FeedTyped, AllTidy, Feed!OtherLine
    PROVE  FeedTyped' /\ AllTidy'
<1>1. Feed!Noise \in Lined /\ Feed!Noise.op = "noise" /\ Feed!Noise.path = Half /\ Feed!Noise.new = Half
  BY DEF Feed!Noise, Lined, Feed!Names, Feed!Modes, Feed!Nobody
<1>2. Feed!Audited(Feed!Noise, {})
  BY DEF Feed!OtherLine, Feed!Audited
<1>3. UNCHANGED <<handles, queue, tokens, listening, answer, locked, doubt>>
  BY DEF Feed!OtherLine
<1>4. /\ wire' \in Seq(Lined)
      /\ \A i \in 1..Len(wire') : wire'[i].op # "noise" => wire'[i].machine \in Machines
      /\ doubt' \subseteq Files /\ doubt \subseteq doubt'
      /\ Grown(Lines', Lines, Feed!Noise) \/ Lines' = Lines
  <2>1. queue' = queue /\ {} \subseteq Files
    BY <1>3
  <2> QED
    BY <1>1, <1>2, <2>1, AuditedIs
<1>5. FeedTyped'
  <2>1. handles' \subseteq Feed!Handles
    BY <1>3 DEF FeedTyped, Feed!AuditTypeOK
  <2> QED
    BY <1>3, <1>4, <2>1, TypedKept
<1>6. ASSUME NEW f \in Files \ doubt' PROVE Tidy(Lines', 1..Len(Lines'), f, Feed!On(f)', Possible(f)')
  <2>1. Possible(f)' = Possible(f) /\ Feed!On(f)' = Feed!On(f)
    BY <1>3, PossibleKept DEF Feed!On
  <2>2. Tidy(Lines, 1..Len(Lines), f, Feed!On(f), Possible(f))
    BY <1>4, <1>6 DEF AllTidy
  <2>3. ~Mentions(Feed!Noise, f)
    BY <1>1, FeedAssumption DEF Feed!NamesAreApart, Mentions
  <2>4. Len(Lines) \in Nat
    BY LinesAre
  <2> QED
    BY <1>4, <2>1, <2>2, <2>3, <2>4, GrownIsTidy
<1> QED
  BY <1>5, <1>6 DEF AllTidy

LEMMA IngestTidy ==
    ASSUME FeedTyped, AllTidy, Feed!Ingest
    PROVE  FeedTyped' /\ AllTidy'
<1>1. /\ wire \in Seq(Lined) /\ queue \in Seq(Lined) /\ doubt \subseteq Files
      /\ tokens \in 0..Burst /\ Len(queue) <= MaxQueue
      /\ Burst \in Nat /\ MaxQueue \in Nat \ {0}
  BY FeedAssumption DEF FeedTyped, Feed!AuditTypeOK, Feed!NamesAreApart
<1>2. /\ wire # <<>> /\ wire' = Tail(wire) /\ tokens' = IF tokens = 0 THEN 0 ELSE tokens - 1
      /\ UNCHANGED <<handles, listening, answer, locked, spentOn>>
  BY Zenon DEF Feed!Ingest
<1>3. /\ wire' \in Seq(Lined) /\ Len(wire') = Len(wire) - 1 /\ Len(wire) \in Nat \ {0}
      /\ Head(wire) = wire[1] /\ Head(wire) \in Lined /\ Len(queue) \in Nat
      /\ \A i \in 1..(Len(wire) - 1) : wire'[i] = wire[i + 1]
  BY <1>1, <1>2, TailIs, LenProperties
<1>4. tokens' \in 0..Burst
  BY <1>1, <1>2
<1>5. ASSUME NEW i \in 1..Len(wire'), wire'[i].op # "noise" PROVE wire'[i].machine \in Machines
  <2>1. i + 1 \in 1..Len(wire) /\ i \in 1..(Len(wire) - 1)
    BY <1>3
  <2> QED
    BY <1>3, <1>5, <2>1 DEF FeedTyped
<1>6. \A f \in Files \ doubt :
        /\ Possible(f)' = Possible(f) /\ Feed!On(f)' = Feed!On(f)
        /\ Tidy(Lines, 1..Len(Lines), f, Feed!On(f), Possible(f))
  BY <1>2, PossibleKept DEF Feed!On, AllTidy
<1>7. /\ Lines = queue \o wire /\ Lines' = queue' \o wire' /\ Len(Lines) \in Nat
      /\ \A i \in 1..Len(queue) : Lines[i] = queue[i]
      /\ \A i \in 1..Len(wire) : Lines[Len(queue) + i] = wire[i]
  BY LinesAre DEF Lines
<1>8. CASE /\ \/ tokens = 0 /\ doubt' = doubt \cup Feed!About(<<Head(wire)>>)
              \/ Head(wire).op = "noise" /\ doubt' = doubt
           /\ queue' = queue
  <2>1. FeedTyped'
    <3>1. doubt' \subseteq Files
      BY <1>1, <1>8 DEF Feed!About
    <3> QED
      BY <1>2, <1>3, <1>4, <1>5, <1>8, <3>1 DEF FeedTyped, Feed!AuditTypeOK
  <2>2. /\ Len(Lines') = Len(Lines) - 1 /\ Len(queue) + 1 \in 1..Len(Lines)
        /\ \A i \in 1..(Len(Lines) - 1) :
             Lines'[i] = IF i < Len(queue) + 1 THEN Lines[i] ELSE Lines[i + 1]
    <3>1. PICK r \in Seq(Lined) : r = wire'
      BY <1>3
    <3>2. 1 \in 1..Len(wire) /\ Len(r) = Len(wire) - 1
          /\ \A i \in 1..(Len(wire) - 1) : r[i] = IF i < 1 THEN wire[i] ELSE wire[i + 1]
      BY <1>3, <3>1
    <3>3. Dropped(r, wire, 1)
      BY <1>1, <1>3, <3>1, <3>2, LenProperties DEF Dropped
    <3>4. Dropped(queue \o r, queue \o wire, Len(queue) + 1)
      BY <1>1, <3>1, <3>3, JoinDrops
    <3> QED
      BY <1>7, <1>8, <3>1, <3>4 DEF Dropped
  <2>3. ASSUME NEW f \in Files \ doubt' PROVE Tidy(Lines', 1..Len(Lines'), f, Feed!On(f)', Possible(f)')
    <3>1. f \in Files \ doubt
      BY <1>8, <2>3
    <3>2. Lines[Len(queue) + 1] = Head(wire)
      BY <1>3, <1>7
    <3>3. ~Mentions(Head(wire), f)
      <4>1. CASE doubt' = doubt \cup Feed!About(<<Head(wire)>>)
        BY <2>3, <4>1, AboutOne
      <4>2. CASE Head(wire).op = "noise"
        <5>1. Plain(Lines, 1..Len(Lines), f)
          BY <1>6, <3>1 DEF Tidy
        <5>2. Mentions(Lines[Len(queue) + 1], f) => Lines[Len(queue) + 1].op \in {"open", "close"}
          BY <2>2, <5>1, Zenon DEF Plain
        <5> QED
          BY <3>2, <4>2, <5>2
      <4> QED
        BY <1>8, <4>1, <4>2
    <3>4. Tidy(Lines', 1..(Len(Lines) - 1), f, Feed!On(f), Possible(f))
      <4>1. Tidy(Lines, 1..Len(Lines), f, Feed!On(f), Possible(f)) /\ Len(Lines) \in Nat
        BY <1>6, <1>7, <3>1
      <4>2. ~Mentions(Lines[Len(queue) + 1], f)
        BY <3>2, <3>3
      <4> QED
        BY <2>2, <4>1, <4>2, OneIsDropped, Zenon
    <3> QED
      BY <1>6, <2>2, <3>1, <3>4
  <2> QED
    BY <2>1, <2>3 DEF AllTidy
<1>9. CASE Head(wire).op # "noise" /\ ~(Len(queue) >= MaxQueue)
           /\ queue' = Append(queue, Head(wire)) /\ doubt' = doubt
  <2>1. /\ queue' \in Seq(Lined) /\ Len(queue') = Len(queue) + 1
        /\ queue'[Len(queue) + 1] = wire[1]
        /\ \A i \in 1..Len(queue) : queue'[i] = queue[i]
        /\ Len(Lines') = Len(Lines)
        /\ \A i \in 1..Len(Lines) : Lines'[i] = Lines[i]
    BY <1>1, <1>2, <1>7, <1>9, JoinMoves
  <2>2. ASSUME NEW i \in 1..Len(queue') PROVE queue'[i].op # "noise" /\ queue'[i].machine \in Machines
    <3>1. i = Len(queue) + 1 \/ i \in 1..Len(queue)
      BY <1>3, <2>1
    <3>2. wire[1].op # "noise" /\ wire[1].machine \in Machines
      BY <1>3, <1>9 DEF FeedTyped
    <3> QED
      BY <2>1, <3>1, <3>2 DEF FeedTyped
  <2>3. FeedTyped'
    <3>1. Len(queue') <= MaxQueue
      BY <1>1, <1>3, <1>9, <2>1
    <3> QED
      BY <1>2, <1>3, <1>4, <1>5, <1>9, <2>1, <2>2, <3>1 DEF FeedTyped, Feed!AuditTypeOK
  <2>4. ASSUME NEW f \in Files \ doubt' PROVE Tidy(Lines', 1..Len(Lines'), f, Feed!On(f)', Possible(f)')
    <3>1. Tidy(Lines', 1..Len(Lines), f, Feed!On(f), Possible(f))
      <4>1. Tidy(Lines, 1..Len(Lines), f, Feed!On(f), Possible(f)) /\ Len(Lines) \in Nat
        BY <1>6, <1>7, <1>9, <2>4
      <4> QED
        BY <2>1, <4>1, SameLines, Zenon
    <3> QED
      BY <1>6, <1>9, <2>1, <2>4, <3>1
  <2> QED
    BY <2>3, <2>4 DEF AllTidy
<1>10. CASE Head(wire).op # "noise" /\ Len(queue) >= MaxQueue
            /\ queue' = Append(Tail(queue), Head(wire)) /\ doubt' = doubt \cup Feed!About(<<Head(queue)>>)
  <2>1. queue # <<>>
    <3>1. Len(queue) # 0
      BY <1>1, <1>3, <1>10
    <3> QED
      BY <3>1
  <2>2. /\ Tail(queue) \in Seq(Lined) /\ Len(Tail(queue)) = Len(queue) - 1
        /\ Head(queue) = queue[1]
        /\ \A i \in 1..(Len(queue) - 1) : Tail(queue)[i] = queue[i + 1]
    BY <1>1, <2>1, TailIs
  <2>3. PICK t \in Seq(Lined) : t = Tail(queue)
    BY <2>2
  <2>4. /\ queue' \in Seq(Lined) /\ Len(queue') = Len(t) + 1
        /\ queue'[Len(t) + 1] = wire[1]
        /\ \A i \in 1..Len(t) : queue'[i] = t[i]
        /\ Len(Lines') = Len(t \o wire)
        /\ \A i \in 1..Len(t \o wire) : Lines'[i] = (t \o wire)[i]
    BY <1>1, <1>2, <1>7, <1>10, <2>3, JoinMoves
  <2>5. ASSUME NEW i \in 1..Len(queue') PROVE queue'[i].op # "noise" /\ queue'[i].machine \in Machines
    <3>1. CASE i = Len(t) + 1
      <4>1. wire[1].op # "noise" /\ wire[1].machine \in Machines
        BY <1>3, <1>10 DEF FeedTyped
      <4> QED
        BY <2>4, <3>1, <4>1
    <3>2. CASE i # Len(t) + 1
      <4>1. i \in 1..Len(t) /\ i \in 1..(Len(queue) - 1) /\ i + 1 \in 1..Len(queue)
        BY <1>3, <2>2, <2>3, <2>4, <3>2
      <4> QED
        BY <2>2, <2>3, <2>4, <4>1 DEF FeedTyped
    <3> QED
      BY <3>1, <3>2
  <2>6. FeedTyped'
    <3>1. Len(queue') <= MaxQueue
      BY <1>1, <1>3, <2>2, <2>3, <2>4
    <3>2. doubt' \subseteq Files
      BY <1>1, <1>10 DEF Feed!About
    <3> QED
      BY <1>2, <1>3, <1>4, <1>5, <2>4, <2>5, <3>1, <3>2 DEF FeedTyped, Feed!AuditTypeOK
  <2>7. /\ Len(t \o wire) = Len(Lines) - 1 /\ 1 \in 1..Len(Lines)
        /\ \A i \in 1..(Len(Lines) - 1) : (t \o wire)[i] = Lines[i + 1]
    <3>1. /\ Len(t \o wire) = Len(t) + Len(wire)
          /\ \A i \in 1..Len(t) : (t \o wire)[i] = t[i]
          /\ \A i \in 1..Len(wire) : (t \o wire)[Len(t) + i] = wire[i]
      <4>1. Joined(t, wire)
        BY <1>1, JoinIs
      <4> QED
        BY <4>1 DEF Joined
    <3>2. Len(Lines) = Len(queue) + Len(wire)
      BY LinesAre
    <3>3. ASSUME NEW i \in 1..(Len(Lines) - 1) PROVE (t \o wire)[i] = Lines[i + 1]
      <4>1. CASE i <= Len(t)
        <5>1. i \in 1..Len(t) /\ i \in 1..(Len(queue) - 1) /\ i + 1 \in 1..Len(queue)
          BY <1>3, <2>2, <2>3, <4>1
        <5> QED
          BY <1>7, <2>2, <2>3, <3>1, <5>1
      <4>2. CASE i > Len(t)
        <5>1. PICK j \in 1..Len(wire) : i = Len(t) + j /\ i + 1 = Len(queue) + j
          <6>1. i - Len(t) \in 1..Len(wire) /\ i = Len(t) + (i - Len(t)) /\ i + 1 = Len(queue) + (i - Len(t))
            BY <1>3, <2>2, <2>3, <3>2, <4>2
          <6> QED
            BY <6>1
        <5> QED
          BY <1>7, <3>1, <5>1
      <4>3. i <= Len(t) \/ i > Len(t)
        BY <1>3, <1>7, <2>2, <2>3
      <4> QED
        BY <4>1, <4>2, <4>3
    <3>4. Len(t \o wire) = Len(Lines) - 1 /\ 1 \in 1..Len(Lines)
      BY <1>3, <2>2, <2>3, <3>1, <3>2
    <3> QED
      BY <3>3, <3>4
  <2>8. ASSUME NEW f \in Files \ doubt' PROVE Tidy(Lines', 1..Len(Lines'), f, Feed!On(f)', Possible(f)')
    <3>1. f \in Files \ doubt /\ ~Mentions(Head(queue), f)
      BY <1>10, <2>8, AboutOne
    <3>2. Lines[1] = Head(queue)
      <4>1. 1 \in 1..Len(queue)
        BY <1>1, <1>3, <1>10
      <4> QED
        BY <1>7, <2>2, <4>1
    <3>3. \A i \in 1..(Len(Lines) - 1) : Lines'[i] = IF i < 1 THEN Lines[i] ELSE Lines[i + 1]
      BY <2>4, <2>7
    <3>4. Tidy(Lines', 1..(Len(Lines) - 1), f, Feed!On(f), Possible(f))
      <4>1. Tidy(Lines, 1..Len(Lines), f, Feed!On(f), Possible(f)) /\ Len(Lines) \in Nat
        BY <1>6, <1>7, <3>1
      <4>2. ~Mentions(Lines[1], f)
        BY <3>1, <3>2
      <4> QED
        BY <2>7, <3>3, <4>1, <4>2, OneIsDropped, Zenon
    <3> QED
      BY <1>6, <2>4, <2>7, <3>1, <3>4
  <2> QED
    BY <2>6, <2>8 DEF AllTidy
<1> QED
  BY <1>8, <1>9, <1>10 DEF Feed!Ingest

LEMMA RefillTidy ==
    ASSUME FeedTyped, AllTidy, Feed!Refill
    PROVE  FeedTyped' /\ AllTidy'
<1>1. UNCHANGED <<handles, wire, queue, listening, answer, locked, doubt>> /\ tokens' \in 0..Burst
  BY FeedAssumption DEF Feed!Refill, FeedTyped, Feed!AuditTypeOK, Feed!NamesAreApart
<1>2. FeedTyped'
  BY <1>1 DEF FeedTyped, Feed!AuditTypeOK
<1>3. Lines' = Lines /\ \A f \in Files : Feed!On(f)' = Feed!On(f) /\ Possible(f)' = Possible(f)
  BY <1>1, PossibleKept DEF Lines, Feed!On
<1> QED
  BY <1>1, <1>2, <1>3 DEF AllTidy

\* a lock that nobody had is no machine's now
LEMMA OperatorTidy ==
    ASSUME FeedTyped, AllTidy, NEW f0 \in Files, Feed!OperatorTurns(f0)
    PROVE  FeedTyped' /\ AllTidy'
<1>1. /\ UNCHANGED <<handles, wire, queue, tokens, listening, answer>> /\ answer = Feed!NoAnswer
      /\ locked' = [locked EXCEPT ![f0] = IF @ = Feed!Nobody THEN Feed!Operator ELSE Feed!Nobody]
      /\ doubt' = IF locked[f0] = Feed!Nobody THEN doubt ELSE doubt \cup {f0}
  BY Zenon DEF Feed!OperatorTurns
<1>2. locked \in [Feed!Names -> Machines \cup {Feed!Nobody, Feed!Operator}] /\ Files \subseteq Feed!Names
  BY DEF FeedTyped, Feed!AuditTypeOK, Feed!Names
<1>3. FeedTyped'
  <2>1. locked' \in [Feed!Names -> Machines \cup {Feed!Nobody, Feed!Operator}]
    BY <1>1, <1>2
  <2>2. doubt' \subseteq Files
    BY <1>1 DEF FeedTyped, Feed!AuditTypeOK
  <2> QED
    BY <1>1, <2>1, <2>2 DEF FeedTyped, Feed!AuditTypeOK
<1>4. ASSUME NEW f \in Files \ doubt' PROVE Tidy(Lines', 1..Len(Lines'), f, Feed!On(f)', Possible(f)')
  <2>1. /\ Lines' = Lines /\ Feed!On(f)' = Feed!On(f)
        /\ Possible(f) = {locked[f]} /\ Possible(f)' = {locked'[f]}
    BY <1>1 DEF Lines, Feed!On, Possible, Feed!NoAnswer
  <2>2. Tidy(Lines, 1..Len(Lines), f, Feed!On(f), {locked[f]})
    BY <1>1, <1>4, <2>1 DEF AllTidy
  <2>3. CASE f # f0
    <3>1. locked'[f] = locked[f]
      BY <1>1, <1>2, <2>3
    <3> QED
      BY <2>1, <2>2, <3>1
  <2>4. CASE f = f0
    <3>1. locked[f] = Feed!Nobody /\ locked'[f] = Feed!Operator
      BY <1>1, <1>2, <1>4, <2>4
    <3>2. Right(Feed!Operator, Lines, 1..Len(Lines), f, Feed!On(f))
      BY <2>2, <3>1, NobodyIsNoMachine DEF Tidy, Right
    <3> QED
      BY <2>1, <2>2, <3>1, <3>2 DEF Tidy
  <2> QED
    BY <2>3, <2>4
<1> QED
  BY <1>3, <1>4 DEF AllTidy

LEMMA RestartTidy ==
    ASSUME FeedTyped, AllTidy, Feed!Restart
    PROVE  FeedTyped' /\ AllTidy'
<1>1. /\ wire' = <<>> /\ queue' = <<>> /\ tokens' = Burst /\ answer' = Feed!NoAnswer
      /\ doubt' = Files /\ UNCHANGED <<handles, locked>>
  BY DEF Feed!Restart
<1>2. FeedTyped'
  <2>1. Burst \in Nat /\ MaxQueue \in Nat
    BY FeedAssumption DEF Feed!NamesAreApart
  <2>2. Len(queue') = 0 /\ Len(wire') = 0 /\ 1..0 = {} /\ wire' \in Seq(Lined) /\ queue' \in Seq(Lined)
    BY <1>1
  <2> QED
    BY <1>1, <2>1, <2>2 DEF FeedTyped, Feed!AuditTypeOK
<1> QED
  BY <1>1, <1>2 DEF AllTidy

\* an answer of smbstatus that tells who has a file open, as far as it is asked for
Tells(f, open) ==
    /\ open[f] \subseteq {h.machine : h \in Feed!On(f)}
    /\ Feed!Written(f) => open[f] # {}

LEMMA AnsweredTidy ==
    ASSUME FeedTyped, AllTidy, answer = Feed!NoAnswer, NEW open \in Answers, answer' = Feed!Read(open),
           UNCHANGED <<handles, wire, queue, locked>>,
           NEW f \in Files, f \notin doubt \/ f \in Feed!Settled(open), Tells(f, open)
    PROVE  Tidy(Lines', 1..Len(Lines'), f, Feed!On(f)', Possible(f)')
<1>1. /\ Lines' = Lines /\ Feed!On(f)' = Feed!On(f)
      /\ Possible(f) = {locked[f]}
      /\ Possible(f)' = IF locked[f] = Feed!Nobody /\ open[f] # {} THEN open[f]
                        ELSE IF locked[f] \in Machines /\ open[f] = {} THEN {Feed!Nobody}
                        ELSE {locked[f]}
  BY DEF Lines, Feed!On, Possible, Feed!NoAnswer, Feed!Read
<1>2. WrittenOn(Feed!On(f)) <=> Feed!Written(f)
  BY DEF WrittenOn, Feed!Written
<1>3. \A l \in open[f] : HasIt(Feed!On(f), l)
  BY DEF Tells, HasIt
<1>4. WrittenOn(Feed!On(f)) => open[f] # {}
  BY <1>2 DEF Tells
<1>5. open[f] \subseteq Machines
  BY DEF Answers, Feed!Names
<1>6. CASE f \notin doubt
  <2>1. Tidy(Lines, 1..Len(Lines), f, Feed!On(f), {locked[f]})
    BY <1>1, <1>6 DEF AllTidy
  <2>2. Right(locked[f], Lines, 1..Len(Lines), f, Feed!On(f))
    BY <2>1 DEF Tidy
  <2>3. ASSUME NEW l \in Possible(f)' PROVE Right(l, Lines, 1..Len(Lines), f, Feed!On(f))
    <3>1. CASE locked[f] = Feed!Nobody /\ open[f] # {}
      BY <1>1, <1>3, <2>2, <2>3, <3>1 DEF Right
    <3>2. CASE locked[f] \in Machines /\ open[f] = {}
      BY <1>1, <1>4, <2>3, <3>2, NobodyIsNoMachine DEF Right
    <3>3. CASE l = locked[f]
      BY <2>2, <3>3
    <3> QED
      BY <1>1, <2>3, <3>1, <3>2, <3>3
  <2> QED
    BY <1>1, <2>1, <2>3 DEF Tidy
<1>7. CASE f \in Feed!Settled(open)
  <2>1. /\ f \notin Feed!About(wire) /\ f \notin Feed!About(queue)
        /\ locked[f] \in Machines => locked[f] \in open[f] \/ open[f] = {}
    BY <1>7 DEF Feed!Settled, Feed!ByMachine
  <2>2. Silent(Lines, 1..Len(Lines), f)
    <3> SUFFICES ASSUME NEW i \in 1..Len(Lines) PROVE ~Mentions(Lines[i], f)
      BY DEF Silent
    <3>1. /\ Len(Lines) = Len(queue) + Len(wire) /\ Len(queue) \in Nat /\ Len(wire) \in Nat
          /\ \A j \in 1..Len(queue) : Lines[j] = queue[j]
          /\ \A j \in 1..Len(wire) : Lines[Len(queue) + j] = wire[j]
      BY LinesAre
    <3>2. /\ \A j \in 1..Len(queue) : ~Mentions(queue[j], f)
          /\ \A j \in 1..Len(wire) : ~Mentions(wire[j], f)
      <4>1. DOMAIN queue = 1..Len(queue) /\ DOMAIN wire = 1..Len(wire)
        BY LenProperties DEF FeedTyped
      <4> QED
        BY <2>1, <4>1, AboutMany
    <3>3. CASE i \in 1..Len(queue)
      BY <3>1, <3>2, <3>3
    <3>4. CASE i \notin 1..Len(queue)
      <4>1. i - Len(queue) \in 1..Len(wire) /\ i = Len(queue) + (i - Len(queue))
        BY <3>1, <3>4
      <4> QED
        BY <3>1, <3>2, <4>1
    <3> QED
      BY <3>3, <3>4
  <2>3. Plain(Lines, 1..Len(Lines), f) /\ OpensEnd(Lines, 1..Len(Lines), f, Feed!On(f))
    BY <2>2 DEF Silent, Plain, OpensEnd, Mentions
  <2>4. ASSUME NEW l \in Possible(f)' PROVE Right(l, Lines, 1..Len(Lines), f, Feed!On(f))
    <3>1. CASE locked[f] = Feed!Nobody /\ open[f] # {}
      BY <1>1, <1>3, <1>5, <2>2, <2>4, <3>1, NobodyIsNoMachine DEF Right
    <3>2. CASE locked[f] \in Machines /\ open[f] = {}
      BY <1>1, <1>4, <2>4, <3>2, NobodyIsNoMachine DEF Right
    <3>3. CASE ~(locked[f] = Feed!Nobody /\ open[f] # {}) /\ ~(locked[f] \in Machines /\ open[f] = {})
      <4>1. l = locked[f]
        BY <1>1, <2>4, <3>3
      <4>2. l \in Machines => HasIt(Feed!On(f), l)
        BY <1>3, <2>1, <3>3, <4>1
      <4>3. WrittenOn(Feed!On(f)) => l # Feed!Nobody
        BY <1>4, <3>3, <4>1
      <4> QED
        BY <2>2, <4>2, <4>3 DEF Right
    <3> QED
      BY <3>1, <3>2, <3>3
  <2> QED
    BY <1>1, <2>3, <2>4 DEF Tidy
<1> QED
  BY <1>6, <1>7

LEMMA AskTidy ==
    ASSUME FeedTyped, AllTidy, Feed!Ask
    PROVE  FeedTyped' /\ AllTidy'
<1>1. answer = Feed!NoAnswer /\ UNCHANGED <<handles, wire, queue, tokens, listening, locked>>
  BY DEF Feed!Ask
<1>2. handles \subseteq Feed!Handles /\ doubt \subseteq Files /\ Spaced \subseteq Files
      /\ Word \notin Files /\ Files \subseteq Feed!Names
  BY FeedAssumption DEF FeedTyped, Feed!AuditTypeOK, Feed!NamesAreApart, Feed!Names
<1>3. Feed!InJson \in Answers /\ Feed!InText \in Answers
  BY <1>2 DEF Feed!InJson, Feed!InText, Answers, Feed!Handles
<1>4. \/ answer' = Feed!Read(Feed!InJson) /\ doubt' = doubt \ Feed!Settled(Feed!InJson)
      \/ answer' = Feed!Read(Feed!InText) /\ doubt' = (doubt \ Feed!Settled(Feed!InText)) \cup Spaced
      \/ answer' = Feed!Failed /\ doubt' = doubt
  BY Zenon DEF Feed!Ask
<1>5. FeedTyped'
  <2>1. answer' \in {Feed!NoAnswer, Feed!Failed} \cup {Feed!Read(o) : o \in Answers}
    BY <1>3, <1>4
  <2>2. doubt' \subseteq Files
    BY <1>2, <1>4
  <2> QED
    BY <1>1, <2>1, <2>2 DEF FeedTyped, Feed!AuditTypeOK
<1>6. ASSUME NEW f \in Files \ doubt' PROVE Tidy(Lines', 1..Len(Lines'), f, Feed!On(f)', Possible(f)')
  <2>1. CASE answer' = Feed!Read(Feed!InJson) /\ doubt' = doubt \ Feed!Settled(Feed!InJson)
    <3>1. Feed!InJson[f] = {h.machine : h \in Feed!On(f)}
      BY <1>2 DEF Feed!InJson, Feed!On
    <3>2. Tells(f, Feed!InJson)
      BY <3>1 DEF Tells, Feed!Written
    <3> QED
      BY <1>1, <1>3, <1>6, <2>1, <3>2, AnsweredTidy
  <2>2. CASE answer' = Feed!Read(Feed!InText) /\ doubt' = (doubt \ Feed!Settled(Feed!InText)) \cup Spaced
    <3>1. f \notin Spaced /\ f # Word
      BY <1>2, <1>6, <2>2
    <3>2. {g \in handles : Feed!FirstWord(g.file) = f /\ g.mode = "w"}
            = {h \in Feed!On(f) : h.mode = "w"}
      BY <3>1 DEF Feed!FirstWord, Feed!On
    <3>3. Feed!InText[f] = {h.machine : h \in {h \in Feed!On(f) : h.mode = "w"}}
      BY <1>2, <3>2 DEF Feed!InText
    <3>4. Tells(f, Feed!InText)
      BY <3>3 DEF Tells, Feed!Written
    <3> QED
      BY <1>1, <1>3, <1>6, <2>2, <3>4, AnsweredTidy
  <2>3. CASE answer' = Feed!Failed /\ doubt' = doubt
    <3>1. Lines' = Lines /\ Feed!On(f)' = Feed!On(f) /\ Possible(f)' = Possible(f)
      BY <1>1, <2>3 DEF Lines, Feed!On, Possible, Feed!NoAnswer, Feed!Failed
    <3> QED
      BY <1>6, <2>3, <3>1 DEF AllTidy
  <2> QED
    BY <1>4, <2>1, <2>2, <2>3
<1> QED
  BY <1>5, <1>6 DEF AllTidy

LEMMA ReconcileTidy ==
    ASSUME FeedTyped, AllTidy, Feed!Reconcile
    PROVE  FeedTyped' /\ AllTidy'
<1>1. /\ answer # Feed!NoAnswer /\ answer' = Feed!NoAnswer
      /\ UNCHANGED <<handles, wire, queue, tokens, listening, doubt, spentOn>>
  BY DEF Feed!Reconcile
<1>2. /\ locked \in [Feed!Names -> Machines \cup {Feed!Nobody, Feed!Operator}]
      /\ Files \subseteq Feed!Names
      /\ answer \in {Feed!NoAnswer, Feed!Failed} \cup {Feed!Read(o) : o \in Answers}
  BY DEF FeedTyped, Feed!AuditTypeOK, Feed!Names
<1>3. /\ locked' \in [Feed!Names -> Machines \cup {Feed!Nobody, Feed!Operator}]
      /\ \A f \in Files : locked'[f] \in Possible(f)
  <2>1. CASE answer = Feed!Failed
    <3>1. locked' = locked
      BY <2>1 DEF Feed!Reconcile
    <3>2. \A f \in Files : Possible(f) = {locked[f]}
      BY <2>1 DEF Possible, Feed!Failed
    <3> QED
      BY <1>2, <3>1, <3>2
  <2>2. CASE answer # Feed!Failed
    <3>1. PICK who \in [Feed!Names -> Machines] :
             /\ \A n \in Feed!Names : answer.open[n] # {} => who[n] \in answer.open[n]
             /\ locked' = Feed!SettledBy(who)
      BY <2>2 DEF Feed!Reconcile
    <3>2. PICK o \in Answers : answer = Feed!Read(o)
      BY <1>1, <1>2, <2>2
    <3>3. answer.state = "read"
      BY <3>2 DEF Feed!Read
    <3>4. \A n \in Feed!Names :
             locked'[n] = IF locked[n] = Feed!Nobody /\ answer.open[n] # {} THEN who[n]
                          ELSE IF locked[n] \in Machines /\ answer.open[n] = {} THEN Feed!Nobody
                          ELSE locked[n]
      BY <3>1 DEF Feed!SettledBy, Feed!ByMachine
    <3>5. locked' \in [Feed!Names -> Machines \cup {Feed!Nobody, Feed!Operator}]
      BY <1>2, <3>1 DEF Feed!SettledBy
    <3>6. ASSUME NEW f \in Files PROVE locked'[f] \in Possible(f)
      <4>1. f \in Feed!Names
        BY <1>2
      <4> QED
        BY <3>1, <3>3, <3>4, <4>1 DEF Possible
    <3> QED
      BY <3>5, <3>6
  <2> QED
    BY <2>1, <2>2
<1>4. FeedTyped'
  BY <1>1, <1>3 DEF FeedTyped, Feed!AuditTypeOK
<1>5. ASSUME NEW f \in Files \ doubt' PROVE Tidy(Lines', 1..Len(Lines'), f, Feed!On(f)', Possible(f)')
  <2>1. Tidy(Lines, 1..Len(Lines), f, Feed!On(f), Possible(f))
    BY <1>1, <1>5 DEF AllTidy
  <2>2. Lines' = Lines /\ Feed!On(f)' = Feed!On(f) /\ Possible(f)' = {locked'[f]}
    BY <1>1 DEF Lines, Feed!On, Possible, Feed!NoAnswer
  <2> QED
    BY <1>3, <2>1, <2>2 DEF Tidy
<1> QED
  BY <1>4, <1>5 DEF AllTidy

LEMMA HandledIs ==
    ASSUME NEW locks \in [Feed!Names -> Machines \cup {Feed!Nobody, Feed!Operator}],
           NEW e \in Lined, e.machine \in Machines
    PROVE  /\ Feed!Handled(locks, e) \in [Feed!Names -> Machines \cup {Feed!Nobody, Feed!Operator}]
           /\ \A f \in Files :
                /\ ~Mentions(e, f) => Feed!Handled(locks, e)[f] = locks[f]
                /\ (e.path = f /\ e.new = f) => Feed!Handled(locks, e)[f] = TakenOver(locks[f], e)
<1>1. e.path \in Feed!Names /\ e.new \in Feed!Names /\ Files \subseteq Feed!Names
  BY DEF Lined, Feed!Names
<1>2. e.machine # Feed!Nobody
  BY NobodyIsNoMachine
<1>3. CASE e.op = "open"
  <2>1. Feed!Handled(locks, e) = IF e.mode = "w" THEN Feed!Take(locks, e.path, e.machine) ELSE locks
    BY <1>3 DEF Feed!Handled
  <2>2. Feed!Take(locks, e.path, e.machine)
          = IF locks[e.path] = Feed!Nobody THEN [locks EXCEPT ![e.path] = e.machine] ELSE locks
    BY DEF Feed!Take
  <2>3. Feed!Handled(locks, e) \in [Feed!Names -> Machines \cup {Feed!Nobody, Feed!Operator}]
    BY <1>1, <2>1, <2>2
  <2>4. ASSUME NEW f \in Files PROVE
           /\ ~Mentions(e, f) => Feed!Handled(locks, e)[f] = locks[f]
           /\ (e.path = f /\ e.new = f) => Feed!Handled(locks, e)[f] = TakenOver(locks[f], e)
    BY <1>1, <1>3, <2>1, <2>2 DEF Mentions, TakenOver
  <2> QED
    BY <2>3, <2>4
<1>4. CASE e.op # "open"
  <2>1. PICK a : a = Feed!Give(locks, e.path, e.machine)
    OBVIOUS
  <2>2. a = IF locks[e.path] = e.machine THEN [locks EXCEPT ![e.path] = Feed!Nobody] ELSE locks
    BY <2>1 DEF Feed!Give
  <2>3. Feed!Handled(locks, e)
          = IF a[e.new] = e.machine THEN [a EXCEPT ![e.new] = Feed!Nobody] ELSE a
    BY <1>4, <2>1 DEF Feed!Handled, Feed!Give
  <2>4. a \in [Feed!Names -> Machines \cup {Feed!Nobody, Feed!Operator}]
    BY <1>1, <2>2
  <2>5. Feed!Handled(locks, e) \in [Feed!Names -> Machines \cup {Feed!Nobody, Feed!Operator}]
    BY <1>1, <2>3, <2>4
  <2>6. ASSUME NEW f \in Files PROVE
           /\ ~Mentions(e, f) => Feed!Handled(locks, e)[f] = locks[f]
           /\ (e.path = f /\ e.new = f) => Feed!Handled(locks, e)[f] = TakenOver(locks[f], e)
    <3>1. a[f] = IF e.path = f /\ locks[f] = e.machine THEN Feed!Nobody ELSE locks[f]
      BY <1>1, <2>2
    <3>2. Feed!Handled(locks, e)[f] = IF e.new = f /\ a[f] = e.machine THEN Feed!Nobody ELSE a[f]
      BY <1>1, <2>3, <2>4
    <3> QED
      BY <1>2, <1>4, <3>1, <3>2 DEF Mentions, TakenOver
  <2> QED
    BY <2>5, <2>6
<1> QED
  BY <1>3, <1>4

LEMMA DrainTidy ==
    ASSUME FeedTyped, AllTidy, Feed!Drain
    PROVE  FeedTyped' /\ AllTidy'
<1>1. /\ answer = Feed!NoAnswer /\ locked' = Feed!Drained /\ queue' = <<>>
      /\ UNCHANGED <<handles, wire, tokens, listening, answer, doubt, spentOn>>
  BY DEF Feed!Drain
<1>2. PICK n \in Nat : n = Len(queue)
  BY LinesAre
<1>3. PICK w \in Nat : w = Len(wire)
  BY LinesAre
<1>4. PICK g : /\ g[0] = locked /\ locked' = g[n]
               /\ \A i \in 1..n : g[i] = Feed!Handled(g[i - 1], queue[i])
  BY <1>1, <1>2, DrainedIs DEF FeedTyped
<1>5. PICK L : L = Lines
  OBVIOUS
<1>6. /\ Len(L) = n + w
      /\ \A i \in 1..n : L[i] = queue[i] /\ queue[i] \in Lined /\ queue[i].machine \in Machines
      /\ \A i \in 1..w : L[n + i] = wire[i]
  BY <1>2, <1>3, <1>5, LinesAre DEF FeedTyped
<1>7. ASSUME NEW f \in Files \ doubt
      PROVE  Feed!On(f)' = Feed!On(f) /\ Tidy(L, 1..(n + w), f, Feed!On(f), {locked[f]})
  <2>1. Possible(f) = {locked[f]}
    BY <1>1 DEF Possible, Feed!NoAnswer
  <2> QED
    BY <1>1, <1>5, <1>6, <1>7, <2>1 DEF AllTidy, Feed!On
<1> DEFINE Done(k) ==
             /\ g[k] \in [Feed!Names -> Machines \cup {Feed!Nobody, Feed!Operator}]
             /\ \A f \in Files \ doubt : Tidy(L, (k + 1)..(n + w), f, Feed!On(f), {g[k][f]})
<1>8. Done(0)
  BY <1>4, <1>7 DEF FeedTyped, Feed!AuditTypeOK
<1>9. ASSUME NEW k \in 1..n, Done(k - 1) PROVE Done(k)
  <2>1. PICK e \in Lined : e = L[k] /\ e = queue[k] /\ e.machine \in Machines
    BY <1>6
  <2>2. g[k] = Feed!Handled(g[k - 1], e)
    BY <1>4, <2>1
  <2>3. PICK old \in [Feed!Names -> Machines \cup {Feed!Nobody, Feed!Operator}] : old = g[k - 1]
    BY <1>9
  <2>4. /\ g[k] \in [Feed!Names -> Machines \cup {Feed!Nobody, Feed!Operator}]
        /\ \A f \in Files :
             /\ ~Mentions(e, f) => g[k][f] = old[f]
             /\ (e.path = f /\ e.new = f) => g[k][f] = TakenOver(old[f], e)
    BY <2>1, <2>2, <2>3, HandledIs
  <2>5. PICK W : W = k..(n + w)
    OBVIOUS
  <2>6. /\ W \subseteq Nat /\ k \in W /\ \A i \in W : k <= i
        /\ W \ {k} = (k + 1)..(n + w) /\ (k - 1) + 1 = k
    BY <2>5
  <2>7. ASSUME NEW f \in Files \ doubt PROVE Tidy(L, W \ {k}, f, Feed!On(f), {g[k][f]})
    <3>1. Tidy(L, W, f, Feed!On(f), {old[f]})
      BY <1>9, <2>3, <2>5, <2>6
    <3>2. Mentions(L[k], f) => L[k].path = f /\ L[k].new = f
      BY <2>6, <3>1 DEF Tidy, Plain
    <3>3. g[k][f] = IF Mentions(L[k], f) THEN TakenOver(old[f], L[k]) ELSE old[f]
      BY <2>1, <2>4, <3>2
    <3>4. L[k].machine # Feed!Nobody
      BY <2>1, NobodyIsNoMachine
    <3> QED
      BY <2>6, <3>1, <3>3, <3>4, OneIsHandled
  <2> QED
    BY <2>4, <2>6, <2>7
<1> HIDE DEF Done
<1>10. \A k \in 0..n : Done(k)
  <2> DEFINE T == {k \in 0..n : ~Done(k)}
  <2> SUFFICES ASSUME T # {} PROVE FALSE
    OBVIOUS
  <2>1. PICK x \in T : \A y \in T : x <= y
    <3>1. T \subseteq Nat
      OBVIOUS
    <3> HIDE DEF T
    <3> QED
      BY <3>1, LeastNumber
  <2>2. x # 0
    BY <1>8
  <2>3. x \in 1..n /\ x - 1 \in 0..n /\ x - 1 \notin T
    BY <2>1, <2>2
  <2> QED
    BY <1>9, <2>3
<1>11. Done(n)
  BY <1>10
<1>12. FeedTyped'
  <2>1. locked' \in [Feed!Names -> Machines \cup {Feed!Nobody, Feed!Operator}]
    BY <1>4, <1>11 DEF Done
  <2>2. Len(queue') = 0 /\ 1..0 = {} /\ queue' \in Seq(Lined) /\ MaxQueue \in Nat
    BY <1>1, FeedAssumption DEF Feed!NamesAreApart
  <2> QED
    BY <1>1, <2>1, <2>2 DEF FeedTyped, Feed!AuditTypeOK
<1>13. Lines' = wire
  <2>1. Lines' = <<>> \o wire
    BY <1>1 DEF Lines
  <2> QED
    BY <2>1 DEF FeedTyped
<1>14. ASSUME NEW f \in Files \ doubt' PROVE Tidy(Lines', 1..Len(Lines'), f, Feed!On(f)', Possible(f)')
  <2>1. f \in Files \ doubt /\ Possible(f)' = {locked'[f]}
    BY <1>1, <1>14 DEF Possible, Feed!NoAnswer
  <2>2. Tidy(L, (n + 1)..(n + w), f, Feed!On(f), {locked'[f]})
    BY <1>4, <1>11, <2>1 DEF Done
  <2>3. PICK M : M = wire
    OBVIOUS
  <2>4. \A i \in 1..w : M[i] = L[n + i]
    BY <1>6, <2>3
  <2>5. Tidy(M, 1..w, f, Feed!On(f), {locked'[f]})
    BY <2>2, <2>4, TheRest
  <2> QED
    BY <1>3, <1>7, <1>13, <2>1, <2>3, <2>5
<1> QED
  BY <1>12, <1>14 DEF AllTidy

LEMMA FeedMoves == FeedTyped /\ AllTidy /\ [Feed!AuditNext]_(Feed!auditVars) => FeedTyped' /\ AllTidy'
<1> SUFFICES ASSUME FeedTyped, AllTidy, [Feed!AuditNext]_(Feed!auditVars) PROVE FeedTyped' /\ AllTidy'
  OBVIOUS
<1>1. ASSUME NEW m \in Machines, NEW f \in Files, NEW mode \in Feed!Modes, Feed!Opens(m, f, mode)
      PROVE  FeedTyped' /\ AllTidy'
  BY <1>1, OpensTidy
<1>2. ASSUME NEW h \in handles, Feed!Closes(h) PROVE FeedTyped' /\ AllTidy'
  BY <1>2, ClosesTidy
<1>3. ASSUME NEW h \in handles, NEW g \in Files \ {h.file}, Feed!Renames(h, g) PROVE FeedTyped' /\ AllTidy'
  BY <1>3, RenamesTidy
<1>4. ASSUME NEW i \in DOMAIN wire, Feed!Lost(i) PROVE FeedTyped' /\ AllTidy'
  BY <1>4, LostTidy
<1>5. CASE Feed!OtherLine
  BY <1>5, OtherTidy
<1>6. CASE Feed!Ingest
  BY <1>6, IngestTidy
<1>7. CASE Feed!Refill
  BY <1>7, RefillTidy
<1>8. CASE Feed!Drain
  BY <1>8, DrainTidy
<1>9. CASE Feed!Ask
  BY <1>9, AskTidy
<1>10. CASE Feed!Reconcile
  BY <1>10, ReconcileTidy
<1>11. ASSUME NEW f \in Files, Feed!OperatorTurns(f) PROVE FeedTyped' /\ AllTidy'
  BY <1>11, OperatorTidy
<1>12. CASE Feed!Restart
  BY <1>12, RestartTidy
<1>13. CASE UNCHANGED Feed!auditVars
  <2>1. UNCHANGED <<handles, wire, queue, tokens, answer, locked, doubt>>
    BY <1>13 DEF Feed!auditVars
  <2>2. Lines' = Lines /\ \A f \in Files : Feed!On(f)' = Feed!On(f) /\ Possible(f)' = Possible(f)
    BY <2>1, PossibleKept DEF Lines, Feed!On
  <2>3. FeedTyped'
    BY <2>1 DEF FeedTyped, Feed!AuditTypeOK
  <2> QED
    BY <2>1, <2>2, <2>3 DEF AllTidy
<1> QED
  BY <1>1, <1>2, <1>3, <1>4, <1>5, <1>6, <1>7, <1>8, <1>9, <1>10, <1>11, <1>12, <1>13
  DEF Feed!AuditNext

LEMMA TidyIsRight == FeedTyped /\ AllTidy => Feed!FeedIsRight
<1> SUFFICES ASSUME FeedTyped, AllTidy, wire = <<>>, queue = <<>>, answer = Feed!NoAnswer,
                    NEW f \in Files \ doubt
             PROVE  /\ Feed!Written(f) => locked[f] # Feed!Nobody
                    /\ Feed!ByMachine(f) => Feed!On(f) # {}
  BY DEF Feed!FeedIsRight
<1>1. Len(Lines) = 0 /\ 1..Len(Lines) = {}
  BY DEF Lines
<1>2. Possible(f) = {locked[f]}
  BY DEF Possible, Feed!NoAnswer
<1>3. Right(locked[f], Lines, {}, f, Feed!On(f))
  BY <1>1, <1>2 DEF AllTidy, Tidy
<1> QED
  BY <1>3 DEF Right, Closing, HasIt, WrittenOn, EndsWriting, Feed!Written, Feed!ByMachine

-----------------------------------------------------------------------------
(* What the parts hold where their invariants above do not say it.         *)

\* a probe is on the clock or under way for each start of the monitor, and no more
Busy == {t \in Ticks : tick[t] # "none"}
MountTyped ==
    /\ Mount!TypeOK /\ serverThere \in BOOLEAN /\ starts \in 0..MaxStarts
    /\ timers + Cardinality(Busy) <= starts

LEMMA BusyIsFinite ==
    ASSUME NEW T, T \subseteq Ticks
    PROVE  /\ IsFiniteSet(T) /\ Cardinality(T) \in Nat
           /\ \A t \in Ticks \ T : Cardinality(T \cup {t}) = Cardinality(T) + 1
           /\ \A t \in T : Cardinality(T \ {t}) = Cardinality(T) - 1
<1>1. IsFiniteSet(T)
  BY BoundsAssumption, FS_Subset
<1> QED
  BY <1>1, FS_CardinalityType, FS_AddElement, FS_RemoveElement

LEMMA MountTypedNext == MountTyped /\ [Mount!Next]_(Mount!vars) => MountTyped'
<1> SUFFICES ASSUME MountTyped, [Mount!Next]_(Mount!vars) PROVE MountTyped'
  OBVIOUS
<1>0. /\ state \in Mount!MountStates
      /\ failures \in 0..OfflineAfter /\ backoff \in 0..LastBackoff
      /\ stopped \in BOOLEAN /\ reconnect \in BOOLEAN /\ kernelMounted \in BOOLEAN
      /\ timers \in 0..MaxStarts
      /\ tick \in [Ticks -> {"none", "ok", "fails"}]
      /\ attempt \in [Attempts -> {"none", "unmounting", "mounting"}]
      /\ serverThere \in BOOLEAN /\ starts \in 0..MaxStarts
      /\ timers + Cardinality(Busy) <= starts /\ Cardinality(Busy) \in Nat
      /\ OfflineAfter \in Nat /\ LastBackoff \in Nat /\ MaxStarts \in Nat
  BY BusyIsFinite, BoundsAssumption DEF MountTyped, Mount!TypeOK, Busy
<1>1. SUFFICES
      /\ state' \in Mount!MountStates
      /\ failures' \in 0..OfflineAfter /\ backoff' \in 0..LastBackoff
      /\ stopped' \in BOOLEAN /\ reconnect' \in BOOLEAN /\ kernelMounted' \in BOOLEAN
      /\ timers' \in Nat
      /\ tick' \in [Ticks -> {"none", "ok", "fails"}]
      /\ attempt' \in [Attempts -> {"none", "unmounting", "mounting"}]
      /\ serverThere' \in BOOLEAN /\ starts' \in 0..MaxStarts
      /\ timers' + Cardinality(Busy') <= starts'
  <2>1. Cardinality(Busy') \in Nat
    BY BusyIsFinite DEF Busy
  <2> QED
    BY <1>0, <2>1 DEF MountTyped, Mount!TypeOK
<1> DEFINE Health ==
      /\ state' \in Mount!MountStates
      /\ failures' \in 0..OfflineAfter /\ backoff' \in 0..LastBackoff
      /\ reconnect' \in BOOLEAN
<1>2. ASSUME Mount!RecordFailure PROVE Health
  <2>1. Mount!ScheduleReconnect => reconnect' \in BOOLEAN
    BY DEF Mount!ScheduleReconnect
  <2>2. reconnect' \in BOOLEAN
    BY <1>0, <1>2, <2>1 DEF Mount!RecordFailure
  <2>3. failures' \in 0..OfflineAfter /\ backoff' \in 0..LastBackoff
    BY <1>0, <1>2 DEF Mount!RecordFailure, Mount!health
  <2>4. state' \in Mount!MountStates
    BY <1>0, <1>2 DEF Mount!RecordFailure, Mount!health, Mount!MountStates
  <2> QED
    BY <2>2, <2>3, <2>4
<1>3. Mount!RecordSuccess /\ UNCHANGED reconnect => Health
  BY <1>0 DEF Mount!RecordSuccess, Mount!MountStates
<1>4. UNCHANGED tick => Busy' = Busy
  BY DEF Busy
<1>5. CASE Mount!Mount
  BY <1>0, <1>4, <1>5 DEF Mount!Mount, Mount!DoMount, Mount!MountGoesThrough, Mount!health, Mount!loop,
     Mount!MountStates
<1>6. CASE Mount!Unmount \/ Mount!ServerLost \/ Mount!ServerBack \/ UNCHANGED Mount!vars
  <2>1. kernelMounted' \in BOOLEAN /\ serverThere' \in BOOLEAN
    <3>1. kernelMounted' \in {kernelMounted, FALSE} /\ serverThere' \in {serverThere, TRUE, FALSE}
      BY <1>6 DEF Mount!Unmount, Mount!ServerLost, Mount!ServerBack, Mount!vars
    <3> QED
      BY <1>0, <3>1
  <2>2. UNCHANGED <<failures, backoff, stopped, reconnect, timers, tick, attempt, starts>>
        /\ state' \in {state, "unmounted"}
    BY <1>6 DEF Mount!Unmount, Mount!ServerLost, Mount!ServerBack, Mount!vars, Mount!health, Mount!loop
  <2> QED
    BY <1>0, <1>4, <2>1, <2>2 DEF Mount!MountStates
<1>7. CASE Mount!GuardFails
  BY <1>0, <1>2, <1>4, <1>7 DEF Mount!GuardFails, Mount!loop, Mount!world
<1>8. CASE Mount!Start
  <2>1. stopped' \in BOOLEAN
    BY <1>8 DEF Mount!Start
  <2>2. UNCHANGED <<state, failures, backoff, reconnect, tick, attempt, kernelMounted, serverThere>>
        /\ timers' = timers + 1 /\ starts' = starts + 1 /\ starts < MaxStarts
    BY <1>8 DEF Mount!Start, Mount!health
  <2> QED
    BY <1>0, <1>4, <2>1, <2>2
<1>9. CASE Mount!Stop
  <2>1. stopped' \in BOOLEAN /\ reconnect' \in BOOLEAN
    BY <1>9 DEF Mount!Stop
  <2>2. UNCHANGED <<state, failures, backoff, tick, attempt, kernelMounted, serverThere, starts>>
        /\ timers' = IF timers > 0 THEN timers - 1 ELSE 0
    BY <1>9 DEF Mount!Stop, Mount!health, Mount!world
  <2> QED
    BY <1>0, <1>4, <2>1, <2>2
<1>10. CASE Mount!ProbeTimer
  <2>1. UNCHANGED <<state, failures, backoff, stopped, reconnect, attempt, kernelMounted, serverThere, starts>>
        /\ timers > 0
    BY <1>10 DEF Mount!ProbeTimer, Mount!health, Mount!world
  <2>2. CASE Mount!TickIdle
    BY <1>0, <1>4, <1>10, <2>1, <2>2 DEF Mount!ProbeTimer, Mount!ScheduleProbe
  <2>3. CASE ~Mount!TickIdle
    <3>1. PICK t \in Ticks : tick[t] = "none" /\ tick' = [tick EXCEPT ![t] = Mount!ProbeAnswer]
                             /\ timers' = timers - 1
      BY <1>10, <2>3 DEF Mount!ProbeTimer
    <3>2. Mount!ProbeAnswer \in {"ok", "fails"}
      BY DEF Mount!ProbeAnswer
    <3>3. Busy' = Busy \cup {t} /\ t \notin Busy
      BY <1>0, <3>1, <3>2 DEF Busy
    <3>4. Cardinality(Busy') = Cardinality(Busy) + 1
      BY <3>3, BusyIsFinite DEF Busy
    <3>5. tick' \in [Ticks -> {"none", "ok", "fails"}]
      BY <1>0, <3>1, <3>2
    <3> QED
      BY <1>0, <2>1, <3>1, <3>4, <3>5
  <2> QED
    BY <2>2, <2>3
<1>11. ASSUME NEW t \in Ticks, Mount!ProbeAnswered(t)
       PROVE  /\ Health
              /\ stopped' \in BOOLEAN /\ kernelMounted' \in BOOLEAN
              /\ timers' \in Nat
              /\ tick' \in [Ticks -> {"none", "ok", "fails"}]
              /\ attempt' \in [Attempts -> {"none", "unmounting", "mounting"}]
              /\ serverThere' \in BOOLEAN /\ starts' \in 0..MaxStarts
              /\ timers' + Cardinality(Busy') <= starts'
  <2>1. /\ tick[t] # "none" /\ tick' = [tick EXCEPT ![t] = "none"]
        /\ timers' = IF stopped THEN timers ELSE timers + 1
        /\ UNCHANGED <<stopped, attempt, kernelMounted, serverThere, starts>>
        /\ (Mount!RecordSuccess /\ UNCHANGED reconnect) \/ Mount!RecordFailure
    BY <1>11 DEF Mount!ProbeAnswered, Mount!ScheduleProbe, Mount!world
  <2>2. Busy' = Busy \ {t} /\ t \in Busy
    BY <1>0, <2>1 DEF Busy
  <2>3. Cardinality(Busy') = Cardinality(Busy) - 1
    BY <2>2, BusyIsFinite DEF Busy
  <2>4. Health
    BY <1>2, <1>3, <2>1
  <2>5. tick' \in [Ticks -> {"none", "ok", "fails"}]
    BY <1>0, <2>1
  <2> HIDE DEF Health
  <2> QED
    BY <1>0, <2>1, <2>3, <2>4, <2>5
<1>12. CASE Mount!ReconnectTimer
  <2>1. reconnect' \in BOOLEAN
    BY <1>12 DEF Mount!ReconnectTimer
  <2>2. /\ UNCHANGED <<failures, stopped, timers, tick, kernelMounted, serverThere, starts>>
        /\ state' = "remounting"
        /\ backoff' = IF backoff < LastBackoff THEN backoff + 1 ELSE backoff
        /\ \E a \in Attempts : attempt' = [attempt EXCEPT ![a] = "unmounting"]
    BY <1>12 DEF Mount!ReconnectTimer, Mount!loop, Mount!world
  <2> QED
    BY <1>0, <1>4, <2>1, <2>2 DEF Mount!MountStates
<1>13. ASSUME NEW a \in Attempts, Mount!RemountUnmounts(a) \/ Mount!RemountMounts(a)
       PROVE  /\ Health
              /\ stopped' \in BOOLEAN /\ kernelMounted' \in BOOLEAN
              /\ timers' \in Nat
              /\ tick' \in [Ticks -> {"none", "ok", "fails"}]
              /\ attempt' \in [Attempts -> {"none", "unmounting", "mounting"}]
              /\ serverThere' \in BOOLEAN /\ starts' \in 0..MaxStarts
              /\ timers' + Cardinality(Busy') <= starts'
  <2>1. /\ UNCHANGED <<stopped, timers, tick, serverThere, starts>>
        /\ attempt' \in [Attempts -> {"none", "unmounting", "mounting"}]
    BY <1>0, <1>13 DEF Mount!RemountUnmounts, Mount!RemountMounts, Mount!loop
  <2>2. kernelMounted' \in BOOLEAN
    <3>1. CASE Mount!RemountUnmounts(a)
      <4>1. kernelMounted' \in {kernelMounted, FALSE}
        BY <3>1 DEF Mount!RemountUnmounts
      <4> QED
        BY <1>0, <4>1
    <3>2. CASE Mount!RemountMounts(a)
      <4>1. kernelMounted' = (kernelMounted \/ serverThere)
        BY <3>2 DEF Mount!RemountMounts, Mount!DoMount
      <4> QED
        BY <4>1
    <3> QED
      BY <1>13, <3>1, <3>2
  <2>3. reconnect' \in BOOLEAN
    <3>1. CASE Mount!RemountUnmounts(a)
      BY <1>0, <3>1 DEF Mount!RemountUnmounts
    <3>2. CASE Mount!RemountMounts(a)
      <4>1. reconnect' = reconnect \/ reconnect' = (reconnect \/ ~stopped)
        BY <3>2 DEF Mount!RemountMounts, Mount!DoMount, Mount!ScheduleReconnect
      <4>2. (reconnect \/ ~stopped) \in BOOLEAN
        OBVIOUS
      <4> QED
        BY <1>0, <4>1, <4>2
    <3> QED
      BY <1>13, <3>1, <3>2
  <2>4. state' \in Mount!MountStates /\ failures' \in {failures, 0} /\ backoff' \in {backoff, 0}
    <3>1. CASE Mount!RemountUnmounts(a)
      BY <1>0, <3>1 DEF Mount!RemountUnmounts, Mount!MountStates
    <3>2. CASE Mount!RemountMounts(a)
      BY <1>0, <3>2 DEF Mount!RemountMounts, Mount!DoMount, Mount!MountStates
    <3> QED
      BY <1>13, <3>1, <3>2
  <2> QED
    BY <1>0, <1>4, <2>1, <2>2, <2>3, <2>4
<1> HIDE DEF Health
<1>14. Health => /\ state' \in Mount!MountStates
                 /\ failures' \in 0..OfflineAfter /\ backoff' \in 0..LastBackoff
                 /\ reconnect' \in BOOLEAN
  BY DEF Health
<1> QED
  BY <1>5, <1>6, <1>7, <1>8, <1>9, <1>10, <1>11, <1>12, <1>13, <1>14 DEF Mount!Next

LEMMA MountBegins == Mount!Init => MountTyped
<1> SUFFICES ASSUME Mount!Init PROVE MountTyped
  OBVIOUS
<1>1. Busy = {}
  BY DEF Mount!Init, Busy
<1>2. Cardinality(Busy) = 0
  BY <1>1, FS_EmptySet
<1>3. /\ stopped \in BOOLEAN /\ reconnect \in BOOLEAN /\ kernelMounted \in BOOLEAN
      /\ serverThere \in BOOLEAN
  BY DEF Mount!Init
<1>4. /\ state = "unmounted" /\ failures = 0 /\ backoff = 0 /\ timers = 0 /\ starts = 0
      /\ tick = [t \in Ticks |-> "none"] /\ attempt = [a \in Attempts |-> "none"]
  BY DEF Mount!Init
<1> QED
  BY <1>2, <1>3, <1>4, BoundsAssumption DEF MountTyped, Mount!TypeOK, Mount!MountStates

-----------------------------------------------------------------------------
(* What the run checks.  A step of the whole is one of the part that moves, *)
(* and leaves the others as they were.                                     *)

LEMMA SupervisorMoves == [MCNext]_mcvars => [Sup!Next]_(Sup!vars)
BY DEF MCNext, mcvars, supervisorVars, Sup!vars
LEMMA MountMoves == [MCNext]_mcvars => [Mount!Next]_(Mount!vars)
BY DEF MCNext, mcvars, mountVars, Mount!vars
LEMMA FeedMovesWith == [MCNext]_mcvars => [Feed!AuditNext]_(Feed!auditVars)
BY DEF MCNext, mcvars, feedVars, Feed!auditVars

LEMMA CopyMoves == [MCNext]_mcvars => [Copy!Next]_(Copy!vars)
BY DEF MCNext, mcvars, copyVars, Copy!vars

(* Whatever the edits, the outages, the faults and the restarts: calls     *)
(* that come in turn leave running what the table asks for, the monitor    *)
(* goes on with its probes, and no copy is left that looks done and is not. *)
THEOREM SharesStayGoing == MCSpec => []SharesAreKeptGoing
<1>1. MCInit => Sup!Init /\ Mount!Init /\ Copy!Init
  BY DEF MCInit
<1>2. MCSpec => Sup!Spec
  BY <1>1, SupervisorMoves, PTL DEF MCSpec, Sup!Spec
<1>3. MCSpec => []Mount!MonitorKeepsTrying
  BY <1>1, MountMoves, MonitorGoesOn, PTL DEF MCSpec
<1>4. MCSpec => Copy!Spec
  BY <1>1, CopyMoves, PTL DEF MCSpec, Copy!Spec
<1>5. Sup!ConvergesInTurn /\ Mount!MonitorKeepsTrying /\ Copy!CopiesAreSound => SharesAreKeptGoing
  BY DEF SharesAreKeptGoing
<1> QED
  BY <1>2, <1>3, <1>4, <1>5, MarkersAssumption, CallsInTurnConverge, CopiesHold, PTL

(* Nothing is unmounted, removed or closed under a cycle.                  *)
THEOREM CyclesStaySafe == MCSpec => NothingEndsUnderACycle
<1>1. MCInit => Sup!Init
  BY DEF MCInit
<1>2. MCSpec => Sup!Spec
  BY <1>1, SupervisorMoves, PTL DEF MCSpec, Sup!Spec
<1> QED
  BY <1>2, MarkersAssumption, CyclesEndFirst, PTL DEF NothingEndsUnderACycle

LEMMA WindowsMove == [MCNext]_mcvars => [Next]_vars
BY DEF MCNext, mcvars

LEMMA RowsBegin ==
    ASSUME MCInit
    PROVE  /\ AtStart /\ \E rows \in [Shares -> Rows \cup {NoRow}] : SambaStart(rows)
           /\ edits \in 0..MaxEdits /\ refusals \in 0..MaxRefusals /\ restarts \in 0..MaxRestarts
           /\ changes \in 0..MaxChanges /\ holds \in 0..MaxHolds
<1>1. NewRow \in Rows
  BY DEF NewRow, Rows
<1>2. \A on \in BOOLEAN : WithLogin(on) \subseteq Rows
  BY DEF WithLogin, Rows
<1>3. \A one, other \in Rows \cup {NoRow} :
         [s \in Shares |-> IF s = 1 THEN one ELSE other] \in [Shares -> Rows \cup {NoRow}]
  OBVIOUS
<1>4. /\ MaxEdits \in Nat /\ MaxEdits # 0 /\ MaxChanges \in Nat /\ MaxChanges # 0
      /\ MaxRefusals \in Nat /\ MaxRestarts \in Nat /\ MaxHolds \in Nat
  BY BoundsAssumption, WindowsAssumption
<1>5. AtStart
  BY Zenon DEF MCInit
<1>6. CASE Windows
  <2>1. \E rows \in [Shares -> Rows \cup {NoRow}] : SambaStart(rows)
    BY <1>1, <1>3, <1>6 DEF Windows
  <2> QED
    BY <1>4, <1>5, <1>6, <2>1 DEF Windows
<1>7. CASE Reborn
  <2>1. \E rows \in [Shares -> Rows \cup {NoRow}] : SambaStart(rows)
    BY <1>1, <1>3, <1>7 DEF Reborn
  <2> QED
    BY <1>4, <1>5, <1>7, <2>1 DEF Reborn
<1>8. CASE Table \/ Edited
  <2>1. PICK one \in {NewRow} \cup WithLogin(TRUE), other \in {NoRow} \cup WithLogin(FALSE) :
           SambaStart([s \in Shares |-> IF s = 1 THEN one ELSE other])
    BY <1>8 DEF Table, Edited, Logins
  <2>2. one \in Rows \cup {NoRow} /\ other \in Rows \cup {NoRow}
    BY <1>1, <1>2
  <2>3. \E rows \in [Shares -> Rows \cup {NoRow}] : SambaStart(rows)
    BY <1>3, <2>1, <2>2
  <2> QED
    BY <1>4, <1>5, <1>8, <2>3 DEF Table, Edited
<1>9. CASE SambaInit /\ changes = 0 /\ holds = 0
  <2>1. [s \in Shares |-> NewRow] \in [Shares -> Rows \cup {NoRow}]
    BY <1>1
  <2>2. \E rows \in [Shares -> Rows \cup {NoRow}] : SambaStart(rows)
    BY <1>9, <2>1 DEF SambaInit
  <2> QED
    BY <1>4, <1>5, <1>9, <2>2 DEF SambaInit
<1>10. Windows \/ Reborn \/ Table \/ Edited \/ (SambaInit /\ changes = 0 /\ holds = 0)
  BY DEF MCInit
<1> QED
  BY <1>6, <1>7, <1>8, <1>9, <1>10

LEMMA ShareBegins == MCInit => WindowInv /\ SambaInv /\ InheritedInv
<1> SUFFICES ASSUME MCInit PROVE WindowInv /\ SambaInv /\ InheritedInv
  OBVIOUS
<1>1. PICK rows \in [Shares -> Rows \cup {NoRow}] : SambaStart(rows)
  BY RowsBegin
<1>2. AtStart /\ refusals \in Nat /\ holds \in Nat
  BY RowsBegin
<1> QED
  BY <1>1, <1>2, WindowStarts, SambaStarts

\* what the invariants of the failover do not say of its variables
RestIsTyped ==
    /\ accounts \subseteq Accounts /\ behind \subseteq Shares
    /\ status \in [Shares -> Statuses] /\ disk \in Disks
    /\ edits \in 0..MaxEdits /\ refusals \in 0..MaxRefusals /\ restarts \in 0..MaxRestarts
    /\ changes \in 0..MaxChanges /\ holds \in 0..MaxHolds

LEMMA RestBegins == MCInit => RestIsTyped
<1> SUFFICES ASSUME MCInit PROVE RestIsTyped
  OBVIOUS
<1>1. PICK rows \in [Shares -> Rows \cup {NoRow}] : SambaStart(rows)
  BY RowsBegin
<1>2. accounts \subseteq Accounts /\ behind \subseteq Shares
  BY <1>1 DEF SambaStart, AccountsAfter
<1>3. status \in [Shares -> Statuses] /\ disk \in Disks
  BY RowsBegin DEF AtStart, Statuses, Disks
<1> QED
  BY <1>2, <1>3, RowsBegin DEF RestIsTyped

LEMMA WriteIsTyped ==
    ASSUME RestIsTyped, NEW rows, NEW dropped, NEW last, NEW refused, NEW restart,
           Write(rows, dropped, last, refused, restart)
    PROVE  accounts' \subseteq Accounts /\ behind' \subseteq Shares /\ refusals' \in 0..MaxRefusals
<1>1. MayRefuse(refused) /\ Reconciled(rows, dropped, refused)
  BY DEF Write
<1>2. behind' = {} \/ behind' \subseteq behind \cup Shares
  BY DEF Write
<1>3. refusals' \in 0..MaxRefusals
  BY <1>1, BoundsAssumption DEF MayRefuse, RestIsTyped
<1> QED
  BY <1>1, <1>2, <1>3 DEF RestIsTyped, Reconciled, AccountsAfter, AccountsLeft

LEMMA EditIsTyped ==
    ASSUME RestIsTyped, NEW s, NEW new, NEW dropped, EditRow(s, new, dropped)
    PROVE  /\ accounts' \subseteq Accounts /\ behind' \subseteq Shares /\ refusals' \in 0..MaxRefusals
           /\ edits' \in 0..MaxEdits /\ restarts' = restarts
<1>1. PICK refused \in Refusals : Write(row', dropped, written, refused, FALSE)
  BY DEF EditRow, Reconcile
<1>2. edits < MaxEdits /\ edits' = edits + 1 /\ restarts' = restarts /\ MaxEdits \in Nat
  BY BoundsAssumption DEF EditRow
<1>3. accounts' \subseteq Accounts /\ behind' \subseteq Shares /\ refusals' \in 0..MaxRefusals
  BY <1>1, WriteIsTyped
<1> QED
  BY <1>2, <1>3 DEF RestIsTyped

LEMMA ApplyIsTyped ==
    ASSUME RestIsTyped, NEW s, NEW reasons, ApplyTo(s, reasons)
    PROVE  /\ accounts' \subseteq Accounts /\ behind' \subseteq Shares /\ refusals' \in 0..MaxRefusals
           /\ edits' = edits /\ restarts' = restarts
<1>1. CASE UNCHANGED sambaVars
  BY <1>1 DEF sambaVars, RestIsTyped
<1>2. CASE ~UNCHANGED sambaVars
  <2>1. PICK refused \in Refusals : Write(row', {}, written, refused, TRUE)
    BY <1>2 DEF ApplyTo, Reconcile
  <2>2. edits' = edits /\ restarts' = restarts
    BY <1>2 DEF ApplyTo
  <2> QED
    BY <2>1, <2>2, WriteIsTyped
<1> QED
  BY <1>1, <1>2

LEMMA RestNext == RestIsTyped /\ [Next]_vars => RestIsTyped'
<1> SUFFICES ASSUME RestIsTyped, [Next]_vars PROVE RestIsTyped'
  OBVIOUS
<1>0. /\ MaxEdits \in Nat /\ MaxChanges \in Nat /\ MaxHolds \in Nat /\ MaxRestarts \in Nat
  BY BoundsAssumption, WindowsAssumption
<1>1. ASSUME NEW s \in Shares, Observe(s) PROVE RestIsTyped'
  <2>1. PICK reasons : ApplyTo(s, reasons)
    BY <1>1 DEF Observe
  <2>2. UNCHANGED <<status, disk, changes, holds>>
    BY <1>1 DEF Observe
  <2> QED
    BY <2>1, <2>2, ApplyIsTyped DEF RestIsTyped
<1>2. ASSUME NEW s \in Shares, Hold(s) \/ Resume(s) PROVE RestIsTyped'
  <2>1. PICK reasons : ApplyTo(s, reasons)
    BY <1>2 DEF Hold, Resume
  <2>2. UNCHANGED <<status, disk, changes>> /\ holds < MaxHolds /\ holds' = holds + 1
    BY <1>2 DEF Hold, Resume
  <2> QED
    BY <1>0, <2>1, <2>2, ApplyIsTyped DEF RestIsTyped
<1>3. ASSUME NEW s \in Shares, StatusChanges(s) PROVE RestIsTyped'
  BY <1>0, <1>3 DEF StatusChanges, sambaVars, RestIsTyped
<1>4. ASSUME NEW s \in Shares, EditTable(s) PROVE RestIsTyped'
  <2>1. PICK new, dropped : EditRow(s, new, dropped)
    BY <1>4 DEF EditTable, UpdateShare, DeleteShare, CreateShare
  <2>2. UNCHANGED <<status, disk, changes, holds>>
    BY <1>4 DEF EditTable
  <2> QED
    BY <2>1, <2>2, EditIsTyped DEF RestIsTyped
<1>5. ASSUME NEW s \in Shares, MachineConnects(s) PROVE RestIsTyped'
  BY <1>5 DEF MachineConnects, Connect, RestIsTyped
<1>6. CASE DiskChanges
  BY <1>0, <1>6 DEF DiskChanges, sambaVars, RestIsTyped
<1>7. CASE Tick \/ StartPass \/ UNCHANGED vars
  BY <1>7 DEF Tick, StartPass, vars, sambaVars, RestIsTyped
<1>8. CASE Restart
  <2>1. PICK refused : Write(row, {}, NoFile, refused, TRUE)
    BY <1>8 DEF Restart, Boot
  <2>2. restarts < MaxRestarts /\ restarts' = restarts + 1 /\ edits' = edits
        /\ UNCHANGED <<status, disk, changes, holds>>
    BY <1>8 DEF Restart, Boot
  <2>3. accounts' \subseteq Accounts /\ behind' \subseteq Shares /\ refusals' \in 0..MaxRefusals
    BY <2>1, WriteIsTyped
  <2> QED
    BY <1>0, <2>2, <2>3 DEF RestIsTyped
<1> QED
  BY <1>1, <1>2, <1>3, <1>4, <1>5, <1>6, <1>7, <1>8 DEF Next

LEMMA ShareIsTyped == WindowInv /\ SambaInv /\ InheritedInv /\ RestIsTyped => TypeOK
BY DEF WindowInv, SambaTyped, SambaInv, InheritedInv, RestIsTyped, Sectioned, TypeOK, SambaTypeOK

(* What a variable of any of the parts holds is what its reader expects,   *)
(* from whichever of the beginnings, however often anything happens.       *)
THEOREM SharesTyped == MCSpec => []Types
<1>1. MCInit => Sup!Init /\ Mount!Init /\ Copy!Init
  BY Zenon DEF MCInit
<1>2. MCSpec => [](WindowInv /\ SambaInv /\ InheritedInv /\ RestIsTyped)
  BY WindowsMove, ShareBegins, RestBegins, WindowNext, SambaNext, InheritedNext, RestNext, PTL DEF MCSpec
<1>3. MCSpec => Sup!Spec /\ Copy!Spec
  BY <1>1, SupervisorMoves, CopyMoves, PTL DEF MCSpec, Sup!Spec, Copy!Spec
<1>4. MCSpec => []MountTyped
  BY <1>1, MountBegins, MountMoves, MountTypedNext, PTL DEF MCSpec
<1>5. MCSpec => [](FeedTyped /\ AllTidy)
  <2>1. MCInit => FeedTyped /\ AllTidy
    BY FeedStarts, Zenon DEF MCInit
  <2> QED
    BY <2>1, FeedMovesWith, FeedMoves, PTL DEF MCSpec
<1>6. Sup!Spec => []Sup!TypeOK
  BY MarkersAssumption, SupervisorTypes
<1>7. Copy!Spec => []Copy!TransferTypeOK
  <2>1. LastAttempt \in Nat \ {0}
    BY BoundsAssumption
  <2> QED
    BY <2>1, AttemptsAreCounted
<1>8. /\ WindowInv /\ SambaInv /\ InheritedInv /\ RestIsTyped => TypeOK
      /\ MountTyped => Mount!TypeOK
      /\ FeedTyped => Feed!AuditTypeOK
  BY ShareIsTyped DEF MountTyped, FeedTyped
<1>9. TypeOK /\ Sup!TypeOK /\ Mount!TypeOK /\ Copy!TransferTypeOK /\ Feed!AuditTypeOK => Types
  BY DEF Types
<1> QED
  BY <1>2, <1>3, <1>4, <1>5, <1>6, <1>7, <1>8, <1>9, PTL

(* The windows are kept, and what smbd is given follows the table, from    *)
(* any of the beginnings.                                                  *)
THEOREM WindowsStay == MCSpec => WindowsAreKept /\ []SambaFollowsTheTable
<1>1. MCSpec => [](WindowInv /\ SambaInv /\ InheritedInv)
  BY WindowsMove, ShareBegins, WindowNext, SambaNext, InheritedNext, PTL DEF MCSpec
<1>2. WindowInv /\ [Next]_vars =>
        [\A s \in Shares : GraceIsKept(s) /\ StabilityIsKept(s)]_vars
  BY FlipsAreEarned
<1>3. MCSpec => WindowsAreKept
  BY <1>1, <1>2, WindowsMove, PTL DEF MCSpec, WindowsAreKept
<1>4. WindowInv /\ SambaInv /\ InheritedInv => SambaFollowsTheTable
  BY ExportsFollow, SessionsFollow DEF SambaFollowsTheTable
<1> QED
  BY <1>1, <1>3, <1>4, PTL

(* Once every line has been handled, a file that nothing has put in doubt  *)
(* is locked while a machine writes it, and what a machine has locked it   *)
(* has open, whatever the machines do and whichever lines are lost.        *)
THEOREM FeedHolds == MCSpec => []Feed!FeedIsRight
<1>1. MCInit => FeedTyped /\ AllTidy
  BY FeedStarts, Zenon DEF MCInit
<1> QED
  BY <1>1, FeedMovesWith, FeedMoves, TidyIsRight, PTL DEF MCSpec
==============================================================================
