----------------------------- MODULE NetworkApply -----------------------------
(***************************************************************************)
(* Applying a saved network configuration to the running system, with a    *)
(* rollback when it might cut the caller off: network/apply-service.ts,    *)
(* network/preflight.ts, web/routes/network-apply.ts and the banner of the *)
(* front end that confirms.  The helper's apply-network is one step here;  *)
(* Helper has its steps.                                                   *)
(*                                                                         *)
(* A side's settings are one value: the first ones, others that work,      *)
(* wrong ones (sound, but they cut the side off), and unsound ones, which  *)
(* preflight refuses.                                                      *)
(***************************************************************************)
EXTENDS Naturals

CONSTANTS None,
          Width,         \* bits of an address
          MaxSaves,      \* bound: edits of the configuration
          MaxFaults,     \* bound: steps of the helper that fail
          MaxLinks       \* bound: changes of a link

Sides == {"lan", "machine"}
Settings == {"first", "other", "wrong", "unsound", "dhcp"}
Works(settings) == settings # "wrong"

VARIABLES
    config,      \* side -> settings saved
    profile,     \* side -> settings of the profile of its interface
    clone,       \* side -> settings of tnc-revert-<interface>, or None
    onClone,     \* sides that run on their clone
    armed,       \* the side whose clone the revert timer brings back, or None
    pending,     \* side -> row of pending_network_change: "open", "expired" or None
    stored,      \* side -> network_interface_config, or None
    link,        \* side -> "up", "down" or "absent"
    via,         \* where the operator's request arrives: a side, loopback, unknown
    seat,        \* the side the operator sits on
    answer,      \* of the last request
    saves, faults, links, cloneLost, fired

networkVars == <<config, profile, clone, onClone, armed, pending, stored, link, via, seat,
                 answer, saves, faults, links, cloneLost, fired>>

Live(s) == IF s \in onClone THEN clone[s] ELSE profile[s]
Reached == Works(Live(seat)) \/ via = "loopback"

-----------------------------------------------------------------------------
(* preflight.ts                                                            *)
SettingIsSound == Width \in Nat \ {0} /\ None \notin Settings
Power[n \in 0..Width] == IF n = 0 THEN 1 ELSE 2 * Power[n - 1]   \* of two
Addresses == 0..(Power[Width] - 1)
\* JavaScript shifts by the count modulo the width
ShiftLeft(a, n) == (a * Power[n % Width]) % Power[Width]
And(a, mask) ==    \* mask has its ones on top, mask = 2^Width - lowest
    LET lowest == Power[Width] - mask IN (a \div lowest) * lowest
Mask(prefix) == ShiftLeft(Power[Width] - 1, Width - prefix)
\* mutant: no case of its own for the prefix 0
IsInSubnetByMask(ip, address, prefix) == And(address, Mask(prefix)) = And(ip, Mask(prefix))
IsInSubnet(ip, address, prefix) ==
    prefix = 0 \/ And(address, Mask(prefix)) = And(ip, Mask(prefix))

Preflight(s) ==
    IF link[s] = "absent" THEN {"interface"}
    ELSE (IF link[s] = "down" /\ config[s] = "dhcp" THEN {"method"} ELSE {})
           \cup (IF config[s] = "unsound" THEN {"address"} ELSE {})

\* mutant: an address of no interface is taken for one that is not at risk
WouldCutCallerIfSeen(s) == via = s
WouldCutCaller(s) == via \in {s, "unknown"}

-----------------------------------------------------------------------------
Init ==
    /\ config = [s \in Sides |-> "first"] /\ profile = [s \in Sides |-> "first"]
    /\ clone = [s \in Sides |-> None] /\ onClone = {} /\ armed = None
    /\ pending = [s \in Sides |-> None] /\ stored = [s \in Sides |-> None]
    /\ link = [s \in Sides |-> "up"]
    /\ via \in Sides \cup {"loopback", "unknown"}
    /\ seat \in Sides /\ (via \in Sides => seat = via)
    /\ answer = None /\ cloneLost = FALSE /\ fired = FALSE
    /\ saves = 0 /\ faults = 0 /\ links = 0

(* Settings, saved from the network page.                                  *)
Save(s, settings) ==
    /\ Reached
    /\ saves < MaxSaves /\ saves' = saves + 1
    /\ config' = [config EXCEPT ![s] = settings]
    /\ UNCHANGED <<profile, clone, onClone, armed, pending, stored, link, via, seat, answer,
                   faults, links, cloneLost, fired>>

(* apply-network: the one revert timer is stopped, whichever side it was   *)
(* armed for, and the side's clone deleted.                                *)
HelperWorks(s, revert) ==
    /\ s \notin onClone
    /\ clone' = [clone EXCEPT ![s] = IF revert THEN profile[s] ELSE None]
    /\ profile' = [profile EXCEPT ![s] = config[s]]
    /\ armed' = IF revert THEN s ELSE None
    /\ UNCHANGED <<onClone, faults, cloneLost>>

\* the clone is not made, and that is tolerated
HelperLosesTheClone(s) ==
    /\ s \notin onClone
    /\ faults < MaxFaults /\ faults' = faults + 1
    /\ clone' = [clone EXCEPT ![s] = None] /\ cloneLost' = TRUE
    /\ profile' = [profile EXCEPT ![s] = config[s]]
    /\ armed' = s
    /\ UNCHANGED onClone

\* before the profile is changed: a side that runs on its clone loses it, and
\* with it the profile the rest of the request is about
HelperFailsEarly(s) ==
    /\ IF s \in onClone THEN UNCHANGED faults
       ELSE faults < MaxFaults /\ faults' = faults + 1
    /\ clone' = [clone EXCEPT ![s] = None] /\ onClone' = onClone \ {s}
    /\ armed' = None
    /\ UNCHANGED <<profile, cloneLost>>

\* after it, at the hostname or the timer
HelperFailsLate(s, revert) ==
    /\ s \notin onClone
    /\ faults < MaxFaults /\ faults' = faults + 1
    /\ clone' = [clone EXCEPT ![s] = IF revert THEN profile[s] ELSE None]
    /\ profile' = [profile EXCEPT ![s] = config[s]]
    /\ armed' = None
    /\ UNCHANGED <<onClone, cloneLost>>

Refuse(s) ==
    /\ answer' = "refused"
    /\ UNCHANGED <<profile, clone, onClone, armed, pending, stored, faults, cloneLost>>

Fail(s, revert) ==
    /\ HelperFailsEarly(s) \/ HelperFailsLate(s, revert)
    /\ answer' = "failed"
    /\ UNCHANGED <<pending, stored>>

RecordPending(s) ==
    /\ pending' = [pending EXCEPT ![s] = "open"]
    /\ stored' = [stored EXCEPT ![s] = config[s]]
ClearPending(s) == pending' = [pending EXCEPT ![s] = None] /\ UNCHANGED stored

(* POST /network/apply                                                     *)
Apply(s) ==
    /\ Reached
    /\ \/ Preflight(s) # {} /\ Refuse(s)
       \/ /\ Preflight(s) = {}
          /\ LET revert == WouldCutCaller(s)
             IN  \/ /\ HelperWorks(s, revert) \/ (revert /\ HelperLosesTheClone(s))
                    /\ IF revert THEN RecordPending(s) /\ answer' = "pending_confirmation"
                       ELSE ClearPending(s) /\ answer' = "applied"
                 \/ Fail(s, revert)
    /\ UNCHANGED <<config, link, via, seat, saves, links, fired>>

(* POST /network/confirm: what is saved now is applied once more, with no  *)
(* timer.                                                                  *)
Confirm(s) ==
    /\ Reached
    /\ \/ link[s] = "absent" /\ Refuse(s)
       \/ /\ link[s] # "absent"
          /\ \/ HelperWorks(s, FALSE) /\ ClearPending(s) /\ answer' = "confirmed"
             \/ Fail(s, FALSE)
    /\ UNCHANGED <<config, link, via, seat, saves, links, fired>>

(* The banner shows whenever a row is there, and confirms the LAN side.    *)
BannerConfirms ==
    /\ \E s \in Sides : pending[s] # None
    /\ Confirm("lan")

(* The timer fires.  The row stays.                                        *)
TimerFires ==
    /\ armed # None
    /\ onClone' = IF clone[armed] = None THEN onClone ELSE onClone \cup {armed}
    /\ pending' = [pending EXCEPT ![armed] = IF @ = None THEN None ELSE "expired"]
    /\ armed' = None /\ fired' = TRUE
    /\ UNCHANGED <<config, profile, clone, stored, link, via, seat, answer,
                   saves, faults, links, cloneLost>>

LinkChanges(s) ==
    /\ links < MaxLinks /\ links' = links + 1
    /\ \E l \in {"up", "down", "absent"} : link' = [link EXCEPT ![s] = l]
    /\ UNCHANGED <<config, profile, clone, onClone, armed, pending, stored, via, seat, answer,
                   saves, faults, cloneLost, fired>>

Next == \/ \E s \in Sides : Apply(s) \/ LinkChanges(s)
        \/ \E s \in Sides, settings \in Settings : Save(s, settings)
        \/ BannerConfirms \/ TimerFires

Spec == Init /\ [][Next]_networkVars

-----------------------------------------------------------------------------
TypeOK ==
    /\ {config, profile} \subseteq [Sides -> Settings]
    /\ {clone, stored} \subseteq [Sides -> Settings \cup {None}]
    /\ onClone \subseteq {s \in Sides : clone[s] # None}
    /\ armed \in Sides \cup {None}
    /\ pending \in [Sides -> {"open", "expired", None}]

(* The gateway is inside the subnet when the bits of the prefix agree, for *)
(* every prefix there is.                                                  *)
SubnetsAgree ==
    saves > 0 \/ \A ip, address \in Addresses, prefix \in 0..Width :
        IsInSubnet(ip, address, prefix)
          <=> ip \div Power[Width - prefix] = address \div Power[Width - prefix]

(* An apply that answers, and cuts the operator off, leaves a timer and a  *)
(* profile that works to bring back: as long as no rollback has happened   *)
(* before, no step of the helper failed, and nothing else was applied.     *)
ACutIsUndone ==
    (/\ ~Reached /\ answer \in {"applied", "pending_confirmation"}
     /\ ~fired /\ faults = 0)
      => armed = seat /\ clone[seat] # None /\ Works(clone[seat])

NetworkIsSafe == SubnetsAgree /\ ACutIsUndone

(* "Not confirming is a valid answer.  ... the timer runs out, and the     *)
(* bridge comes back on the address they know": a change that waits for    *)
(* its answer has the timer running.                                       *)
UnconfirmedIsTimed == \A s \in Sides : pending[s] = "open" => armed = s
=============================================================================
