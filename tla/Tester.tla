-------------------------------- MODULE Tester --------------------------------
(***************************************************************************)
(* The test of a connection to the file server (smb/tester.ts): smbclient  *)
(* run in phases, what it prints turned into one cause, and the form of a  *)
(* share whose answer the operator acts on.                                *)
(*                                                                         *)
(* The server is the set of what is wrong with it, which may change at any *)
(* moment; the account names and passwords are their owner's.  What is     *)
(* printed is the set of the patterns in it that a rule looks for.         *)
(***************************************************************************)
EXTENDS Naturals, Sequences, Functions

CONSTANTS Blank,       \* a field that is left empty
          NoShare,     \* the form of a share that is not made yet
          MaxFaults, MaxEdits, MaxPresses   \* bounds

VARIABLES faults,      \* of the server
          form, stored,
          test,        \* the one the button has begun
          shown,       \* its answer on the page
          litter,      \* the probe file of this test is on the server
          turns, edits, presses

testerVars == <<faults, form, stored, test, shown, litter, turns, edits, presses>>

\* in the order in which a connection meets them
Order == <<"unnamed", "silent", "closed", "away", "dialect", "skew", "locked", "expired",
           "password", "share", "rights", "path", "write", "altered">>
Upto(fault) == LET last == CHOOSE i \in DOMAIN Order : Order[i] = fault IN
               {Order[i] : i \in 1..last}
Shut == [connect |-> Upto("rights"), list |-> Upto("password"), put |-> Upto("write"),
         get |-> Upto("path"), del |-> Upto("write")]

Printed ==
    [unnamed  |-> {"CONNECTION TO ", "RESOURCE_NAME_NOT_FOUND"}, silent |-> {},
     closed   |-> {"CONNECTION TO ", "CONNECTION_REFUSED"},
     away     |-> {"CONNECTION TO ", "HOST_UNREACHABLE"},
     dialect  |-> {"CONNECTION TO ", "INVALID_NETWORK_RESPONSE"},
     skew     |-> {"TIME_DIFFERENCE_AT_DC"}, locked |-> {"ACCOUNT_LOCKED_OUT", "ACCESS_DENIED"},
     expired  |-> {"PASSWORD_EXPIRED"}, password |-> {"LOGON_FAILURE"},
     share    |-> {"BAD_NETWORK_NAME"}, rights |-> {"ACCESS_DENIED"},
     path     |-> {"OBJECT_PATH_NOT_FOUND"}, write |-> {"ACCESS_DENIED"}]

Accounts == {[user |-> "service", password |-> "s"], [user |-> "own", password |-> "o"]}
Service == [user |-> "service", password |-> "s"]   \* the global account
Wrong(account) == IF account \in Accounts THEN faults ELSE faults \cup {"password"}
\* the first thing that stops a run of smbclient, if anything does
Stops(account, phase) ==
    LET met == {i \in DOMAIN Order : Order[i] \in Wrong(account) \cap Shut[phase]} IN
    IF met = {} THEN "nothing" ELSE Order[CHOOSE i \in met : \A j \in met : i <= j]

-----------------------------------------------------------------------------
(* FAILURE_RULES, most specific first.                                     *)
Rule(kind, patterns) == [kind |-> kind, patterns |-> patterns]
Unreachable == Rule("host_unreachable", {"HOST_UNREACHABLE", "CONNECTION TO "})
Rules ==
    <<Rule("account_locked", {"ACCOUNT_LOCKED_OUT"}),
      Rule("account_expired", {"PASSWORD_EXPIRED"}),
      Rule("auth_failed", {"LOGON_FAILURE"}),
      Rule("share_not_found", {"BAD_NETWORK_NAME", "OBJECT_PATH_NOT_FOUND"}),
      Rule("access_denied", {"ACCESS_DENIED"}),
      Rule("clock_skew", {"TIME_DIFFERENCE_AT_DC"}),
      Rule("name_resolution_failed", {"RESOURCE_NAME_NOT_FOUND"}),
      Rule("protocol_negotiation_failed", {"INVALID_NETWORK_RESPONSE"}),
      Rule("port_blocked", {"CONNECTION_REFUSED"}),
      Unreachable>>
ClassifiedCatchAllFirst(text) ==
    LET matching == {i \in DOMAIN Rules : Rules[i].patterns \cap text # {}} IN
    IF Unreachable.patterns \cap text # {} THEN "host_unreachable"
    ELSE IF matching = {} THEN "unknown"
    ELSE Rules[CHOOSE i \in matching : \A j \in matching : i <= j].kind
Classified(text) ==
    LET matching == {i \in DOMAIN Rules : Rules[i].patterns \cap text # {}} IN
    IF matching = {} THEN "unknown"
    ELSE Rules[CHOOSE i \in matching : \A j \in matching : i <= j].kind

\* a run that is killed has printed nothing
Failure(cause, phase) ==
    CASE cause = "silent" /\ phase \in {"list", "connect"} -> "host_unreachable"
      [] phase = "put" /\ Classified(Printed[cause]) = "unknown" -> "access_denied"
      [] OTHER -> Classified(Printed[cause])

Causes == [account_locked |-> {"locked"}, account_expired |-> {"expired"},
           auth_failed |-> {"password"}, share_not_found |-> {"share", "path"},
           access_denied |-> {"rights", "write", "silent"}, clock_skew |-> {"skew"},
           name_resolution_failed |-> {"unnamed"}, port_blocked |-> {"closed"},
           protocol_negotiation_failed |-> {"dialect"}, host_unreachable |-> {"silent", "away"},
           unknown |-> {"altered", "silent"}]

-----------------------------------------------------------------------------
(* The form and the row.  A password that is not typed is not sent, and an *)
(* account that is not named is the global one.                            *)
Fields == [user : {Blank, "own"}, password : {Blank, "s", "o"}]
Saved(row, fields) ==
    [fields EXCEPT !.password = IF fields.password = Blank /\ row # NoShare
                                  THEN row.password ELSE fields.password]
Or(value, other) == IF value = Blank THEN other ELSE value
\* what the supervisor mounts with
Mounts(row) == [user |-> Or(row.user, Service.user),
                password |-> Or(row.password, Service.password)]
\* what the route tests with
TestsWithoutStored(row, fields) ==
    [user |-> Or(fields.user, Service.user), password |-> Or(fields.password, Service.password)]
Tests(row, fields) ==
    [user |-> Or(fields.user, Service.user),
     password |-> Or(fields.password,
                     IF row = NoShare THEN Service.password
                     ELSE Or(row.password, Service.password))]

NoShareIsNoForm == NoShare \notin Fields

Idle == [step |-> "idle"]
NoAnswer == [state |-> "none"]
TesterInit ==
    /\ faults = {} /\ form = [user |-> Blank, password |-> Blank] /\ stored = NoShare
    /\ test = Idle /\ shown = NoAnswer /\ litter = FALSE
    /\ turns = 0 /\ edits = 0 /\ presses = 0

Press(probe) ==
    /\ test = Idle /\ presses < MaxPresses /\ presses' = presses + 1
    /\ shown' = NoAnswer
    /\ test' = [step |-> "asked", fields |-> form, probe |-> probe, seen |-> faults,
                refused |-> 0, current |-> TRUE]
    /\ litter' = FALSE   \* the next file has another name
    /\ UNCHANGED <<faults, form, stored, turns, edits>>

Arrive ==
    /\ test.step = "asked"
    /\ test' = [step |-> "list", account |-> Tests(stored, test.fields), probe |-> test.probe,
                seen |-> test.seen, refused |-> 0, current |-> test.current,
                answer |-> "none"]
    /\ UNCHANGED <<faults, form, stored, shown, litter, turns, edits, presses>>

\* an account that is refused is one failed logon more
Ran(phase) ==
    LET cause == Stops(test.account, phase) IN
    [test EXCEPT !.refused = IF cause \in {"password", "locked"} THEN @ + 1 ELSE @,
                 !.seen = IF cause = "nothing" THEN @ ELSE @ \cup {cause}]
Goes(run, step) == test' = [run EXCEPT !.step = step]
Fails(run, step, kind) == test' = [run EXCEPT !.step = step, !.answer = kind]

ListThenConnect ==
    /\ test.step = "list" /\ Goes(Ran("list"), "connect")
    /\ UNCHANGED <<faults, form, stored, shown, litter, turns, edits, presses>>
List ==
    /\ test.step = "list"
    /\ LET cause == Stops(test.account, "list") IN
         IF cause = "nothing" THEN Goes(Ran("list"), "connect")
         ELSE Fails(Ran("list"), "end", Failure(cause, "list"))
    /\ UNCHANGED <<faults, form, stored, shown, litter, turns, edits, presses>>

Connect ==
    /\ test.step = "connect"
    /\ LET cause == Stops(test.account, "connect") IN
         CASE cause # "nothing" -> Fails(Ran("connect"), "end", Failure(cause, "connect"))
           [] cause = "nothing" /\ test.probe -> Goes(Ran("connect"), "put")
           [] OTHER -> Fails(Ran("connect"), "end", "success")
    /\ UNCHANGED <<faults, form, stored, shown, litter, turns, edits, presses>>

\* the file may be there although the run was killed
Put ==
    /\ test.step = "put"
    /\ LET cause == Stops(test.account, "put") IN
         IF cause = "nothing"
           THEN /\ test' = [Ran("put") EXCEPT !.step = "get"] /\ litter' = TRUE
           ELSE /\ Fails(Ran("put"), "delete", Failure(cause, "put"))
                /\ litter' \in IF cause = "silent" THEN {litter, TRUE} ELSE {litter}
    /\ UNCHANGED <<faults, form, stored, shown, turns, edits, presses>>

Get ==
    /\ test.step = "get"
    /\ LET cause == Stops(test.account, "get") IN
         CASE cause # "nothing" -> Fails(Ran("get"), "delete", Failure(cause, "get"))
           [] cause = "nothing" /\ "altered" \in faults -> Fails(Ran("get"), "delete", "unknown")
           [] OTHER -> Fails(Ran("get"), "delete", "success")
    /\ UNCHANGED <<faults, form, stored, shown, litter, turns, edits, presses>>

DeleteAfterSuccess ==
    /\ test.step = "delete" /\ Goes(Ran("del"), "end")
    /\ litter' = (litter /\ (test.answer # "success" \/ Stops(test.account, "del") # "nothing"))
    /\ UNCHANGED <<faults, form, stored, shown, turns, edits, presses>>
Delete ==
    /\ test.step = "delete" /\ Goes(Ran("del"), "end")
    /\ litter' = (litter /\ Stops(test.account, "del") # "nothing")
    /\ UNCHANGED <<faults, form, stored, shown, turns, edits, presses>>

Answer ==
    /\ test.step = "end" /\ test' = Idle
    /\ shown' = [state |-> test.answer, seen |-> test.seen, refused |-> test.refused,
                 probe |-> test.probe, current |-> test.current, account |-> test.account]
    /\ UNCHANGED <<faults, form, stored, litter, turns, edits, presses>>

-----------------------------------------------------------------------------
\* the page and the test no longer speak of the same form and the same server
Stale(record) == IF "current" \in DOMAIN record THEN [record EXCEPT !.current = FALSE] ELSE record
Turn(fault) ==
    /\ turns < MaxFaults /\ turns' = turns + 1
    /\ faults' = IF fault \in faults THEN faults \ {fault} ELSE faults \cup {fault}
    /\ test' = IF test = Idle THEN test ELSE [Stale(test) EXCEPT !.seen = @ \cup faults']
    /\ shown' = Stale(shown)
    /\ UNCHANGED <<form, stored, litter, edits, presses>>
Edit ==
    /\ edits < MaxEdits /\ edits' = edits + 1
    /\ form' \in Fields \ {form}
    /\ test' = Stale(test) /\ shown' = Stale(shown)
    /\ UNCHANGED <<faults, stored, litter, turns, presses>>
Create ==
    /\ stored = NoShare /\ stored' = Saved(NoShare, form)
    /\ UNCHANGED <<faults, form, test, shown, litter, turns, edits, presses>>
Update ==
    /\ stored # NoShare /\ stored' = Saved(stored, form)
    /\ UNCHANGED <<faults, form, test, shown, litter, turns, edits, presses>>
\* the form of the row, which never holds the password
Reset ==
    /\ stored # NoShare /\ form' = [stored EXCEPT !.password = Blank]
    /\ test' = Stale(test) /\ shown' = Stale(shown)
    /\ UNCHANGED <<faults, stored, litter, turns, edits, presses>>

TesterNext ==
    \/ \E probe \in BOOLEAN : Press(probe)
    \/ Arrive \/ List \/ Connect \/ Put \/ Get \/ Delete \/ Answer
    \/ \E fault \in Range(Order) \ {"password"} : Turn(fault)
    \/ Edit \/ Create \/ Update \/ Reset
TesterSpec == TesterInit /\ [][TesterNext]_testerVars

-----------------------------------------------------------------------------
TesterTypeOK ==
    /\ faults \subseteq Range(Order) /\ form \in Fields /\ stored \in Fields \cup {NoShare}
    /\ test.step \in {"idle", "asked", "list", "connect", "put", "get", "delete", "end"}
    /\ litter \in BOOLEAN

(* The cause an operator is told was there while the test ran.             *)
AnswersAreTrue ==
    shown.state \notin {"none", "success"} => Causes[shown.state] \cap shown.seen # {}

(* A share that is saved as it was tested is mounted with the account that *)
(* the test was made with, past everything the test went past.             *)
MountedAsTested ==
    shown.state = "success" /\ shown.current /\ stored # NoShare /\ stored = Saved(stored, form)
      => Mounts(stored) = shown.account /\ Stops(Mounts(stored), "connect") = "nothing"

(* A press of the button does not lock an account: the first logon that is *)
(* refused is the last, but for the deletion of the probe file.            *)
FewRefusals ==
    shown.state # "none" => shown.refused <= IF shown.probe THEN 2 ELSE 1

(* The probe file stays only when the server stood in the way of the       *)
(* deletion.                                                               *)
NothingIsLeft ==
    shown.state # "none" /\ litter => shown.seen \cap Shut.del # {}

TestsAreTrue == AnswersAreTrue /\ MountedAsTested /\ FewRefusals /\ NothingIsLeft
=============================================================================
