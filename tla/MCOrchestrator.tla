--------------------------- MODULE MCOrchestrator ---------------------------
(***************************************************************************)
(* Instances of Orchestrator: small shares, short delays.                  *)
(*                                                                         *)
(* One path of a share, in two kinds of behaviour: both users write and    *)
(* the server goes whenever it likes, with one save and one kill fewer; or *)
(* the office leaves the server alone, which goes between two cycles only. *)
(*                                                                         *)
(* Two paths, in two kinds: copies fail, one path beside the other, with   *)
(* an operator and a kill; or everybody writes one path, the server goes   *)
(* and comes back, and all come to rest.                                   *)
(***************************************************************************)
EXTENDS Orchestrator

CONSTANTS p1, p2

VARIABLE focus   \* the kind of behaviour: never changes

OnePath == {p1}
TwoPaths == {p1, p2}
Bad == {p2}
NoPaths == {}

OneTick == <<1>>
TwoTicks == <<1, 2>>

-----------------------------------------------------------------------------
OneFileInit == Init /\ focus \in {"both", "machine"}
OneFileNext ==
    /\ UNCHANGED focus
    /\ Next
    /\ \/ /\ focus = "both"
          /\ spent'.edit < MaxEdits /\ spent'.crash < MaxCrashes
       \/ /\ focus = "machine"
          /\ ~UsersIdle => UNCHANGED remote
          /\ (reachable /\ ~reachable') => cycle.phase = "idle"
OneFileSpec == OneFileInit /\ [][OneFileNext]_<<vars, focus>>

(* While the office leaves the server alone, the bridge destroys nothing   *)
(* of the machine's it has seen.                                           *)
MachineWorkIsKept == [][focus = "machine" => KeepsSeenWork]_vars

-----------------------------------------------------------------------------
TwoFilesInit ==
    /\ focus \in {"breaker", "rest"}
    /\ Init /\ (focus = "rest" => local[p2] = NoSide)
TwoFilesNext ==
    /\ UNCHANGED focus
    /\ Next
    /\ \/ /\ focus = "breaker"
          /\ spent'.edit < MaxEdits /\ spent'.outage = 0 /\ spent'.lock = 0
          /\ UsersIdle \/ UNCHANGED remote
       \/ /\ focus = "rest"
          /\ spent'.failure < 2 /\ spent'.crash = 0 /\ spent'.operator = 0
          /\ local'[p2] = NoSide /\ remote'[p2] = NoSide

(* The fairness of Orchestrator, where it is asked for; p2 never exists    *)
(* there.                                                                  *)
RestFairness ==
    /\ WF_vars(focus = "rest" /\ CycleStep) /\ WF_vars(focus = "rest" /\ Tick)
    /\ WF_vars(focus = "rest" /\ Capture) /\ WF_vars(focus = "rest" /\ Resume)
    /\ WF_vars(focus = "rest" /\ JobStep(p1)) /\ WF_vars(focus = "rest" /\ MachineCloses(p1))
    /\ WF_vars(focus = "rest" /\ ServerBack)
TwoFilesSpec == TwoFilesInit /\ [][TwoFilesNext]_<<vars, focus>> /\ RestFairness

(* Every cycle ends, and once all is quiet the sides agree and stay so; or *)
(* the breaker has spent its probe on nothing, and lets no path through    *)
(* until an operator or a restart comes.                                   *)
ProbeIsLost == breaker = "half_open" /\ probeUsed
Settles == <>[](ProbeIsLost \/ \A p \in Paths \ BadPaths : Quarantined(p) \/ Agrees(p))
CyclesSettle == focus = "rest" => CyclesEnd /\ Settles

-----------------------------------------------------------------------------
(* One of two files that keeps failing. *)
FailingFileSpec ==
    /\ Init /\ focus = "failing"
    /\ [][Next /\ UNCHANGED focus]_<<vars, focus>>
    /\ Fairness
=============================================================================
