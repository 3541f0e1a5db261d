--------------------------- MODULE CircuitBreaker ---------------------------
(***************************************************************************)
(* What a share's circuit breaker promises the server, whichever paths are *)
(* being reconciled and in whatever order they finish: while it is open no *)
(* attempt begins, once it has cooled down one attempt at most is under    *)
(* way, and only outcomes move it.  Orchestrator implements this module.   *)
(*                                                                         *)
(* attempts counts the reconciliations in flight; failures the failures    *)
(* since the last success, counted no further than the threshold.          *)
(***************************************************************************)
EXTENDS Integers

CONSTANTS Threshold, Cooldown

VARIABLES state, failures, cooldown, attempts

bvars == <<state, failures, cooldown, attempts>>

Initial == state = "closed" /\ failures = 0 /\ cooldown = 0

BInit == Initial /\ attempts = 0

Attempt ==
    /\ state = "closed" \/ (state = "half_open" /\ attempts = 0)
    /\ attempts' = attempts + 1
    /\ UNCHANGED <<state, failures, cooldown>>

Success ==
    /\ attempts > 0 /\ attempts' = attempts - 1
    /\ state' = "closed" /\ failures' = 0
    /\ UNCHANGED cooldown

Failure ==
    /\ attempts > 0 /\ attempts' = attempts - 1
    /\ failures' \in {failures, failures + 1} /\ failures' <= Threshold
    /\ failures' = failures => failures = Threshold
    /\ IF state = "half_open" \/ failures' = Threshold
         THEN state' = "open" /\ cooldown' = Cooldown
         ELSE UNCHANGED <<state, cooldown>>

(* An attempt that found nothing to do, or had to wait. *)
NoOutcome ==
    /\ attempts > 0 /\ attempts' = attempts - 1
    /\ UNCHANGED <<state, failures, cooldown>>

Probe ==
    /\ state = "open" /\ cooldown = 0 /\ attempts = 0
    /\ state' = "half_open"
    /\ UNCHANGED <<failures, cooldown, attempts>>

TimePasses ==
    /\ cooldown > 0 /\ cooldown' = cooldown - 1
    /\ UNCHANGED <<state, failures, attempts>>

(* A full resync clears the breaker; a restart forgets everything. *)
Clear ==
    /\ state' = "closed" /\ failures' = 0
    /\ UNCHANGED <<cooldown, attempts>>
Restart ==
    /\ state' = "closed" /\ failures' = 0 /\ cooldown' = 0 /\ attempts' = 0

BNext == \/ Attempt \/ Success \/ Failure \/ NoOutcome
         \/ Probe \/ TimePasses \/ Clear \/ Restart

BSpec == BInit /\ [][BNext]_bvars
=============================================================================
