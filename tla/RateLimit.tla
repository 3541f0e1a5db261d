------------------------------- MODULE RateLimit -------------------------------
(***************************************************************************)
(* The sliding window that slows down writes of the configuration and of   *)
(* the DHCP server, for one caller: the times of the hits that were let    *)
(* through, filtered when they are looked at and by a sweeper.             *)
(***************************************************************************)
EXTENDS Naturals, Sequences

CONSTANTS WindowMs, Limit, MaxTime, MaxHits   \* the last two are bounds

BoundsAreSound == WindowMs \in Nat /\ Limit \in Nat

VARIABLES now, hits, granted, verdict   \* granted: all that were let through, in order
vars == <<now, hits, granted, verdict>>

Init == now = 0 /\ hits = <<>> /\ granted = <<>> /\ verdict = "none"

\* what of a sequence is in a set, in its order
Picked(s, S) ==
    LET of[n \in 0..Len(s)] ==
            IF n = 0 THEN <<>> ELSE IF s[n] \in S THEN Append(of[n - 1], s[n]) ELSE of[n - 1]
    IN of[Len(s)]
Live(times) == Picked(times, {ts \in Nat : ts + WindowMs > now})

CheckRecordsAll ==
    /\ Len(granted) < MaxHits
    /\ hits' = Append(Live(hits), now)
    /\ IF Len(Live(hits)) >= Limit
       THEN verdict' = "denied" /\ UNCHANGED granted
       ELSE verdict' = "allowed" /\ granted' = Append(granted, now)
    /\ UNCHANGED now
CheckFixedWindow ==
    /\ Len(granted) < MaxHits
    /\ LET kept == IF hits # <<>> /\ hits[1] + WindowMs > now THEN hits ELSE <<>> IN
       IF Len(kept) >= Limit
       THEN hits' = kept /\ verdict' = "denied" /\ UNCHANGED granted
       ELSE hits' = Append(kept, now) /\ verdict' = "allowed" /\ granted' = Append(granted, now)
    /\ UNCHANGED now
\* a denied request is not recorded
Check ==
    /\ Len(granted) < MaxHits
    /\ IF Len(Live(hits)) >= Limit
       THEN hits' = Live(hits) /\ verdict' = "denied" /\ UNCHANGED granted
       ELSE hits' = Append(Live(hits), now) /\ verdict' = "allowed" /\ granted' = Append(granted, now)
    /\ UNCHANGED now

Prune == hits' = Live(hits) /\ verdict' = "none" /\ UNCHANGED <<now, granted>>
Tick == now < MaxTime /\ now' = now + 1 /\ verdict' = "none" /\ UNCHANGED <<hits, granted>>

Next == Check \/ Prune \/ Tick

-----------------------------------------------------------------------------
(* Within any window, wherever it begins, no more than the limit is let    *)
(* through; and a request is denied only when that many were, so that a    *)
(* caller who is denied does not put off the end of it.                    *)
Within(from) == Picked(granted, {ts \in Nat : from < ts + WindowMs /\ ts <= from})
NeverMoreThanTheLimit == \A from \in 0..MaxTime : Len(Within(from)) <= Limit
DeniedForAReason == verdict = "denied" => Len(Within(now)) = Limit
LimitIsExact == NeverMoreThanTheLimit /\ DeniedForAReason
=============================================================================
