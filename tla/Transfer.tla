------------------------------- MODULE Transfer -------------------------------
(***************************************************************************)
(* The copy of one file, from the moment the orchestrator asks for it: up  *)
(* to LastAttempt attempts, each over a temporary file beside the          *)
(* destination that is written, synced, read back, dated and renamed.      *)
(*                                                                         *)
(* A file is two halves and a modification time, so that a save can fall   *)
(* into the middle of a copy and a copy into the middle of a save.         *)
(***************************************************************************)
EXTENDS Naturals

CONSTANTS Absent, LastAttempt, MaxSaves, MaxFaults, MaxCuts   \* the last three are bounds

VARIABLES
  source, there,         \* what was read or can be, and whether it has a name
  destination,
  step, try, seen,       \* where the transfer is; the stat of this attempt
  temp, hashed,          \* what the temporary file holds; what went past the hasher
  safe,                  \* the bytes of it are on the medium
  before,                \* the destination that a power cut may bring back
  debris, excused,       \* temporary files left behind; how many had a reason
  saves, faults, cuts

vars == <<source, there, destination, step, try, seen, temp, hashed, safe, before, debris, excused,
          saves, faults, cuts>>
copy == <<step, try, seen, temp, hashed, safe>>
bounds == <<saves, faults, cuts>>

Bad == 0                        \* bytes that are none of anybody's
File(a, b, t) == [first |-> a, second |-> b, mtime |-> t]
Same(a, b) == a.first = b.first /\ a.second = b.second

Init ==
    /\ source = File(1, 1, 1) /\ there = TRUE /\ destination \in {Absent, File(9, 9, 0)}
    /\ step = "idle" /\ try = 0 /\ seen = Absent /\ temp = Absent /\ hashed = Absent
    /\ safe = FALSE /\ before = destination
    /\ debris = 0 /\ excused = 0 /\ saves = 0 /\ faults = 0 /\ cuts = 0

Goto(s) == step' = s
KeepPlaces == UNCHANGED <<source, there, destination, before, debris, excused, bounds>>

-----------------------------------------------------------------------------
\* a machine or an editor writes in place, a half at a time, or removes the file
SaveFirst ==
    /\ there /\ source.first = source.second /\ saves < MaxSaves
    /\ saves' = saves + 1
    /\ source' = File(saves + 2, source.second, source.mtime + 1)
    /\ UNCHANGED <<there, destination, copy, before, debris, excused, faults, cuts>>
SaveSecond ==
    /\ there /\ source.first # source.second
    /\ source' = File(source.first, source.first, source.mtime + 1)
    /\ UNCHANGED <<there, destination, copy, before, debris, excused, bounds>>
RemoveSource ==
    /\ there /\ saves < MaxSaves
    /\ saves' = saves + 1 /\ there' = FALSE
    /\ UNCHANGED <<source, destination, copy, before, debris, excused, faults, cuts>>

-----------------------------------------------------------------------------
\* a missing source and a full disk are found before the first attempt
Begin ==
    /\ step = "idle" /\ there
    /\ Goto("stat") /\ try' = 1
    /\ UNCHANGED <<seen, temp, hashed, safe>> /\ KeepPlaces

\* after an attempt, what the caller sees of it
GiveUp == Goto("idle") /\ try' = 0 /\ seen' = Absent /\ hashed' = Absent /\ safe' = FALSE
Again == Goto("sleep") /\ seen' = Absent /\ hashed' = Absent /\ safe' = FALSE /\ UNCHANGED try

(* Every failure takes the temporary file with it, if it can be removed.   *)
DiscardUnlessVerifying(removed) ==
    /\ temp' = Absent
    /\ debris' = IF temp # Absent /\ (~removed \/ step = "verify") THEN debris + 1 ELSE debris
    /\ excused' = IF temp # Absent /\ ~removed THEN excused + 1 ELSE excused
Discard(removed) ==
    /\ temp' = Absent
    /\ debris' = IF temp # Absent /\ ~removed THEN debris + 1 ELSE debris
    /\ excused' = IF temp # Absent /\ ~removed THEN excused + 1 ELSE excused

\* a permanent fault ends the transfer, any other is tried again while there are attempts
Fail(permanent, removed) ==
    /\ Discard(removed)
    /\ IF permanent \/ try > LastAttempt - 1 THEN GiveUp ELSE Again
    /\ UNCHANGED <<source, there, destination, before>>

Wake ==
    /\ step = "sleep" /\ Goto("stat") /\ try' = try + 1
    /\ UNCHANGED <<seen, temp, hashed, safe>> /\ KeepPlaces

StatSource ==
    /\ step = "stat"
    /\ IF ~there
       THEN Fail(TRUE, TRUE) /\ UNCHANGED bounds
       ELSE /\ Goto("open") /\ seen' = source
            /\ UNCHANGED <<try, temp, hashed, safe>> /\ KeepPlaces

Open ==
    /\ step = "open" /\ Goto("first")
    /\ temp' = File(Bad, Bad, 9) /\ hashed' = File(Bad, Bad, 9) /\ safe' = FALSE
    /\ UNCHANGED <<try, seen>> /\ KeepPlaces

\* the stream is opened with the first chunk; a file that is removed is then read to its end
Stored(v) == {v} \union (IF faults < MaxFaults THEN {Bad} ELSE {})
CopyFirst ==
    /\ step = "first"
    /\ IF ~there
       THEN Fail(TRUE, TRUE) /\ UNCHANGED bounds
       ELSE /\ Goto("second") /\ hashed' = [hashed EXCEPT !.first = source.first]
            /\ \E v \in Stored(source.first) :
                 /\ temp' = [temp EXCEPT !.first = v]
                 /\ faults' = IF v = Bad THEN faults + 1 ELSE faults
            /\ UNCHANGED <<source, there, destination, try, seen, safe, before, debris, excused,
                           saves, cuts>>
CopySecond ==
    /\ step = "second" /\ Goto("sync")
    /\ hashed' = [hashed EXCEPT !.second = source.second]
    /\ temp' = [temp EXCEPT !.second = source.second]
    /\ UNCHANGED <<try, seen, safe>> /\ KeepPlaces

SyncSkipped ==
    /\ step = "sync" /\ Goto("verify")
    /\ UNCHANGED <<try, seen, temp, hashed, safe>> /\ KeepPlaces
SyncFile ==
    /\ step = "sync" /\ Goto("verify") /\ safe' = TRUE
    /\ UNCHANGED <<try, seen, temp, hashed>> /\ KeepPlaces

VerifySkipped ==
    /\ step = "verify" /\ Goto("date")
    /\ UNCHANGED <<try, seen, temp, hashed, safe>> /\ KeepPlaces
\* what was stored is read back: a mismatch is worth another attempt
Verify ==
    /\ step = "verify"
    /\ IF Same(temp, hashed)
       THEN Goto("date") /\ UNCHANGED <<try, seen, temp, hashed, safe>> /\ KeepPlaces
       ELSE Fail(FALSE, TRUE) /\ UNCHANGED bounds

DateAfterwards ==
    /\ step = "date" /\ Goto("rename")
    /\ temp' = [temp EXCEPT !.mtime = source.mtime]
    /\ UNCHANGED <<try, seen, hashed, safe>> /\ KeepPlaces
\* the time of the stat that this attempt began with
Date ==
    /\ step = "date" /\ Goto("rename")
    /\ temp' = [temp EXCEPT !.mtime = seen.mtime]
    /\ UNCHANGED <<try, seen, hashed, safe>> /\ KeepPlaces

Rename ==
    /\ step = "rename" /\ Goto("directory")
    /\ before' = destination /\ destination' = temp /\ temp' = Absent
    /\ UNCHANGED <<source, there, try, seen, hashed, safe, debris, excused, bounds>>
SyncDirectory ==
    /\ step = "directory" /\ before' = destination /\ GiveUp
    /\ UNCHANGED <<source, there, destination, temp, debris, excused, bounds>>

\* the error of a file system, and an unlink that may fail after it
Fault ==
    /\ step \in {"open", "first", "second", "sync", "verify", "date", "rename"}
    /\ faults < MaxFaults /\ faults' = faults + 1
    /\ \E permanent, removed \in BOOLEAN : Fail(permanent, removed)
    /\ UNCHANGED <<saves, cuts>>

\* a kill leaves the temporary file; a power cut also takes what was not synced
Torn(file) == IF file = Absent \/ safe THEN file ELSE File(Bad, Bad, file.mtime)
Cut ==
    /\ step # "idle" /\ cuts < MaxCuts /\ cuts' = cuts + 1
    /\ debris' = IF temp # Absent THEN debris + 1 ELSE debris
    /\ excused' = IF temp # Absent THEN excused + 1 ELSE excused
    /\ destination' \in IF step = "directory" THEN {Torn(destination), before} ELSE {destination}
    /\ before' = destination'
    /\ temp' = Absent /\ GiveUp
    /\ UNCHANGED <<source, there, saves, faults>>

Next ==
    \/ SaveFirst \/ SaveSecond \/ RemoveSource \/ Begin \/ Wake \/ StatSource \/ Open
    \/ CopyFirst \/ CopySecond \/ SyncFile \/ Verify \/ Date \/ Rename \/ SyncDirectory
    \/ Fault \/ Cut

Spec == Init /\ [][Next]_vars

-----------------------------------------------------------------------------
TransferTypeOK ==
    /\ try \in 0..LastAttempt /\ (step = "idle" <=> try = 0)
    /\ temp # Absent => step \in {"first", "second", "sync", "verify", "date", "rename"}

(* Nothing that was stored badly, or was not on the medium when the power  *)
(* went, is ever found at the destination.                                 *)
NeverTorn == destination # Absent => destination.first # Bad /\ destination.second # Bad

(* A copy that caught a save in its middle, or missed one, never looks     *)
(* like its source: a pair of equal times is a pair of equal contents.     *)
MixtureIsNoticed ==
    (destination # Absent /\ destination.mtime = source.mtime) =>
        Same(destination, source)

(* What is left behind was left by a kill or by an unlink that failed.     *)
DebrisHasAReason == debris = excused
CopiesAreSound == NeverTorn /\ MixtureIsNoticed /\ DebrisHasAReason
=============================================================================
