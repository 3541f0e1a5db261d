----------------------------- MODULE DiffEngine -----------------------------
(***************************************************************************)
(* The decision engine of src/backend/sync/diff-engine.ts: what to do with *)
(* one path, given its local copy, its server copy, the last agreed state  *)
(* (the base) and the conditions the share is under.  The module is pure,  *)
(* as the source is: operators only, no state.                             *)
(*                                                                         *)
(* A side is NoSide (absent, or unreadable) or a record of size, mtime and *)
(* hash, where the hash may be unknown (NoHash).  Wording (detail,         *)
(* warnings, the HEIDENHAIN name checks) does not influence any decision   *)
(* and is left out.                                                        *)
(***************************************************************************)
EXTENDS Integers

CONSTANTS NoSide,   \* null: the path is absent on this side
          NoHash    \* null: the content was not hashed

ConflictModes == {"last_write_wins", "machine_wins", "server_wins"}

Actions == {"NOOP", "PUSH", "PULL", "DELETE_REMOTE", "DELETE_LOCAL",
            "CONVERGE", "DEFER", "EXCLUDE", "SKIP", "ERROR"}

Reasons == {"in_sync", "local_changed", "remote_changed", "local_created",
            "remote_created", "local_deleted", "remote_deleted", "both_deleted",
            "converged", "conflict_resolved", "delete_protected", "excluded",
            "oversized", "case_collision", "server_offline", "read_only",
            "locked_by_machine"}

FileStates == {"new", "synced", "pending_push", "pending_pull", "conflict",
               "deferred_locked", "error", "excluded"}

SidesOf(sizes, mtimes, hashes) ==
    [size : sizes, mtime : mtimes, hash : hashes] \cup {NoSide}

ServerMutating == {"PUSH", "DELETE_REMOTE"}
LocalMutating == {"PULL", "DELETE_LOCAL"}
NeedsAReachableServer == {"PUSH", "DELETE_REMOTE", "DELETE_LOCAL"}

-----------------------------------------------------------------------------
(* Comparison primitives. *)

SameContent(a, b) ==
    IF a.hash # NoHash /\ b.hash # NoHash
      THEN a.hash = b.hash
      ELSE a.size = b.size /\ a.mtime = b.mtime

(* Mutant: only a newer mtime counts as a change. *)
ClassifyByAge(side, base) ==
    IF base = NoSide
      THEN IF side = NoSide THEN "absent" ELSE "created"
      ELSE IF side = NoSide THEN "deleted"
           ELSE IF side.mtime <= base.mtime THEN "unchanged" ELSE "changed"

ClassifySide(side, base) ==
    IF base = NoSide
      THEN IF side = NoSide THEN "absent" ELSE "created"
      ELSE IF side = NoSide THEN "deleted"
           ELSE IF SameContent(side, base) THEN "unchanged" ELSE "changed"

NeedsCapture(victim, survivor) ==
    /\ victim # NoSide
    /\ survivor = NoSide \/ ~SameContent(victim, survivor)

-----------------------------------------------------------------------------
(* A verdict: the action, why, the side whose content must be captured     *)
(* first ("none" when nothing is destroyed), the file_index state, and the *)
(* winner of a conflict ("none" when there was none).                      *)

NamedSides == {"none", "local", "remote"}
Verdicts == [action : Actions, reason : Reasons, capture : NamedSides,
             nextState : FileStates, winner : NamedSides]

Verdict(action, reason, capture, nextState) ==
    [action |-> action, reason |-> reason, capture |-> capture,
     nextState |-> nextState, winner |-> "none"]

(* Mutant: a deletion on the machine side wins. *)
WinnerDeletesRemote(local, remote, config) ==
    CASE config.mode = "machine_wins" -> "local"
      [] config.mode = "server_wins"  -> "remote"
      [] OTHER ->
           IF local = NoSide \/ remote = NoSide THEN "local"
           ELSE IF local.mtime - remote.mtime >= - config.tolerance
                  THEN "local" ELSE "remote"

(* last_write_wins: a deletion loses to content, two mtimes within the     *)
(* tolerance tie and the machine side wins the tie.                        *)
Winner(local, remote, config) ==
    CASE config.mode = "machine_wins" -> "local"
      [] config.mode = "server_wins"  -> "remote"
      [] OTHER ->
           IF local = NoSide THEN "remote"
           ELSE IF remote = NoSide THEN "local"
           ELSE IF local.mtime - remote.mtime >= - config.tolerance
                  THEN "local" ELSE "remote"

ConflictAction(winner, local, remote) ==
    IF winner = "local"
      THEN IF local = NoSide THEN "DELETE_REMOTE" ELSE "PUSH"
      ELSE IF remote = NoSide THEN "DELETE_LOCAL" ELSE "PULL"

(* Mutant: the losing content is not captured. *)
ResolveWithoutCapture(local, remote, config) ==
    Verdict(ConflictAction(Winner(local, remote, config), local, remote),
            "conflict_resolved", "none", "conflict")

ResolveConflict(local, remote, config) ==
    LET winner == Winner(local, remote, config)
        loser  == IF winner = "local" THEN remote ELSE local
        capture == IF loser = NoSide THEN "none"
                   ELSE IF winner = "local" THEN "remote" ELSE "local"
    IN  [action |-> ConflictAction(winner, local, remote),
         reason |-> "conflict_resolved", capture |-> capture,
         nextState |-> "conflict", winner |-> winner]

(* Mutant: an ordinary overwrite captures nothing. *)
CaptureNever(condition, side) == "none"

CaptureIf(condition, side) == IF condition THEN side ELSE "none"

(* The verdict table: one arm per pair of changes. *)
DecideCore(local, remote, base, config) ==
    LET lc == ClassifySide(local, base)
        rc == ClassifySide(remote, base)
        both(c) == lc = c /\ rc = c
        pair(c, d) == lc = c /\ rc = d
    IN  CASE both("absent") -> Verdict("NOOP", "in_sync", "none", "synced")
          [] pair("created", "absent") ->
               Verdict("PUSH", "local_created", "none", "pending_push")
          [] pair("absent", "created") ->
               Verdict("PULL", "remote_created", "none", "pending_pull")
          [] both("unchanged") -> Verdict("NOOP", "in_sync", "none", "synced")
          [] pair("changed", "unchanged") ->
               Verdict("PUSH", "local_changed",
                       CaptureIf(NeedsCapture(remote, local), "remote"),
                       "pending_push")
          [] pair("unchanged", "changed") ->
               Verdict("PULL", "remote_changed",
                       CaptureIf(NeedsCapture(local, remote), "local"),
                       "pending_pull")
          [] pair("deleted", "unchanged") ->
               IF config.protectDeletes
                 THEN Verdict("PULL", "delete_protected", "none", "pending_pull")
                 ELSE Verdict("DELETE_REMOTE", "local_deleted", "remote",
                              "pending_push")
          [] pair("unchanged", "deleted") ->
               IF config.protectDeletes
                 THEN Verdict("PUSH", "delete_protected", "none", "pending_push")
                 ELSE Verdict("DELETE_LOCAL", "remote_deleted", "local",
                              "pending_pull")
          [] both("deleted") -> Verdict("NOOP", "both_deleted", "none", "synced")
          [] both("created") \/ both("changed") ->
               IF SameContent(local, remote)
                 THEN Verdict("CONVERGE", "converged", "none", "synced")
                 ELSE ResolveConflict(local, remote, config)
          [] OTHER -> ResolveConflict(local, remote, config)

(* Availability: server state first, then locks.  A deferral keeps the     *)
(* file_index state of what it defers.                                     *)
Deferred(v, reason, nextState) ==
    [action |-> "DEFER", reason |-> reason, capture |-> "none",
     nextState |-> nextState, winner |-> v.winner]

(* Mutant: only writes to the server wait for it. *)
DeferWritesForServer(v, config) ==
    IF config.serverOffline /\ v.action \in ServerMutating
      THEN Deferred(v, "server_offline", v.nextState)
      ELSE v

DeferForServer(v, config) ==
    IF config.serverOffline /\ v.action \in NeedsAReachableServer
      THEN Deferred(v, "server_offline", v.nextState)
    ELSE IF ~config.serverOffline /\ config.readOnly /\ v.action \in ServerMutating
      THEN Deferred(v, "read_only", v.nextState)
    ELSE v

DeferForMachine(v, config) ==
    IF config.locked /\ v.action \in LocalMutating
      THEN Deferred(v, "locked_by_machine", "deferred_locked")
      ELSE v

ApplyAvailabilityOverrides(v, config) ==
    DeferForMachine(DeferForServer(v, config), config)

SizeOf(side) == IF side = NoSide THEN 0 ELSE side.size

(* What the path itself forbids, whatever the share is doing. *)
Decide(local, remote, base, config) ==
    IF config.excluded
      THEN Verdict("EXCLUDE", "excluded", "none", "excluded")
    ELSE IF config.caseCollision
      THEN Verdict("ERROR", "case_collision", "none", "error")
    ELSE IF SizeOf(local) > config.maxFileSize \/ SizeOf(remote) > config.maxFileSize
      THEN Verdict("SKIP", "oversized", "none", "error")
    ELSE ApplyAvailabilityOverrides(DecideCore(local, remote, base, config), config)

(* Whether a verdict destroys content that nothing else holds. *)
DestroysData(local, remote, v) ==
    CASE v.action = "PULL"          -> NeedsCapture(local, remote)
      [] v.action = "PUSH"          -> NeedsCapture(remote, local)
      [] v.action = "DELETE_LOCAL"  -> local # NoSide
      [] v.action = "DELETE_REMOTE" -> remote # NoSide
      [] OTHER                      -> FALSE
=============================================================================
