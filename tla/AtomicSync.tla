----------------------------- MODULE AtomicSync -----------------------------
(***************************************************************************)
(* One path of one share, with each reconciliation a single indivisible    *)
(* step: what the decision engine and the commit rules of the orchestrator *)
(* promise when nothing moves between the two stats and the commit.        *)
(* Orchestrator.tla takes the same reconciliation apart.                   *)
(*                                                                         *)
(* What is not part of that step is the capture: versioning-engine.ts      *)
(* schedules it, and it reads its file before the transfer replaces it,    *)
(* after, or, on a full disk or when it fails, not at all.                 *)
(*                                                                         *)
(* A content is identified with the side record that describes it; vault   *)
(* is the set of contents held as versions, live the set of contents that  *)
(* somebody wrote and nobody has replaced or deleted since.                *)
(***************************************************************************)
EXTENDS DiffEngine, FiniteSets

CONSTANTS InitSides,    \* what each side, and the base, may initially be
          Configs,      \* the conditions and settings a share may run under
          MaxEdits,     \* bound: edits and deletions by machines and office
          MaxChanges,   \* bound: changes of the conditions
          ServerSkew    \* offsets of the server's clock against the machines'

ASSUME BoundsAssumption == MaxEdits \in Nat /\ MaxChanges \in Nat

(* A side as statSide of the ports reports it: a stat, and never a hash.   *)
Sides == SidesOf(Nat, Int, {NoHash})
Settings == [mode : ConflictModes, tolerance : Nat, maxFileSize : Nat,
             protectDeletes : BOOLEAN, locked : BOOLEAN, serverOffline : BOOLEAN,
             readOnly : BOOLEAN, excluded : BOOLEAN, caseCollision : BOOLEAN]

ASSUME NoSideAssumption == NoSide \notin [size : Nat, mtime : Int, hash : {NoHash}]
ASSUME SharesAssumption ==
    InitSides \subseteq Sides /\ Configs \subseteq Settings /\ ServerSkew \subseteq Int

VARIABLES local, remote, base, config, edits, changes,
          captures,  \* sides whose capture is scheduled and has not run
          vault, live,
          missed     \* history: contents replaced before their capture had read them

versions == <<captures, vault, missed>>
vars == <<local, remote, base, config, edits, changes, versions, live>>

Present(side) == {side} \ {NoSide}

Init ==
    /\ local \in InitSides
    /\ remote \in InitSides
    /\ base \in InitSides
    /\ config \in Configs
    /\ captures = {} /\ vault = {} /\ missed = {}
    /\ live = Present(local) \cup Present(remote)
    /\ edits = 0
    /\ changes = 0

-----------------------------------------------------------------------------
(* An unreachable server is seen as an empty one, or, while the mount still *)
(* answers, as what it is.                                                  *)
SeenRemote == IF config.serverOffline THEN {remote, NoSide} ELSE {remote}

VerdictFor(seen) == Decide(local, seen, base, config)

(* What apply() hands to the versioning engine before the transfer.        *)
Captured(v, seen) ==
    CASE v.capture = "local"  -> Present(local)
      [] v.capture = "remote" -> Present(seen)
      [] OTHER                -> {}

LocalAfter(v, seen) ==
    CASE v.action = "PULL"         -> seen
      [] v.action = "DELETE_LOCAL" -> NoSide
      [] OTHER                     -> local

RemoteAfter(v) ==
    CASE v.action = "PUSH"          -> local
      [] v.action = "DELETE_REMOTE" -> NoSide
      [] OTHER                      -> remote

(* commitSuccess and commitInert: the survivor becomes the base, a deletion *)
(* forgets it, an inert verdict leaves it as it was.                        *)
BaseAfter(v, seen) ==
    CASE v.action = "PUSH"     -> local
      [] v.action = "PULL"     -> seen
      [] v.action = "CONVERGE" -> local
      [] v.action \in {"DELETE_LOCAL", "DELETE_REMOTE"} -> NoSide
      [] OTHER                 -> base

(* captureVersion returns at once, before anything has been read.           *)
HandOver(v, seen, inTime) ==
    IF inTime
    THEN vault' = vault \cup Captured(v, seen) /\ UNCHANGED <<captures, missed>>
    ELSE /\ captures' = captures \cup ({v.capture} \ {"none"})
         /\ missed' = missed \cup Captured(v, seen)
         /\ UNCHANGED vault

Reconcile ==
    \E seen \in SeenRemote, inTime \in BOOLEAN :
      LET v == VerdictFor(seen)
      IN  /\ HandOver(v, seen, inTime)
          /\ local' = LocalAfter(v, seen)
          /\ remote' = RemoteAfter(v)
          /\ base' = BaseAfter(v, seen)
          /\ UNCHANGED <<config, live, edits, changes>>

(* A capture whose turn comes after the transfer: it keeps the file as it  *)
(* now is, or nothing when the disk is nearly full or the read fails.      *)
RunCapture(side) ==
    /\ side \in captures
    /\ captures' = captures \ {side}
    /\ vault' \in {vault, vault \cup Present(IF side = "local" THEN local ELSE remote)}
    /\ UNCHANGED <<local, remote, base, config, live, edits, changes, missed>>

-----------------------------------------------------------------------------
(* The users.  Every save has an mtime of its own: even on the machines'   *)
(* clock, odd on the server's.                                             *)

Saved(mtime) == [size |-> 1, mtime |-> mtime, hash |-> NoHash]

EditLocal ==
    /\ edits < MaxEdits
    /\ edits' = edits + 1
    /\ \E new \in {Saved(4 * edits'), NoSide} :
         /\ new # local
         /\ local' = new
         /\ live' = (live \ {local}) \cup Present(new)
    /\ UNCHANGED <<remote, base, config, versions, changes>>

EditRemote ==
    /\ edits < MaxEdits
    /\ edits' = edits + 1
    /\ \E new \in {Saved(4 * edits' + skew) : skew \in ServerSkew} \cup {NoSide} :
         /\ new # remote
         /\ remote' = new
         /\ live' = (live \ {remote}) \cup Present(new)
    /\ UNCHANGED <<local, base, config, versions, changes>>

(* A machine opens or closes the program, the server goes or comes back.   *)
ConditionsChange ==
    /\ changes < MaxChanges
    /\ changes' = changes + 1
    /\ \/ config' = [config EXCEPT !.locked = ~@]
       \/ config' = [config EXCEPT !.serverOffline = ~@]
    /\ UNCHANGED <<local, remote, base, versions, live, edits>>

Capture == \E side \in captures : RunCapture(side)

Next == Reconcile \/ Capture \/ EditLocal \/ EditRemote \/ ConditionsChange

(* The supervisor's timer starts a cycle again and again.                  *)
Spec == Init /\ [][Next]_vars /\ WF_vars(Reconcile)

-----------------------------------------------------------------------------
(* Every verdict that would destroy content names, for capture, the very   *)
(* side it destroys (diff-engine.ts, "The invariant").                     *)
NoUncapturedDestruction ==
    \A seen \in SeenRemote :
      LET v == VerdictFor(seen)
      IN  DestroysData(local, seen, v) =>
            v.capture = (IF v.action \in LocalMutating THEN "local" ELSE "remote")

(* "No conflict resolution mode may destroy data irrecoverably"            *)
(* (ARCHITECTURE.md:230).  What holds of that: a content somebody wrote    *)
(* and nobody replaced is on one of the two sides or in the vault, or a    *)
(* capture has come too late for it or to nothing.  However many edits,    *)
(* deletions, offline cycles and deferrals lead there, and whichever side  *)
(* loses, the engine was handed that very content before it was destroyed. *)
LostOnlyToACapture == live \subseteq {local, remote} \cup vault \cup missed

(* The table plays no favourites: exchanging the two sides, and which of   *)
(* them the mode prefers, exchanges the verdict, outside a tie and when    *)
(* nothing blocks the share.                                               *)
MirrorAction(a) ==
    CASE a = "PUSH" -> "PULL" [] a = "PULL" -> "PUSH"
      [] a = "DELETE_LOCAL" -> "DELETE_REMOTE"
      [] a = "DELETE_REMOTE" -> "DELETE_LOCAL"
      [] OTHER -> a
MirrorMode(m) ==
    CASE m = "machine_wins" -> "server_wins" [] m = "server_wins" -> "machine_wins"
      [] OTHER -> m
Tied == /\ local # NoSide /\ remote # NoSide
        /\ local.mtime - remote.mtime \in (- config.tolerance)..config.tolerance
MirrorSymmetry ==
    (~Tied /\ ~config.locked /\ ~config.serverOffline /\ ~config.readOnly) =>
       Decide(remote, local, base, [config EXCEPT !.mode = MirrorMode(@)]).action
         = MirrorAction(Decide(local, remote, base, config).action)

(* A cycle against an unreachable server removes nothing from either side: *)
(* an empty listing from a server nobody can reach is not an empty share   *)
(* (the 23-files-to-2 incident in the comment on NEEDS_A_REACHABLE_SERVER).*)
OfflineDestroysNothing ==
    [][(config.serverOffline /\ edits' = edits) =>
         /\ remote' = remote
         /\ local # NoSide => local' # NoSide]_vars

(* Under last_write_wins a deletion never beats an edit: what a            *)
(* reconciliation deletes is exactly the content both sides last agreed on.*)
DeleteNeverBeatsAnEdit ==
    [][(edits' = edits /\ config.mode = "last_write_wins") =>
         /\ (local # NoSide /\ local' = NoSide) =>
              (base # NoSide /\ SameContent(local, base))
         /\ (remote # NoSide /\ remote' = NoSide) =>
              (base # NoSide /\ SameContent(remote, base))]_vars

(* With the server reachable and the program closed for good, the two      *)
(* sides come to agree, and stay so.                                       *)
Agree == IF local = NoSide \/ remote = NoSide THEN local = remote
         ELSE SameContent(local, remote)
Open == ~config.locked /\ ~config.serverOffline
Settles == <>[]Open => <>[]Agree
=============================================================================
