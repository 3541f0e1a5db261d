-------------------------- MODULE AtomicSync_proofs --------------------------
(***************************************************************************)
(* What the decision table and the commit rules keep, for every size, time *)
(* and setting and for any number of edits: a content is lost only to a    *)
(* capture that came too late, a deletion beats no edit, an unreachable    *)
(* server destroys nothing, and neither side is favoured.                  *)
(***************************************************************************)
EXTENDS AtomicSync, TLAPS

-----------------------------------------------------------------------------
(* The verdict table.                                                      *)

Transfers == {"PUSH", "PULL", "DELETE_LOCAL", "DELETE_REMOTE"}

\* what a conflict ends in: the winner survives, the loser is captured
LEMMA ConflictVerdict ==
    ASSUME NEW l, NEW r, NEW c
    PROVE  LET v == ResolveConflict(l, r, c)
           IN  /\ v.action \in Transfers
               /\ v.action = "PULL" => r # NoSide /\ (l # NoSide => v.capture = "local")
               /\ v.action = "PUSH" => l # NoSide /\ (r # NoSide => v.capture = "remote")
               /\ v.action = "DELETE_LOCAL" => r = NoSide /\ (l # NoSide => v.capture = "local")
               /\ v.action = "DELETE_REMOTE" => l = NoSide /\ (r # NoSide => v.capture = "remote")
               /\ c.mode = "last_write_wins" =>
                    /\ l # NoSide => v.action # "DELETE_LOCAL"
                    /\ r # NoSide => v.action # "DELETE_REMOTE"
<1>1. Winner(l, r, c) \in {"local", "remote"}
  BY DEF Winner
<1>2. c.mode = "last_write_wins" =>
        /\ l = NoSide => Winner(l, r, c) = "remote"
        /\ (l # NoSide /\ r = NoSide) => Winner(l, r, c) = "local"
  BY DEF Winner
<1> QED
  BY <1>1, <1>2 DEF ResolveConflict, ConflictAction, Transfers

LEMMA CoreVerdict ==
    ASSUME NEW l, NEW r, NEW b, NEW c
    PROVE  LET v == DecideCore(l, r, b, c)
           IN  /\ v.action = "PULL" => r # NoSide /\ (NeedsCapture(l, r) => v.capture = "local")
               /\ v.action = "PUSH" => l # NoSide /\ (NeedsCapture(r, l) => v.capture = "remote")
               /\ v.action = "DELETE_LOCAL" => r = NoSide /\ (l # NoSide => v.capture = "local")
               /\ v.action = "DELETE_REMOTE" => l = NoSide /\ (r # NoSide => v.capture = "remote")
               /\ c.mode = "last_write_wins" =>
                    /\ (l # NoSide /\ v.action = "DELETE_LOCAL") => b # NoSide /\ SameContent(l, b)
                    /\ (r # NoSide /\ v.action = "DELETE_REMOTE") => b # NoSide /\ SameContent(r, b)
<1> DEFINE lc == ClassifySide(l, b)
           rc == ClassifySide(r, b)
<1>1. /\ lc \in {"absent", "created", "deleted", "unchanged", "changed"}
      /\ rc \in {"absent", "created", "deleted", "unchanged", "changed"}
      /\ lc \in {"absent", "deleted"} <=> l = NoSide
      /\ rc \in {"absent", "deleted"} <=> r = NoSide
      /\ lc = "unchanged" => b # NoSide /\ SameContent(l, b)
      /\ rc = "unchanged" => b # NoSide /\ SameContent(r, b)
  BY DEF ClassifySide
<1>2. NeedsCapture(l, r) => l # NoSide
  BY DEF NeedsCapture
<1>3. NeedsCapture(r, l) => r # NoSide
  BY DEF NeedsCapture
<1> HIDE DEF lc, rc
<1> DEFINE v == DecideCore(l, r, b, c)
<1>4. \/ v = ResolveConflict(l, r, c)
      \/ v.action \in {"NOOP", "CONVERGE"}
      \/ v.action = "PUSH" /\ l # NoSide /\ (NeedsCapture(r, l) => v.capture = "remote")
      \/ v.action = "PULL" /\ r # NoSide /\ (NeedsCapture(l, r) => v.capture = "local")
      \/ /\ v.action = "DELETE_REMOTE" /\ v.capture = "remote" /\ l = NoSide
         /\ b # NoSide /\ SameContent(r, b)
      \/ /\ v.action = "DELETE_LOCAL" /\ v.capture = "local" /\ r = NoSide
         /\ b # NoSide /\ SameContent(l, b)
  <2>1. CASE lc = rc
    BY <2>1, <1>1, <1>2, <1>3 DEF DecideCore, Verdict, CaptureIf, lc, rc
  <2>2. CASE lc # rc /\ lc = "unchanged"
    BY <2>2, <1>1, <1>2, <1>3 DEF DecideCore, Verdict, CaptureIf, lc, rc
  <2>3. CASE lc # rc /\ rc = "unchanged"
    BY <2>3, <1>1, <1>2, <1>3 DEF DecideCore, Verdict, CaptureIf, lc, rc
  <2>4. CASE lc # rc /\ lc # "unchanged" /\ rc # "unchanged"
    BY <2>4, <1>1, <1>2, <1>3 DEF DecideCore, Verdict, CaptureIf, lc, rc
  <2> QED
    BY <2>1, <2>2, <2>3, <2>4
<1> QED
  BY <1>2, <1>3, <1>4, ConflictVerdict DEF Transfers

(* What moves anything is a verdict of the table, made with the server     *)
(* there, unless it only pulls.                                            *)
LEMMA DecideMoves ==
    ASSUME NEW l, NEW r, NEW b, NEW c, Decide(l, r, b, c).action \in Transfers
    PROVE  /\ Decide(l, r, b, c) = DecideCore(l, r, b, c)
           /\ c.serverOffline => Decide(l, r, b, c).action = "PULL"
<1> DEFINE v == DecideCore(l, r, b, c)
<1>1. Decide(l, r, b, c) = ApplyAvailabilityOverrides(v, c)
  BY DEF Decide, Verdict, Transfers
<1> HIDE DEF v
<1> QED
  BY <1>1 DEF ApplyAvailabilityOverrides, DeferForMachine, DeferForServer, Deferred,
              Transfers, NeedsAReachableServer, v

-----------------------------------------------------------------------------
(* Types, and that nothing written counts as absent.                       *)

TypeInv ==
    /\ local \in Sides /\ remote \in Sides /\ base \in Sides
    /\ config \in Settings
    /\ NoSide \notin live
    /\ edits \in Nat

\* a record of numbers and no hash is known by what SameContent compares
LEMMA SameIsEqual ==
    ASSUME NEW a \in Sides \ {NoSide}, NEW b \in Sides \ {NoSide}, SameContent(a, b)
    PROVE  a = b
BY DEF Sides, SidesOf, SameContent

LEMMA SavedIsASide ==
    ASSUME NEW t \in Int
    PROVE  Saved(t) \in Sides \ {NoSide}
BY NoSideAssumption DEF Saved, Sides, SidesOf

LEMMA AbsentIsASide == NoSide \in Sides
BY DEF Sides, SidesOf

LEMMA InitTyped == Init => TypeInv
BY SharesAssumption DEF Init, TypeInv, Present

LEMMA ReconcileTyped == TypeInv /\ Reconcile => TypeInv'
<1> SUFFICES ASSUME TypeInv, NEW seen \in SeenRemote,
                    LET v == VerdictFor(seen)
                    IN  /\ local' = LocalAfter(v, seen)
                        /\ remote' = RemoteAfter(v)
                        /\ base' = BaseAfter(v, seen)
                        /\ UNCHANGED <<config, live, edits>>
             PROVE  TypeInv'
  BY DEF Reconcile
<1>1. seen \in Sides
  BY AbsentIsASide DEF SeenRemote, TypeInv
<1> DEFINE v == VerdictFor(seen)
<1>2. LocalAfter(v, seen) \in Sides /\ RemoteAfter(v) \in Sides /\ BaseAfter(v, seen) \in Sides
  BY <1>1, AbsentIsASide DEF LocalAfter, RemoteAfter, BaseAfter, TypeInv
<1> QED
  BY <1>2 DEF TypeInv

LEMMA EditTyped == TypeInv /\ (EditLocal \/ EditRemote) => TypeInv'
<1> SUFFICES ASSUME TypeInv, EditLocal \/ EditRemote PROVE TypeInv'
  OBVIOUS
<1>1. edits \in Nat /\ edits' = edits + 1 /\ edits' \in Nat
  BY DEF TypeInv, EditLocal, EditRemote
<1>2. CASE EditLocal
  <2>1. PICK new \in {Saved(4 * edits'), NoSide} :
          local' = new /\ live' = (live \ {local}) \cup Present(new)
    BY <1>2 DEF EditLocal
  <2>2. new \in Sides
    BY <1>1, SavedIsASide, AbsentIsASide
  <2>3. UNCHANGED <<remote, base, config>>
    BY <1>2 DEF EditLocal
  <2> QED
    BY <1>1, <2>1, <2>2, <2>3 DEF TypeInv, Present
<1>3. CASE EditRemote
  <2>1. PICK new \in {Saved(4 * edits' + skew) : skew \in ServerSkew} \cup {NoSide} :
          remote' = new /\ live' = (live \ {remote}) \cup Present(new)
    BY <1>3 DEF EditRemote
  <2>2. new \in Sides
    <3>1. \A skew \in ServerSkew : 4 * edits' + skew \in Int
      BY <1>1, SharesAssumption
    <3> QED
      BY <2>1, <3>1, SavedIsASide, AbsentIsASide
  <2>3. UNCHANGED <<local, base, config>>
    BY <1>3 DEF EditRemote
  <2> QED
    BY <1>1, <2>1, <2>2, <2>3 DEF TypeInv, Present
<1> QED
  BY <1>2, <1>3

LEMMA ConditionsTyped == TypeInv /\ ConditionsChange => TypeInv'
<1> SUFFICES ASSUME TypeInv, ConditionsChange PROVE TypeInv'
  OBVIOUS
<1>1. config' \in Settings
  BY DEF TypeInv, ConditionsChange, Settings
<1> QED
  BY <1>1 DEF TypeInv, ConditionsChange

LEMMA TypeStep == TypeInv /\ [Next]_vars => TypeInv'
<1>1. TypeInv /\ UNCHANGED vars => TypeInv'
  BY DEF TypeInv, vars
<1>2. TypeInv /\ Capture => TypeInv'
  BY DEF TypeInv, Capture, RunCapture
<1> QED
  BY <1>1, <1>2, ReconcileTyped, EditTyped, ConditionsTyped DEF Next

THEOREM SharesAreTyped == Spec => []TypeInv
BY InitTyped, TypeStep, PTL DEF Spec

-----------------------------------------------------------------------------
(* A verdict that destroys content names it for capture: the state does    *)
(* not matter, the table itself is so.                                     *)

LEMMA TableCaptures == NoUncapturedDestruction
<1> SUFFICES ASSUME NEW seen \in SeenRemote,
                    DestroysData(local, seen, VerdictFor(seen))
             PROVE  LET v == VerdictFor(seen)
                    IN  v.capture = (IF v.action \in LocalMutating THEN "local" ELSE "remote")
  BY DEF NoUncapturedDestruction
<1> DEFINE v == VerdictFor(seen)
<1>1. v.action \in Transfers
  BY DEF DestroysData, Transfers
<1>2. v = DecideCore(local, seen, base, config)
  BY <1>1, DecideMoves DEF VerdictFor
<1>3. /\ v.action = "PULL" => NeedsCapture(local, seen)
      /\ v.action = "PUSH" => NeedsCapture(seen, local)
      /\ v.action = "DELETE_LOCAL" => local # NoSide
      /\ v.action = "DELETE_REMOTE" => seen # NoSide
  BY DEF DestroysData
<1> QED
  BY <1>1, <1>2, <1>3, CoreVerdict DEF Transfers, LocalMutating

(* Diff engine, "The invariant": nothing is destroyed but what is captured. *)
THEOREM DestructionIsCaptured == Spec => []NoUncapturedDestruction
BY TableCaptures, PTL

-----------------------------------------------------------------------------
(* What a reconciliation does to the two sides.                            *)

LEMMA ReconcileMoves ==
    ASSUME NEW seen \in SeenRemote
    PROVE  LET v == VerdictFor(seen)
           IN  /\ v.action = "PULL" => seen = remote /\ remote # NoSide
               /\ v.action \in {"PUSH", "DELETE_LOCAL", "DELETE_REMOTE"} =>
                     seen = remote /\ ~config.serverOffline
               /\ v.action = "PULL" => (NeedsCapture(local, remote) => v.capture = "local")
               /\ v.action = "PUSH" => (NeedsCapture(remote, local) => v.capture = "remote")
               /\ (v.action = "DELETE_LOCAL" /\ local # NoSide) => v.capture = "local"
               /\ (v.action = "DELETE_REMOTE" /\ remote # NoSide) => v.capture = "remote"
               /\ v.action = "PUSH" => local # NoSide
               /\ config.mode = "last_write_wins" =>
                    /\ (local # NoSide /\ v.action = "DELETE_LOCAL") =>
                         base # NoSide /\ SameContent(local, base)
                    /\ (remote # NoSide /\ v.action = "DELETE_REMOTE") =>
                         base # NoSide /\ SameContent(remote, base)
<1> DEFINE v == VerdictFor(seen)
<1>1. v.action \in Transfers => v = DecideCore(local, seen, base, config)
  BY DecideMoves DEF VerdictFor
<1>2. v.action \in Transfers /\ config.serverOffline => v.action = "PULL"
  BY DecideMoves DEF VerdictFor
<1>3. seen \in {remote, NoSide} /\ (~config.serverOffline => seen = remote)
  BY DEF SeenRemote
<1> HIDE DEF v
<1>4. CASE v.action = "PULL"
  <2>1. seen # NoSide /\ (NeedsCapture(local, seen) => v.capture = "local")
    BY <1>1, <1>4, CoreVerdict DEF Transfers
  <2> QED
    BY <1>3, <1>4, <2>1 DEF v
<1>5. CASE v.action \in {"PUSH", "DELETE_LOCAL", "DELETE_REMOTE"}
  <2>1. seen = remote /\ ~config.serverOffline
    BY <1>2, <1>3, <1>5 DEF Transfers
  <2>2. v = DecideCore(local, remote, base, config)
    BY <1>1, <1>5, <2>1 DEF Transfers
  <2> QED
    BY <1>5, <2>1, <2>2, CoreVerdict DEF v
<1> QED
  BY <1>4, <1>5 DEF v

\* only a transfer moves anything
LEMMA ReconcileSides ==
    ASSUME NEW seen \in SeenRemote, NEW v,
           local' = LocalAfter(v, seen), remote' = RemoteAfter(v)
    PROVE  /\ local' = (IF v.action = "PULL" THEN seen
                        ELSE IF v.action = "DELETE_LOCAL" THEN NoSide ELSE local)
           /\ remote' = (IF v.action = "PUSH" THEN local
                         ELSE IF v.action = "DELETE_REMOTE" THEN NoSide ELSE remote)
BY DEF LocalAfter, RemoteAfter

\* a step that edits nothing is a reconciliation or leaves both sides alone
LEMMA QuietStep ==
    ASSUME TypeInv, [Next]_vars, edits' = edits
    PROVE  Reconcile \/ UNCHANGED <<local, remote>>
<1>1. edits + 1 # edits
  BY DEF TypeInv
<1> QED
  BY <1>1 DEF Next, vars, EditLocal, EditRemote, ConditionsChange, Capture, RunCapture

(* An unreachable server's empty listing removes nothing from either side  *)
(* (the comment on NEEDS_A_REACHABLE_SERVER).                              *)
THEOREM NothingGoesOffline == Spec => OfflineDestroysNothing
<1>1. ASSUME TypeInv, [Next]_vars, config.serverOffline, edits' = edits
      PROVE  remote' = remote /\ (local # NoSide => local' # NoSide)
  <2>1. CASE Reconcile
    <3>1. PICK seen \in SeenRemote :
            local' = LocalAfter(VerdictFor(seen), seen) /\ remote' = RemoteAfter(VerdictFor(seen))
      BY <2>1 DEF Reconcile
    <3> QED
      BY <1>1, <3>1, ReconcileMoves, ReconcileSides
  <2> QED
    BY <1>1, <2>1, QuietStep
<1>2. TypeInv /\ [Next]_vars =>
        [(config.serverOffline /\ edits' = edits) =>
            remote' = remote /\ (local # NoSide => local' # NoSide)]_vars
  BY <1>1
<1> QED
  BY <1>2, SharesAreTyped, PTL DEF Spec, OfflineDestroysNothing

(* Under last_write_wins what a reconciliation deletes is what both sides  *)
(* last agreed on: resolveWinner never lets a deletion beat an edit.       *)
THEOREM EditsBeatDeletes == Spec => DeleteNeverBeatsAnEdit
<1>1. ASSUME TypeInv, [Next]_vars, edits' = edits, config.mode = "last_write_wins"
      PROVE  /\ (local # NoSide /\ local' = NoSide) => (base # NoSide /\ SameContent(local, base))
             /\ (remote # NoSide /\ remote' = NoSide) => (base # NoSide /\ SameContent(remote, base))
  <2>1. CASE Reconcile
    <3>1. PICK seen \in SeenRemote :
            local' = LocalAfter(VerdictFor(seen), seen) /\ remote' = RemoteAfter(VerdictFor(seen))
      BY <2>1 DEF Reconcile
    <3> QED
      BY <1>1, <3>1, ReconcileMoves, ReconcileSides
  <2> QED
    BY <1>1, <2>1, QuietStep
<1>2. TypeInv /\ [Next]_vars =>
        [(edits' = edits /\ config.mode = "last_write_wins") =>
           /\ (local # NoSide /\ local' = NoSide) => (base # NoSide /\ SameContent(local, base))
           /\ (remote # NoSide /\ remote' = NoSide) => (base # NoSide /\ SameContent(remote, base))]_vars
  BY <1>1
<1> QED
  BY <1>2, SharesAreTyped, PTL DEF Spec, DeleteNeverBeatsAnEdit

-----------------------------------------------------------------------------
(* Nothing that somebody wrote is lost but to a capture that came too      *)
(* late.  It is inductive with the types: a side that is overwritten was   *)
(* handed over by name, or is what it is overwritten by.                   *)

LEMMA LossInit == Init => LostOnlyToACapture
BY DEF Init, LostOnlyToACapture, Present

LEMMA LossReconcile == TypeInv /\ LostOnlyToACapture /\ Reconcile => LostOnlyToACapture'
<1> SUFFICES ASSUME TypeInv, LostOnlyToACapture, NEW seen \in SeenRemote,
                    LET v == VerdictFor(seen)
                    IN  /\ \/ vault' = vault \cup Captured(v, seen) /\ missed' = missed
                           \/ vault' = vault /\ missed' = missed \cup Captured(v, seen)
                        /\ local' = LocalAfter(v, seen)
                        /\ remote' = RemoteAfter(v)
                        /\ live' = live,
                    NEW x \in live
             PROVE  x \in {local', remote'} \cup vault' \cup missed'
  BY DEF Reconcile, HandOver, LostOnlyToACapture
<1> DEFINE v == VerdictFor(seen)
<1>1. x # NoSide /\ x \in {local, remote} \cup vault \cup missed
  BY DEF TypeInv, LostOnlyToACapture
<1>2. /\ v.capture = "local" => Present(local) \subseteq vault' \cup missed'
      /\ v.capture = "remote" => Present(seen) \subseteq vault' \cup missed'
      /\ vault \cup missed \subseteq vault' \cup missed'
  BY DEF Captured
<1>3. /\ local' = (IF v.action = "PULL" THEN seen
                   ELSE IF v.action = "DELETE_LOCAL" THEN NoSide ELSE local)
      /\ remote' = (IF v.action = "PUSH" THEN local
                    ELSE IF v.action = "DELETE_REMOTE" THEN NoSide ELSE remote)
  BY ReconcileSides
<1>4. /\ NeedsCapture(local, remote) \/ local = NoSide \/ local = remote \/ remote = NoSide
      /\ NeedsCapture(remote, local) \/ remote = NoSide \/ local = remote \/ local = NoSide
  BY SameIsEqual DEF NeedsCapture, TypeInv
<1>5. CASE v.action = "PULL"
  <2>1. seen = remote /\ remote # NoSide /\ (NeedsCapture(local, remote) => v.capture = "local")
    BY <1>5, ReconcileMoves
  <2> QED
    BY <1>1, <1>2, <1>3, <1>4, <1>5, <2>1 DEF Present
<1>6. CASE v.action = "PUSH"
  <2>1. seen = remote /\ local # NoSide /\ (NeedsCapture(remote, local) => v.capture = "remote")
    BY <1>6, ReconcileMoves
  <2> QED
    BY <1>1, <1>2, <1>3, <1>4, <1>6, <2>1 DEF Present
<1>7. CASE v.action \in {"DELETE_LOCAL", "DELETE_REMOTE"}
  <2>1. /\ seen = remote
        /\ (v.action = "DELETE_LOCAL" /\ local # NoSide) => v.capture = "local"
        /\ (v.action = "DELETE_REMOTE" /\ remote # NoSide) => v.capture = "remote"
    BY <1>7, ReconcileMoves
  <2> QED
    BY <1>1, <1>2, <1>3, <1>7, <2>1 DEF Present
<1>8. CASE v.action \notin Transfers
  BY <1>1, <1>2, <1>3, <1>8 DEF Transfers
<1> QED
  BY <1>5, <1>6, <1>7, <1>8 DEF Transfers

LEMMA LossEdit == LostOnlyToACapture /\ (EditLocal \/ EditRemote) => LostOnlyToACapture'
BY DEF LostOnlyToACapture, EditLocal, EditRemote, versions, Present

(* No verdict destroys a content that was not handed to the versioning     *)
(* engine by name first: what is lost is lost to the capture.              *)
THEOREM LossesAreMissedCaptures == Spec => []LostOnlyToACapture
<1>1. TypeInv /\ LostOnlyToACapture /\ [Next]_vars => LostOnlyToACapture'
  <2>1. LostOnlyToACapture /\ (ConditionsChange \/ UNCHANGED vars) => LostOnlyToACapture'
    BY DEF LostOnlyToACapture, ConditionsChange, versions, vars
  <2>2. LostOnlyToACapture /\ Capture => LostOnlyToACapture'
    BY DEF LostOnlyToACapture, Capture, RunCapture
  <2> QED
    BY <2>1, <2>2, LossReconcile, LossEdit DEF Next
<1> QED
  BY <1>1, LossInit, SharesAreTyped, PTL DEF Spec

-----------------------------------------------------------------------------
(* The table plays no favourites.                                          *)

MirrorSide(s) == CASE s = "local" -> "remote" [] s = "remote" -> "local" [] OTHER -> s

\* outside a tie the winner of the mirrored conflict is the mirrored winner
LEMMA WinnerMirrors ==
    ASSUME NEW l \in Sides, NEW r \in Sides, NEW c \in Settings, l # NoSide \/ r # NoSide,
           (l # NoSide /\ r # NoSide) =>
              l.mtime - r.mtime \notin (- c.tolerance)..c.tolerance,
           NEW m, m.mode = MirrorMode(c.mode), m.tolerance = c.tolerance
    PROVE  Winner(r, l, m) = MirrorSide(Winner(l, r, c))
<1>1. CASE c.mode = "machine_wins"
  BY <1>1 DEF Winner, MirrorMode, MirrorSide
<1>2. CASE c.mode = "server_wins"
  BY <1>2 DEF Winner, MirrorMode, MirrorSide
<1>3. CASE c.mode = "last_write_wins"
  <2>1. m.mode = "last_write_wins"
    BY <1>3 DEF MirrorMode
  <2>2. CASE l = NoSide \/ r = NoSide
    BY <1>3, <2>1, <2>2 DEF Winner, MirrorSide
  <2>3. CASE l # NoSide /\ r # NoSide
    <3>1. l.mtime \in Int /\ r.mtime \in Int /\ c.tolerance \in Nat
      BY <2>3 DEF Sides, SidesOf, Settings
    <3>2. \/ l.mtime - r.mtime > c.tolerance
          \/ l.mtime - r.mtime < - c.tolerance
      BY <2>3, <3>1
    <3>3. (l.mtime - r.mtime >= - c.tolerance) <=> ~(r.mtime - l.mtime >= - c.tolerance)
      BY <3>1, <3>2
    <3> QED
      BY <1>3, <2>1, <2>3, <3>3 DEF Winner, MirrorSide
  <2> QED
    BY <2>2, <2>3
<1> QED
  BY <1>1, <1>2, <1>3 DEF Settings, ConflictModes

LEMMA ConflictMirrors ==
    ASSUME NEW l \in Sides, NEW r \in Sides, NEW c \in Settings, l # NoSide \/ r # NoSide,
           (l # NoSide /\ r # NoSide) =>
              l.mtime - r.mtime \notin (- c.tolerance)..c.tolerance,
           NEW m, m.mode = MirrorMode(c.mode), m.tolerance = c.tolerance
    PROVE  ResolveConflict(r, l, m).action = MirrorAction(ResolveConflict(l, r, c).action)
<1>1. Winner(r, l, m) = MirrorSide(Winner(l, r, c))
  BY WinnerMirrors
<1>2. Winner(l, r, c) \in {"local", "remote"}
  BY DEF Winner
<1> QED
  BY <1>1, <1>2 DEF ResolveConflict, ConflictAction, MirrorAction, MirrorSide

LEMMA SameContentIsSymmetric ==
    ASSUME NEW a, NEW b
    PROVE  SameContent(a, b) <=> SameContent(b, a)
BY DEF SameContent

LEMMA CoreMirrors ==
    ASSUME NEW l \in Sides, NEW r \in Sides, NEW b \in Sides, NEW c \in Settings,
           (l # NoSide /\ r # NoSide) =>
              l.mtime - r.mtime \notin (- c.tolerance)..c.tolerance,
           NEW m, m.mode = MirrorMode(c.mode), m.tolerance = c.tolerance,
           m.protectDeletes = c.protectDeletes
    PROVE  DecideCore(r, l, b, m).action = MirrorAction(DecideCore(l, r, b, c).action)
<1> DEFINE lc == ClassifySide(l, b)
           rc == ClassifySide(r, b)
<1>1. /\ lc \in {"absent", "created", "deleted", "unchanged", "changed"}
      /\ rc \in {"absent", "created", "deleted", "unchanged", "changed"}
      /\ lc \in {"absent", "deleted"} <=> l = NoSide
      /\ rc \in {"absent", "deleted"} <=> r = NoSide
  BY DEF ClassifySide
<1> HIDE DEF lc, rc
<1>2. (l # NoSide \/ r # NoSide) =>
         ResolveConflict(r, l, m).action = MirrorAction(ResolveConflict(l, r, c).action)
  BY ConflictMirrors
<1>3. SameContent(r, l) <=> SameContent(l, r)
  BY SameContentIsSymmetric
<1>4. CASE lc = rc
  BY <1>1, <1>2, <1>3, <1>4, ZenonT(60) DEF DecideCore, Verdict, MirrorAction, lc, rc
<1>5. CASE lc # rc
  <2>1. CASE lc = "unchanged"
    BY <1>1, <1>2, <1>5, <2>1 DEF DecideCore, Verdict, MirrorAction, lc, rc
  <2>2. CASE rc = "unchanged"
    BY <1>1, <1>2, <1>5, <2>2 DEF DecideCore, Verdict, MirrorAction, lc, rc
  <2>3. CASE lc = "absent" \/ rc = "absent"
    BY <1>1, <1>2, <1>5, <2>3, ZenonT(60) DEF DecideCore, Verdict, MirrorAction, lc, rc
  <2>4. CASE {lc, rc} \subseteq {"created", "deleted", "changed"}
    <3>1. /\ DecideCore(l, r, b, c) = ResolveConflict(l, r, c)
          /\ DecideCore(r, l, b, m) = ResolveConflict(r, l, m)
          /\ l # NoSide \/ r # NoSide
      BY <1>1, <1>5, <2>4 DEF DecideCore, lc, rc
    <3> QED
      BY <1>2, <3>1
  <2> QED
    BY <1>1, <2>1, <2>2, <2>3, <2>4
<1> QED
  BY <1>4, <1>5

LEMMA TableMirrors == TypeInv => MirrorSymmetry
<1> SUFFICES ASSUME TypeInv, ~Tied, ~config.locked, ~config.serverOffline, ~config.readOnly
             PROVE  Decide(remote, local, base, [config EXCEPT !.mode = MirrorMode(@)]).action
                      = MirrorAction(Decide(local, remote, base, config).action)
  BY DEF MirrorSymmetry
<1> DEFINE m == [config EXCEPT !.mode = MirrorMode(@)]
<1>1. config \in Settings
  BY DEF TypeInv
<1>2. /\ m.mode = MirrorMode(config.mode) /\ m.tolerance = config.tolerance
      /\ m.protectDeletes = config.protectDeletes /\ m.maxFileSize = config.maxFileSize
      /\ m.excluded = config.excluded /\ m.caseCollision = config.caseCollision
      /\ ~m.locked /\ ~m.serverOffline /\ ~m.readOnly
  BY <1>1 DEF Settings
<1> HIDE DEF m
<1>3. DecideCore(remote, local, base, m).action
        = MirrorAction(DecideCore(local, remote, base, config).action)
  BY <1>1, <1>2, CoreMirrors DEF TypeInv, Tied
<1>4. ASSUME NEW v, NEW c, ~c.locked, ~c.serverOffline, ~c.readOnly
      PROVE  ApplyAvailabilityOverrides(v, c) = v
  BY <1>4 DEF ApplyAvailabilityOverrides, DeferForMachine, DeferForServer
<1>5. /\ ApplyAvailabilityOverrides(DecideCore(remote, local, base, m), m)
           = DecideCore(remote, local, base, m)
      /\ ApplyAvailabilityOverrides(DecideCore(local, remote, base, config), config)
           = DecideCore(local, remote, base, config)
  BY <1>2, <1>4
<1>6. Decide(remote, local, base, m).action
        = MirrorAction(Decide(local, remote, base, config).action)
  BY <1>2, <1>3, <1>5 DEF Decide, Verdict, MirrorAction
<1> QED
  BY <1>6 DEF m

(* Exchanging the sides, and which of them the mode prefers, exchanges the *)
(* verdict: nothing in decideCore is written for one side only.            *)
THEOREM NoSideIsFavoured == Spec => []MirrorSymmetry
BY TableMirrors, SharesAreTyped, PTL
=============================================================================
