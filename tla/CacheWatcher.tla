---------------------------- MODULE CacheWatcher ----------------------------
(***************************************************************************)
(* The watcher of a share's cache, sync/cache-watcher.ts.                  *)
(*                                                                         *)
(* A file is an object, its inode, and a look, its size and time.  Outside *)
(* src/: chokidar, which tells of a difference between what it told last   *)
(* and what is there once a file is quiet, in no order among paths.        *)
(* Timers fire in any order.  The listener takes an inventory when the     *)
(* watch begins, and again whenever it is asked to.                        *)
(***************************************************************************)
EXTENDS Naturals

CONSTANTS CachePaths, Looks, None,
          MaxTouches,   \* bound: changes of the cache
          MaxLosses     \* bound: watches lost, with the limit or the root

VARIABLES
    cache,       \* cache[p]: object and look, None for nothing
    root,        \* watched, gone, or there again and not watched
    told,        \* what chokidar told last
    opening,     \* why watchers are to be opened: the limit, the root; or one indexes
    phase,       \* off, priming, on
    degraded, rootMissing,
    known,       \* known[p]: what the watcher saw last, or None
    debounces,   \* debounces[p]: the look in the event that waits, or None
    unlinked,    \* pendingUnlinks[p]: what was there, or None
    heard,       \* heard[p]: the look the listener believes is there, or None
    inodes,      \* the filesystem has inodes that can be used
    revived,     \* paths that came back inside their rename window
    unseen,      \* paths that changed while nothing was watched
    objects, touches, losses

watcherVars == <<cache, root, told, opening, phase, degraded, rootMissing, known, debounces,
                 unlinked, heard, inodes, revived, unseen, objects, touches, losses>>

Nothing == [p \in CachePaths |-> None]
LookOf(x) == IF x = None THEN None ELSE x.look
Inventory == [p \in CachePaths |-> LookOf(cache[p])]

Init ==
    /\ cache \in [CachePaths -> {None} \cup [object : {1}, look : Looks]]
    /\ \A p, q \in CachePaths : cache[p] # None /\ cache[q] # None => p = q
    /\ root = "watched" /\ told = Nothing
    /\ opening = {} /\ phase = "off" /\ degraded = FALSE /\ rootMissing = FALSE
    /\ known = Nothing /\ debounces = Nothing /\ unlinked = Nothing /\ heard = Nothing
    /\ inodes \in BOOLEAN /\ revived = {} /\ unseen = {}
    /\ objects = 1 /\ touches = 0 /\ losses = 0

-----------------------------------------------------------------------------
(* What chokidar tells, and what is made of it.                            *)

SameContent(a, b) == a.look = b.look
SameFile(a, b) == IF inodes THEN a.object = b.object ELSE SameContent(a, b)

CancelDebounce(p) == [debounces EXCEPT ![p] = None]

\* the unlinks this could be the other half of
PendingRename(seen) ==
    {q \in CachePaths : unlinked[q] # None /\ SameFile(unlinked[q], seen)}

Revives(paths) == revived' = revived \cup {p \in paths : unlinked[p] # None}

Renamed(from, p, seen) ==
    /\ unlinked' = [unlinked EXCEPT ![from] = None]
    /\ known' = [known EXCEPT ![from] = None, ![p] = seen]
    /\ debounces' = CancelDebounce(p)
    /\ heard' = [heard EXCEPT ![from] = None, ![p] = seen.look]
    /\ Revives({p} \ {from})

\* the same again is not news; anything else waits for what may still follow
Noticed(p, seen) ==
    /\ known' = [known EXCEPT ![p] = seen]
    /\ debounces' = IF known[p] # None /\ SameContent(known[p], seen) THEN debounces
                    ELSE [debounces EXCEPT ![p] = seen.look]
    /\ Revives({p})
    /\ UNCHANGED <<unlinked, heard>>

OnAdd(p, seen) ==
    IF phase = "priming"
    THEN known' = [known EXCEPT ![p] = seen] /\ UNCHANGED <<debounces, unlinked, heard, revived>>
    ELSE \/ \E from \in PendingRename(seen) : Renamed(from, p, seen)
         \/ PendingRename(seen) = {} /\ Noticed(p, seen)

OnChange(p, seen) == Noticed(p, seen)

Unlinked(p) ==
    /\ known' = [known EXCEPT ![p] = None]
    /\ IF known[p] = None
       THEN heard' = [heard EXCEPT ![p] = None] /\ UNCHANGED unlinked
       ELSE unlinked' = [unlinked EXCEPT ![p] = known[p]] /\ UNCHANGED heard
    /\ UNCHANGED revived

\* mutant: the event that waits is left to fire
OnUnlinkLate(p) == UNCHANGED debounces /\ Unlinked(p)
OnUnlink(p) == debounces' = CancelDebounce(p) /\ Unlinked(p)

Untold == {p \in CachePaths : told[p] # cache[p]}
watch == <<root, opening, phase, degraded, rootMissing>>
world == <<cache, inodes, unseen, objects, touches, losses>>

Tell(p) ==
    /\ phase # "off" /\ root # "again" /\ opening \subseteq {"index"} /\ told[p] # cache[p]
    /\ told' = [told EXCEPT ![p] = cache[p]]
    /\ IF cache[p] = None THEN OnUnlink(p)
       ELSE IF told[p] = None THEN OnAdd(p, cache[p])
       ELSE OnChange(p, cache[p])
    /\ UNCHANGED <<watch, world>>

DebounceFires(p) ==
    /\ debounces[p] # None
    /\ heard' = [heard EXCEPT ![p] = debounces[p]]
    /\ debounces' = CancelDebounce(p)
    /\ UNCHANGED <<watch, told, known, unlinked, revived, world>>

UnlinkFires(p) ==
    /\ unlinked[p] # None
    /\ heard' = [heard EXCEPT ![p] = None]
    /\ unlinked' = [unlinked EXCEPT ![p] = None]
    /\ UNCHANGED <<watch, told, known, debounces, revived, world>>

-----------------------------------------------------------------------------
(* The watch itself.                                                       *)

events == <<known, debounces, unlinked, revived>>

Start ==
    /\ phase = "off" /\ phase' = "priming"
    /\ UNCHANGED <<root, opening, degraded, rootMissing, told, events, heard, world>>

\* the tree has been indexed, and the listener takes its inventory
Ready ==
    /\ phase = "priming" /\ root = "watched" /\ told = cache
    /\ phase' = "on" /\ heard' = Inventory
    /\ UNCHANGED <<root, opening, degraded, rootMissing, told, events, world>>

Stop ==
    /\ phase # "off" /\ phase' = "off"
    /\ debounces' = Nothing /\ unlinked' = Nothing
    /\ told' = Nothing /\ unseen' = unseen \cup Untold
    /\ UNCHANGED <<root, opening, degraded, rootMissing, known, revived, heard, cache, inodes,
                   objects, touches, losses>>

\* no more watches: it goes on by polling, with another watcher
LimitReached ==
    /\ phase = "on" /\ ~degraded /\ losses < MaxLosses /\ losses' = losses + 1
    /\ degraded' = TRUE /\ opening' = opening \cup {"limit"}
    /\ unseen' = unseen \cup Untold
    /\ UNCHANGED <<root, phase, rootMissing, told, events, heard, cache, inodes, objects, touches>>

\* asked every few seconds; a root that came back between two checks was never missed
\* mutant: what was missing is no longer, and that is all
CheckRootForgets ==
    /\ phase # "off" /\ rootMissing' = (root = "gone") /\ rootMissing' # rootMissing
    /\ UNCHANGED <<root, opening, phase, degraded, told, events, heard, world>>
CheckRoot ==
    /\ phase # "off" /\ rootMissing' = (root = "gone") /\ rootMissing' # rootMissing
    /\ IF rootMissing THEN opening' = opening \cup {"root"} /\ unseen' = unseen \cup Untold
       ELSE UNCHANGED <<opening, unseen>>
    /\ UNCHANGED <<root, phase, degraded, told, events, heard, cache, inodes, objects, touches, losses>>

\* what a watcher that is opened again takes for told: all of what is there, or nothing
Retold(why) == IF why = "limit" THEN cache ELSE Nothing
reopened == <<phase, degraded, rootMissing, events, world>>
Reopens(why) ==
    /\ why \in opening /\ phase = "on" /\ root # "gone"
    /\ opening' = (opening \ {why}) \cup {"index"} /\ root' = "watched"
    /\ told' = Retold(why) /\ UNCHANGED <<heard, reopened>>
(* It has indexed the tree, telling what it finds, and a rescan is         *)
(* required.                                                               *)
Reopened ==
    /\ "index" \in opening /\ phase = "on" /\ told = cache
    /\ opening' = opening \ {"index"}
    /\ heard' = Inventory /\ UNCHANGED <<root, told, reopened>>

-----------------------------------------------------------------------------
(* Programs, machines, and whoever removes the directory.                  *)
Blind == phase # "on" \/ opening # {} \/ root # "watched"
Changed == {p \in CachePaths : cache'[p] # cache[p]}
Touched ==
    /\ touches < MaxTouches /\ touches' = touches + 1
    /\ unseen' = IF Blind THEN unseen \cup Changed ELSE unseen
    /\ UNCHANGED <<watch, told, events, heard, inodes, losses>>

Write(p, look) ==
    /\ root # "gone" /\ LookOf(cache[p]) # look
    /\ \/ /\ cache[p] # None /\ cache' = [cache EXCEPT ![p].look = look]
          /\ UNCHANGED objects
       \/ /\ objects' = objects + 1
          /\ cache' = [cache EXCEPT ![p] = [object |-> objects', look |-> look]]
    /\ Touched
Remove(p) ==
    /\ cache[p] # None /\ cache' = [cache EXCEPT ![p] = None]
    /\ Touched /\ UNCHANGED objects
Rename(p, q) ==
    /\ cache[p] # None /\ p # q
    /\ cache' = [cache EXCEPT ![p] = None, ![q] = cache[p]]
    /\ Touched /\ UNCHANGED objects
\* the watch ends with the directory; what it still tells is that all is gone
RemoveRoot ==
    /\ root = "watched" /\ phase = "on" /\ losses < MaxLosses /\ losses' = losses + 1
    /\ root' = "gone" /\ cache' = Nothing
    /\ unseen' = unseen \cup Changed \cup Untold
    /\ UNCHANGED <<opening, phase, degraded, rootMissing, told, events, heard, inodes, objects, touches>>

RestoreRoot ==
    /\ root = "gone" /\ root' = "again"
    /\ UNCHANGED <<cache, opening, phase, degraded, rootMissing, told, events, heard, inodes, unseen,
                   objects, touches, losses>>

Timers == \E p \in CachePaths : DebounceFires(p) \/ UnlinkFires(p)
Next ==
    \/ \E p \in CachePaths : Tell(p)
    \/ Timers \/ Start \/ Ready \/ Stop \/ LimitReached \/ CheckRoot \/ (\E why \in {"limit", "root"} : Reopens(why)) \/ Reopened
    \/ \E p \in CachePaths : Remove(p) \/ (\E look \in Looks : Write(p, look))
                                      \/ (\E q \in CachePaths : Rename(p, q))
    \/ RemoveRoot \/ RestoreRoot

Spec == Init /\ [][Next]_watcherVars

-----------------------------------------------------------------------------
Found == [object : Nat, look : Looks]

\* what the constants are asked for
NoneIsNothing == None \notin Looks /\ None \notin Found

TypeOK ==
    /\ {root, phase} \subseteq {"watched", "gone", "again", "off", "priming", "on"}
    /\ \A p \in CachePaths : /\ {heard[p], debounces[p]} \subseteq Looks \cup {None}
                             /\ \A x \in {cache[p], told[p], known[p], unlinked[p]} :
                                  x # None => x.object \in 1..objects /\ x.look \in Looks
    /\ opening \subseteq {"limit", "root", "index"} /\ revived \cup unseen \subseteq CachePaths

(* When nothing waits, the listener has been told of every change, unless  *)
(* the path came back inside its rename window, where its removal is told  *)
(* after its return; or changed while nothing was watched, where a look    *)
(* the watcher remembers makes it take the path for the same as before.    *)
AtRest == /\ phase = "on" /\ root = "watched" /\ opening = {} /\ told = cache
          /\ debounces = Nothing /\ unlinked = Nothing
ListenerIsToldAll ==
    AtRest => \A p \in CachePaths \ (revived \cup unseen) : heard[p] = LookOf(cache[p])

(* A root that was found missing and is there again is watched again.      *)
HearsAgain == (rootMissing /\ root = "again") ~> (root = "watched" \/ phase # "on")
=============================================================================
