---------------------------- MODULE ServerScanner ----------------------------
(***************************************************************************)
(* The scanner of one side of a share: the walk of sync/scan-worker.cjs in *)
(* a thread of its own, the index and the loop of sync/server-scanner.ts.  *)
(*                                                                         *)
(* A path is a directory or a file for good; what is seen of a file is one *)
(* value for its size and time.  The walk takes its steps between those of *)
(* the office, who adds, edits and removes.                                *)
(***************************************************************************)
EXTENDS Naturals, FiniteSets, Sequences

CONSTANTS Dirs, Files, Root,
          Parent,        \* the directory a path is in
          Looks,         \* what a stat of a file may answer
          Ceilings,      \* maxEntries
          ChunkSize, None,
          MaxTouches,    \* bound: changes the office makes
          MaxSkips,      \* bound: entries that cannot be read
          MaxBreaks,     \* bound: walks that break, crash or take too long
          MaxLoops       \* bound: starts of the scanner

VARIABLES
    tree,        \* tree[p]: what is there, None for nothing
    index,       \* FileIndex.entries: what the index holds of a path, or None
    stamped,     \* the paths that carry the generation of the last scan
    scan,        \* the scan in flight, None if there is none
    view,        \* what a listener to the change events believes is there
    timers,      \* ticks that are due
    stopped,
    closed,      \* WorkerScanWalker.closed
    stopping,    \* stop() waits for the scan in flight
    ceiling,
    touches, skips, breaks, loops

scannerVars == <<tree, index, stamped, scan, view, timers, stopped, closed, stopping,
                 ceiling, touches, skips, breaks, loops>>

Paths == Dirs \cup Files
LooksOf(p) == IF p \in Dirs THEN {"dir"} ELSE Looks
Inside(d) == {p \in Paths : Parent[p] = d}
\* whatever is in it, at any depth: in every set that holds all of a directory it holds
Beneath(d) ==
    {p \in Paths : \A S \in SUBSET Paths :
        (Inside(d) \subseteq S /\ \A e \in S : Inside(e) \subseteq S) => p \in S}
Running == scan # None

Init ==
    /\ tree \in [Paths -> {None, "dir"} \cup Looks]
    /\ \A p \in Paths : /\ tree[p] \in LooksOf(p) \cup {None}
                        /\ tree[p] # None /\ Parent[p] # Root => tree[Parent[p]] # None
    /\ index = [p \in Paths |-> None] /\ stamped = {}
    /\ scan = None /\ view = [p \in Paths |-> None]
    /\ timers = 0 /\ stopped = TRUE /\ closed = FALSE /\ stopping = FALSE
    /\ ceiling \in Ceilings
    /\ touches = 0 /\ skips = 0 /\ breaks = 0 /\ loops = 0

-----------------------------------------------------------------------------
(* The index.                                                              *)

\* observe, of the entries of a chunk; a change is a path, and what is there now
Observed(i, chunk) ==
    [p \in Paths |-> IF \E e \in chunk : e.path = p THEN (CHOOSE e \in chunk : e.path = p).look
                    ELSE i[p]]
PathsOf(chunk) == {e.path : e \in chunk}
Changed(i, chunk) == {e \in chunk : i[e.path] # e.look}

\* reap: whatever does not carry the stamp of this scan
\* mutant: after a walk that stopped at its ceiling too
ReapedAlways(s, stamps) == {p \in Paths : index[p] # None} \ stamps
Reaped(s, stamps) == IF s.truncated THEN {} ELSE {p \in Paths : index[p] # None} \ stamps

-----------------------------------------------------------------------------
(* The walk.                                                               *)

FirstStep(by) ==
    [by |-> by, queue |-> <<Root>>, dirents |-> {}, count |-> 0, chunk |-> {},
     changes |-> {}, truncated |-> FALSE,
     gone |-> {p \in Paths : tree[p] = None},   \* not there at some time of the walk
     hidden |-> {}]                             \* not readable when the walk came by

\* mutant: and goes on with the full one
EmitKeeps(s, p) ==
    LET chunk == s.chunk \cup {[path |-> p, look |-> IF p \in Dirs THEN "dir" ELSE tree[p]]}
    IN  /\ index' = Observed(index, chunk) /\ stamped' = stamped \cup PathsOf(chunk)
        /\ scan' = [s EXCEPT !.chunk = chunk, !.changes = @ \cup Changed(index, chunk)]
\* emit: a chunk that is full is handed over, and observed at once
Emit(s, p) ==
    LET chunk == s.chunk \cup {[path |-> p, look |-> IF p \in Dirs THEN "dir" ELSE tree[p]]}
    IN  IF Cardinality(chunk) >= ChunkSize
        THEN /\ index' = Observed(index, chunk)
             /\ stamped' = stamped \cup PathsOf(chunk)
             /\ scan' = [s EXCEPT !.chunk = {}, !.changes = @ \cup Changed(index, chunk)]
        ELSE /\ scan' = [s EXCEPT !.chunk = chunk]
             /\ UNCHANGED <<index, stamped>>

loop == <<timers, stopped, closed, stopping, loops>>

\* what readdir says of a directory; one below the root may refuse, and is passed over
ReadDirectory ==
    /\ Running /\ scan.dirents = {} /\ scan.queue # <<>>
    /\ LET d == Head(scan.queue)
           s == [scan EXCEPT !.queue = Tail(@)]
       IN  \/ /\ scan' = [s EXCEPT !.dirents = {p \in Inside(d) : tree[p] # None}]
              /\ UNCHANGED skips
           \/ /\ d # Root /\ skips < MaxSkips
              /\ skips' = skips + 1
              /\ scan' = [s EXCEPT !.hidden = @ \cup Beneath(d)]
    /\ UNCHANGED <<tree, index, stamped, view, loop, ceiling, touches, breaks>>

\* one entry: a directory is not asked again, a file may be gone or refuse by now
TakeEntry ==
    /\ Running
    /\ \E p \in scan.dirents :
         LET s == [scan EXCEPT !.dirents = @ \ {p}]
             counted == [s EXCEPT !.count = @ + 1]
         IN  \/ /\ p \in Dirs
                /\ Emit([counted EXCEPT !.queue = Append(@, p)], p)
                /\ UNCHANGED skips
             \/ /\ p \in Files /\ tree[p] # None
                /\ Emit(IF counted.count < ceiling THEN counted
                        ELSE [counted EXCEPT !.truncated = TRUE, !.queue = <<>>, !.dirents = {}], p)
                /\ UNCHANGED skips
             \/ /\ p \in Files /\ tree[p] = None
                /\ scan' = s
                /\ UNCHANGED <<index, stamped, skips>>
             \/ /\ p \in Files /\ skips < MaxSkips
                /\ skips' = skips + 1
                /\ scan' = [s EXCEPT !.hidden = @ \cup {p}]
                /\ UNCHANGED <<index, stamped>>
    /\ UNCHANGED <<tree, view, loop, ceiling, touches, breaks>>

\* after a scan the tick that began it sets the next timer, and stop() may go on
Rescheduled(by) ==
    /\ timers' = IF by = "tick" /\ ~stopped THEN timers + 1 ELSE timers
    /\ closed' = (closed \/ (stopping /\ by = "tick"))
    /\ stopping' = (stopping /\ by # "tick")

(* The walk is over: what is left of the chunk is observed, what was not   *)
(* seen is reaped, and every change is announced.                          *)
Complete ==
    /\ Running /\ scan.dirents = {} /\ scan.queue = <<>>
    /\ stamped' = stamped \cup PathsOf(scan.chunk)
    /\ LET seen == Observed(index, scan.chunk)
           changes == scan.changes \cup Changed(index, scan.chunk)
           reaped == Reaped(scan, stamped')
       IN  /\ index' = [p \in Paths |-> IF p \in reaped THEN None ELSE seen[p]]
           /\ view' = [p \in Paths |-> IF p \in reaped THEN None
                                      ELSE IF p \in PathsOf(changes) THEN seen[p]
                                      ELSE view[p]]
    /\ scan' = None
    /\ Rescheduled(scan.by)
    /\ UNCHANGED <<tree, stopped, ceiling, touches, skips, breaks, loops>>

\* the root is not there, an error that is not passed over, the limit, a dead thread
Break ==
    /\ Running
    /\ closed \/ breaks < MaxBreaks
    /\ breaks' = IF closed THEN breaks ELSE breaks + 1
    /\ scan' = None
    /\ Rescheduled(scan.by)
    /\ UNCHANGED <<tree, index, stamped, view, stopped, ceiling, touches, skips, loops>>

-----------------------------------------------------------------------------
(* The loop.                                                               *)

Begin(by) ==
    /\ stamped' = {}   \* a new generation
    /\ scan' = FirstStep(by)

Tick ==
    /\ timers > 0
    /\ IF stopped THEN timers' = timers - 1 /\ UNCHANGED <<scan, stamped>>
       ELSE IF Running THEN UNCHANGED <<timers, scan, stamped>>
       ELSE timers' = timers - 1 /\ Begin("tick")
    /\ UNCHANGED <<tree, index, view, stopped, closed, stopping, ceiling, touches, skips,
                   breaks, loops>>

\* its owner may ask for a scan, and is refused while there is one
ScanOnce ==
    /\ ~Running /\ Begin("owner")
    /\ loops < MaxLoops /\ loops' = loops + 1
    /\ UNCHANGED <<tree, index, view, timers, stopped, closed, stopping, ceiling, touches, skips,
                   breaks>>

Start ==
    /\ stopped /\ loops < MaxLoops /\ loops' = loops + 1
    /\ stopped' = FALSE /\ timers' = timers + 1
    /\ UNCHANGED <<tree, index, stamped, scan, view, closed, stopping, ceiling, touches,
                   skips, breaks>>

\* the timer set last is cleared, and the scan a tick began is waited for
Stop ==
    /\ ~stopped
    /\ stopped' = TRUE
    /\ timers' = IF timers > 0 THEN timers - 1 ELSE 0
    /\ LET waits == Running /\ scan.by = "tick"
       IN  stopping' = waits /\ closed' = (closed \/ ~waits)
    /\ UNCHANGED <<tree, index, stamped, scan, view, ceiling, touches, skips, breaks, loops>>

(* The office, on another machine: nothing tells the bridge.               *)
Touch ==
    /\ touches < MaxTouches /\ touches' = touches + 1
    /\ \E p \in Paths, look \in Looks \cup {None, "dir"} :
         /\ look \in LooksOf(p) \cup {None} /\ look # tree[p]
         /\ look # None /\ Parent[p] # Root => tree[Parent[p]] # None
         /\ tree' = [q \in Paths |-> IF q = p THEN look
                                    ELSE IF look = None /\ q \in Beneath(p) THEN None ELSE tree[q]]
    /\ scan' = IF Running THEN [scan EXCEPT !.gone = @ \cup {p \in Paths : tree'[p] = None}]
               ELSE scan
    /\ UNCHANGED <<index, stamped, view, loop, ceiling, skips, breaks>>

Walk == ReadDirectory \/ TakeEntry \/ Complete
Next == Walk \/ Break \/ Tick \/ ScanOnce \/ Start \/ Stop \/ Touch

Spec == Init /\ [][Next]_scannerVars

-----------------------------------------------------------------------------
Entries == [path : Paths, look : Looks \cup {"dir"}]
Walks == [by : {"tick", "owner"}, queue : Seq(Dirs \cup {Root}), dirents : SUBSET Paths, count : Nat,
          chunk : SUBSET Entries, changes : SUBSET Entries, truncated : BOOLEAN,
          gone : SUBSET Paths, hidden : SUBSET Paths]

\* what the constants are asked for: every path has a way up to the root
TreeIsSound ==
    /\ ChunkSize \in Nat
    /\ Parent \in [Paths -> Dirs \cup {Root}] /\ Root \notin Paths /\ Dirs \cap Files = {}
    /\ \A S \in (SUBSET Paths) \ {{}} : \E p \in S : Parent[p] \notin S
    /\ None \notin Looks \cup {"dir"} /\ None \notin Walks

TypeOK ==
    /\ \A p \in Paths : {tree[p], view[p], index[p]} \subseteq LooksOf(p) \cup {None}
    /\ stamped \subseteq {p \in Paths : index[p] # None}
    /\ Running => /\ \A i \in 1..Len(scan.queue) : scan.queue[i] \in Dirs \cup {Root}
                  /\ scan.chunk # {} => Cardinality(scan.chunk) < ChunkSize
    /\ timers \in 0..loops /\ {stopped, closed, stopping} \subseteq BOOLEAN

(* "A deletion must be distinguishable from a failed scan": what a         *)
(* listener is told is gone was gone at some time of that walk, or could   *)
(* not be read by it.                                                      *)
RemovalsAreReal ==
    \A p \in Paths : view[p] # None /\ view'[p] = None => p \in scan.gone \cup scan.hidden

(* Between two scans a listener knows what the index holds, as long as no  *)
(* walk has broken: a walk that breaks has changed the index and tells     *)
(* nobody.                                                                 *)
ListenersKnowTheIndex ==
    ~Running /\ breaks = 0 /\ ~closed =>
        view = index

(* What a scanner that runs tells in the end: once the office leaves a     *)
(* share alone, what is there.                                             *)
TellsWhatIsThere ==
    (~stopped /\ ~closed /\ breaks = 0 /\ ceiling > Cardinality(Paths)) => view = tree
=============================================================================
