------------------------------ MODULE MCService ------------------------------
(***************************************************************************)
(* What the process is made of besides the shares: how it comes and goes,  *)
(* the two that watch a share for it, and what it tells others: pages, the *)
(* log and the monitors.  They share no variable here: one of them moves   *)
(* in a behaviour, focus, and the others stay as they began.               *)
(***************************************************************************)
EXTENDS Naturals

CONSTANT None

\* what each of them is checked for, and how often the world does what it does to it
CONSTANTS Dirs, Files, Root, Parent, Looks, Ceilings, ChunkSize,
          MaxTouches, MaxSkips, MaxBreaks, MaxLoops
CONSTANTS CachePaths, MaxCacheTouches, MaxLosses
CONSTANTS MaxFaults, MaxTroubles, MaxSignals, MaxKills
CONSTANTS Pages, BufferSize, MaxStreams, MaxEvents, MaxDrops, MaxRestarts, MaxMounts,
          MaxFailures, MaxAsks
CONSTANTS MaxFiles, PerFile, Torn, Sync, ListLimit, ReplayLimit, MaxLines, MaxEnds, MaxClicks
CONSTANTS Hour, Retained, Deadline, MaxTime, MaxPasses, MaxBegins, MaxChanges, MaxSteps

VARIABLE focus   \* never changes

VARIABLES tree, index, stamped, scan, view, timers, stopped, closed, stopping, ceiling,
          touches, skips, breaks, loops
VARIABLES cache, root, told, opening, phase, degraded, rootMissing, known, debounces,
          unlinked, heard, inodes, revived, unseen, objects, cacheTouches, losses
VARIABLES processPhase, at, up, stages, cleanups, ending, left, faults, troubles, signals, kills
VARIABLES table, published, nextId, buffer, ghosts, page, pipe, polling, asks, drops, restarts,
          mounts, failures
VARIABLES running, next, file, live, shift, wrote, rows, conn, feed, dropped, asked, paused,
          filter, logPage, offered, uses
VARIABLES now, disk, locked, passes, gauge, samples, readings, fresh, changes, begins
VARIABLES age, timer, lead, stuck, late, stepped, tooSoon, steps

\* a folder with a file, and a file beside it
ParentOf == [p \in {"folder", "inner", "outer"} |-> IF p = "inner" THEN "folder" ELSE "/"]

Scan  == INSTANCE ServerScanner
Watch == INSTANCE CacheWatcher WITH MaxTouches <- MaxCacheTouches, touches <- cacheTouches
Life  == INSTANCE Lifecycle WITH phase <- processPhase
Bus   == INSTANCE EventStream
Log   == INSTANCE Logging WITH page <- logPage
Mon   == INSTANCE Monitoring

ASSUME TreeAssumption == Scan!TreeIsSound
ASSUME LooksAssumption == Watch!NoneIsNothing
ASSUME BoundsAssumption == Bus!BoundsAreSound /\ Log!BoundsAreSound /\ Mon!BoundsAreSound

scannerVars == <<tree, index, stamped, scan, view, timers, stopped, closed, stopping, ceiling,
                 touches, skips, breaks, loops>>
watcherVars == <<cache, root, told, opening, phase, degraded, rootMissing, known, debounces,
                 unlinked, heard, inodes, revived, unseen, objects, cacheTouches, losses>>
lifecycleVars == <<processPhase, at, up, stages, cleanups, ending, left, faults, troubles,
                   signals, kills>>
streamVars == <<table, published, nextId, buffer, ghosts, page, pipe, polling, asks, drops,
                restarts, mounts, failures>>
logVars == <<running, next, file, live, shift, wrote, rows, conn, feed, dropped, asked,
             paused, filter, logPage, offered, uses>>
monitorVars == <<now, disk, locked, passes, gauge, samples, readings, fresh, changes, begins,
                 age, timer, lead, stuck, late, stepped, tooSoon, steps>>

-----------------------------------------------------------------------------
\* a part that does not move begins in one state only
ScannerRests == tree = view /\ \A c \in Ceilings : c <= ceiling
WatcherRests == cache = told /\ inodes

MCInit ==
    /\ focus \in {"scanner", "watcher", "process", "stream", "logs", "collector", "watchdog"}
    /\ Scan!Init /\ (focus # "scanner" => ScannerRests)
    /\ Watch!Init /\ (focus # "watcher" => WatcherRests)
    /\ Life!Init
    /\ Bus!Init /\ (focus # "stream" => polling = {})
    /\ Log!Init
    /\ Mon!MonitorInit

MCNext ==
    /\ UNCHANGED focus
    /\ \/ focus = "scanner" /\ Scan!Next
          /\ UNCHANGED <<watcherVars, lifecycleVars, streamVars, logVars, monitorVars>>
       \/ focus = "watcher" /\ Watch!Next
          /\ UNCHANGED <<scannerVars, lifecycleVars, streamVars, logVars, monitorVars>>
       \/ focus = "process" /\ Life!Next
          /\ UNCHANGED <<scannerVars, watcherVars, streamVars, logVars, monitorVars>>
       \/ focus = "stream" /\ Bus!Next
          /\ UNCHANGED <<scannerVars, watcherVars, lifecycleVars, logVars, monitorVars>>
       \/ /\ focus = "logs" /\ Log!Next
          /\ UNCHANGED <<scannerVars, watcherVars, lifecycleVars, streamVars, monitorVars>>
       \/ /\ \/ focus = "collector" /\ Mon!SamplerNext
             \/ focus = "watchdog" /\ Mon!WatchdogNext
          /\ UNCHANGED <<scannerVars, watcherVars, lifecycleVars, streamVars, logVars>>

mcvars == <<focus, scannerVars, watcherVars, lifecycleVars, streamVars, logVars, monitorVars>>
(* A walk goes on and a timer that is due fires; the root is looked for    *)
(* every few seconds, and a watcher that is being opened is ready one day. *)
(* A page that polls goes on, and now and then an answer is back before    *)
(* the next question cancels it.                                           *)
MCFairness ==
    /\ WF_scannerVars(focus = "scanner" /\ Scan!Walk)
    /\ WF_scannerVars(focus = "scanner" /\ Scan!Tick)
    /\ WF_watcherVars(focus = "watcher" /\ Watch!CheckRoot)
    /\ WF_watcherVars(focus = "watcher" /\ Watch!Reopens("root"))
    /\ \A p \in Pages : WF_streamVars(focus = "stream" /\ Bus!Asking(p))
    /\ \A p \in Pages : SF_streamVars(focus = "stream" /\ Bus!Serving(p))
    /\ \A p \in Pages : SF_streamVars(focus = "stream" /\ Bus!Answering(p))
MCSpec == MCInit /\ [][MCNext]_mcvars /\ MCFairness

-----------------------------------------------------------------------------
Types ==
    CASE focus = "scanner" -> Scan!TypeOK
      [] focus = "watcher" -> Watch!TypeOK
      [] focus = "process" -> Life!TypeOK
      [] focus = "stream"  -> Bus!StreamTypeOK
      [] focus = "logs" -> Log!LoggingTypeOK
      [] OTHER -> Mon!MonitorTypeOK

(* Whoever listens to the scanner knows what its index holds, whoever      *)
(* listens to the watcher what is in the cache, a page that has its stream *)
(* and its answers the table it lists, a reader of the log, in its files   *)
(* or on its page, what was logged, and a sensor and systemd how it goes.  *)
ListenersAreTold ==
    /\ focus = "scanner" => Scan!ListenersKnowTheIndex
    /\ focus = "watcher" => Watch!ListenerIsToldAll
    /\ focus = "stream"  => Bus!ResumesWithoutAGap /\ Bus!QuietPageIsCurrent
    /\ focus = "logs"    => Log!LogsAreKept
    /\ Mon!MonitorIsRight

(* The process goes down in the reverse of the order it came up.           *)
EndsInOrder == focus = "process" => Life!EndsInOrder

(* A scan that fails removes nothing; and what is there is seen in the     *)
(* end: on the server, in a cache whose root had gone, and on a page that  *)
(* polls, whatever became of its stream.                                   *)
SidesAreSeen == /\ [][Scan!RemovalsAreReal]_view
                /\ <>[](/\ focus = "scanner" => Scan!TellsWhatIsThere
                        /\ focus = "stream" => Bus!PollersCatchUp)
                /\ focus = "watcher" => Watch!HearsAgain
=============================================================================
