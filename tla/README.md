# TLA+ models of the CNC network bridge

The bridge sits between CNC controls, which write an SMB share it serves from a
local cache, and a server share it mounts. It keeps the two in step, keeps a
version of whatever it replaces, and locks on the server what a control has
open. Around that it is an appliance: it configures its own network, updates
itself, and is administered over a web interface. This directory holds models of
all the parts that keep state, the TLC runs that check them, and TLAPS proofs
about the core, about what keeps a share going, and about much of the appliance.
Paths below are relative to `src/src/backend/` unless they say otherwise.

## 1. The system

The core: what happens to a program.

| Part | State | Operations | What makes it hard |
|---|---|---|---|
| Diff engine `sync/diff-engine.ts` | none (pure) | `decide`, `destroysData` | a table of side x side x base x conflict mode, rewritten by overrides; sides are the same by size and exact mtime, and tie within a tolerance |
| Orchestrator `sync/orchestrator.ts` | breaker, failure count, paused, running; `file_index` rows | `runCycle`, `reconcile`, `pause`, `resume`, `fullResync` | paths run concurrently, each over many awaits; a kill at any of them; one probe decides when the share works again |
| Ports and echo guard `sync/filesystem-ports.ts`, `sync/echo-guard.ts` | the two trees; sync counts, quarantine | listings, stats, `push`, `pull`, deletions, `captureVersion` | stats, reads and renames are separate; users write meanwhile; an error reads as "absent" |
| Transfer `sync/transfer.ts` | the temporary file beside the destination | `copyFileAtomic` | read, sync, readback, date, rename, sync of the directory, over a source that changes, faults and power cuts |
| Version history `versioning/*.ts` | `file_versions` rows, blobs on disk | `capture`, `restore`, `delete`, `setPinned`, prune pass | rows and blobs live in two stores with no common transaction; contents are shared |
| Lock manager `locking/*.ts` | `locks` rows, holders, write bits on the server | `acquire`, `release`, `expireStale`, reconciliation, lock windows, start-up restore and sweep | what it leaves on the server survives the process, its holders do not |
| Audit feed `smb/audit-syslog.ts`, `smb/samba-service.ts`, `locking/machine-lock-source.ts` | queue, rate limiter | datagrams, `drain`, `smbstatus` | a lossy feed; names that two parsers cut in two ways |

What keeps a share going.

| Part | State | Operations | What makes it hard |
|---|---|---|---|
| Supervisor `sync/supervisor.ts`, `web/routes/shares.ts` | running shares, timers, `shares.status` | `reconcile`, `stop`, `runNow`, `setPaused`, mount events | un-awaited, overlapping calls; the status column has several writers |
| Mount `smb/cifs-mount.ts` | health, probe and reconnect timers | probes, `mount`, `unmount`, `guard`, remount on a backoff | a late probe races a remount, a remount a stop |
| Failover `recovery/failover*.ts` | reasons and windows (memory), `failover_read_only` (durable) | `observe`, `hold`, `resume` | windows over sampled, flapping input; half of the state dies with the process |
| Samba configuration `smb/samba-config-manager.ts`, `smb/share-store.ts` | share rows, smb.conf, accounts, what was last written | `reconcile`, `restart` | sessions keep what they connected under; a write may be refused |
| Scanner and watcher `sync/server-scanner.ts`, `sync/scan-worker.cjs`, `sync/cache-watcher.ts` | index, debounces, rename windows | walk, reap, events, lost root | both sides change while they are looked at |

The appliance.

| Part | State | Operations | What makes it hard |
|---|---|---|---|
| Privileged helper `privileged/*.ts` | files and rules of the system | one verb per request | a list of commands of which any may fail or be killed |
| Network apply `network/*.ts`, `web/routes/network-apply.ts` | saved and applied settings, a revert timer | apply, confirm, the timer | an apply may cut off the one who asked for it |
| Scheduler `scheduling/*.ts`, `system/managed-schedules.ts` | `schedules` rows, timers | catch-up, runs, edits, rows kept in step | missed runs, overlapping runs, rows edited meanwhile |
| Updates `system/*update*.ts`, `src/scripts/self-update.sh`, `os-update.sh` | phase, status files | check, apply, rollback, the scripts | the update replaces and restarts what began it |
| Configuration `config/*.ts` and its pages | one row per leaf, migrations, open forms | set, import, migrate, save a form | forms as old as the page; schema, values and release change one by one |
| Process `index.ts`, `server.ts`, `lifecycle/*.ts` | stages, undo list, watchdog | start, stop, signals | any step may fail, any stop may throw |
| Certificate `web/https-setup.ts`, sign-in `web/auth*.ts`, write limiter | files and the served context; password, sessions; hits | issue, upload, reissue; login, change, wizard | files written one by one; hashing is awaited |
| Event stream, log, monitoring `web/event-bus.ts`, `logging/*.ts`, `monitoring/*.ts` | ring buffer, rotating files, gauges, samples | publish, replay, rotate, collect, ping | streams drop, buffers are bounded, passes overlap |
| Tester, file browser, history pages, DHCP, backup | rows and what a page shows of them | test, list, download, restore, reserve, export, prune | a page acts on rows as old as its last answer |

Left out, with the reason, in section 6.

How they interact. The supervisor's timer calls the orchestrator's `runCycle`;
the orchestrator asks the ports for both sides, the lock table for open files
and the diff engine for a verdict, then moves files through the ports and
commits a row of `file_index`. A verdict that destroys content names a side to
capture; the ports hand that to the versioning engine, which schedules it. The
result of a cycle is written to `shares.status`, which is all the failover
service reads; its verdict goes to the share's row, from which smb.conf is
rendered. Locks come from Samba's audit stream and from `smbstatus`. What needs
root goes to the helper, one process per request; what replaces the service or
the system's packages goes to a script in a unit of its own, and comes back as a
status file. Pages hear of changes by an event stream and poll beside it.
Everything runs on one event loop: code between two awaits is atomic, and
nothing else is. The process may be killed anywhere; what survives is SQLite,
files, and whatever was done to the server and the system.

The hazards, each with its line and the properties aimed at it, are in
`PROJECT.json`.

## 2. Modules

One action is the code between two awaits, or, where the code is synchronous
and can only be killed, one statement whose effect lasts. The header of each
module says what its variables stand for.

| Module | Models |
|---|---|
| `DiffEngine` | the decision table as operators with the source's names; a side is a record of size, mtime and hash, or `NoSide` |
| `AtomicSync` | what the orchestrator promises when nothing moves during a reconciliation: `Reconcile` is stat, decide, transfer and commit in one step; the capture is handed over, and has read its file before the transfer, or runs later (`RunCapture`), or comes to nothing |
| `CircuitBreaker` | what the breaker promises, without paths or files; `Orchestrator` implements it |
| `Orchestrator` | one running share with its world (below) |
| `Transfer` | one copy from the moment it is asked for: attempts, temporary file, readback, rename; a file is two halves and a date, so that a save can fall into the middle of a copy |
| `Retention`, `VersionStore` | the planner as a loop over a path's versions; rows and blobs under several operations at once (below) |
| `Locks` | the lock table, holders and write bits (below) |
| `AuditFeed` | datagrams, limiter, queue and `smbstatus`, up to the moment a lock is asked for |
| `Supervisor` | `reconcile` calls as processes (`call[c]` is the await each is at), instances, their cycles and timers, the routes that edit the table |
| `CifsMount` | one mount: probes asked and answered in separate steps, the counter, the backoff |
| `SambaConfig` | share rows, rendering, accounts (each share asks for one, removes one or says nothing; the last in the order of names decides), what smbd holds its sessions to |
| `Failover` | extends `SambaConfig` by the controllers, the sampling pass and the flag in the row |
| `ServerScanner`, `CacheWatcher` | the walk in its thread with the index; chokidar's events, debounces, rename windows, a root that goes |
| `Helper` | a verb is a sequence of steps (`Program`); each may fail, some run on the way out; `Effect` is what a step does |
| `NetworkApply` | saved, applied and cloned profiles, the one revert timer, the banner that confirms; subnet arithmetic of `Width` bits |
| `Scheduler` | rows, timers, catch-up, runs under way; a cron expression is the distance of its occurrences |
| `Updates`, `OsUpdates` | manager and script as two processes that know of each other by a status file; what a manual rollback asks for (`NoTag`: "v" before a commit) is a ref that no repository has |
| `ConfigStore` | rows, schema and release, migrations, forms and the switches beside them |
| `Lifecycle` | start-up and shutdown stages, the undo list, signals, systemd |
| `Certificates`, `Auth`, `RateLimit` | listener and files; password, sessions and tabs; one caller of the sliding window |
| `EventStream`, `Logging`, `Monitoring` | bus, stream and page hooks; log files, table and page; collector passes, samples, watchdog |
| `HistoryPages`, `FilesPage`, `Tester` | pages with the routes behind them, acting on what they were last given |
| `Dhcp`, `Backup` | reservations, leases and the page; the settings document and the copies of the database |
| `MC*` | what the runs put together; their constants get small values in the `.cfg` |
| `AtomicSync_proofs`, `Orchestrator_proofs`, `VersionStore_proofs`, `Locks_proofs` | theorems and their proofs about the module each is named for, which it extends |
| `Shares_proofs` | extends `MCShares`: theorems about `SambaConfig` and `Failover`, about `Supervisor`, `Transfer`, `CifsMount` and `AuditFeed` as it instantiates them, and about the whole |
| `Listeners_proofs` | extends `MCService`: the same for `EventStream`, `Logging` and `Monitoring` |
| `Service_proofs` | extends `Listeners_proofs`: the same for `ServerScanner`, `CacheWatcher` and `Lifecycle`, and about the whole |
| `Appliance_proofs` | extends `MCAppliance`: the same for every part that it instantiates |

### Orchestrator

A reconciliation of a path is a job whose `pc` says which await it is at:

    Begin -> StatLocal/StatRemote (either order) -> DecideInert
                                                 |  DecideConverge
                                                 |  DecideApply -> CopyStat -> CopyRead -> CopyRename -> Commit
                                                 |              -> Remove ------------------------------> Commit

`Begin` holds the breaker check, the spending of the probe, the retry time and
the quarantine, in the code's order. `TransferBlocked` and `TransferFails` are
the failures; both go through `recordFailure`. `StartCycle`, `ListPaths` and
`EndCycle` are the cycle; `RunCapture` is a scheduled capture finally running,
which keeps the file as it then is or, on a nearly full disk or when it fails, nothing;
`Crash` forgets everything but the trees, `file_index` and the versions.
Between any two steps a machine or the office may save or delete, the mount may
go or come, a program may be opened.

Abstractions. A save writes data never written before, and stamps it with a
fresh modification time; size is constant, and no hash is taken, as in
`statSide`. Times are kept as what remains of them (`wait`, `cooldown`) and
`Tick` takes one from each. Expectations of the echo guard are left out: only
the cache watcher reads them, and nothing starts it. Status strings, events and
log lines decide nothing and are left out.

### VersionStore

A content is its own digest. `blobs[c]` is what is stored at the address of
`c`, which is not `c` when the source was saved between the hash and the copy.
A worker is one operation under way: a capture (`locate`, `copy`, `insert`), a
restore (a capture, then `extract`), a deletion (its row went in the step that
began it; `unlink` is left), a prune pass (a set of ids, each deleted in turn).
Ids are reused as SQLite reuses them: one more than the largest that is left.

### Locks

Every handler of the lock manager is synchronous, so the bridge itself never
interleaves two of them; but it is killed between statements, and its table and
the server's files stay as they were. `todo` holds the locks a handler has yet
to work off, `task` the one it is at, and `step` the next statement that lasts:

    acquire: InsertRow -> Project -> TakeWritePermission -> RecordIt -> Mark
    finish:  ReleaseRow -> GiveBack -> Forget
    retake:  TurnTo -> Project -> TakeWritePermission -> RecordIt    (start-up)
    sweep:   TurnTo -> GiveBack -> Forget                            (start-up)

`finish` is `release` and `expireStale`. `bit[p]` is the ground truth the code
does not have: who took the write bit of the server's file, the bridge or
somebody else. The code knows only `readOnlyApplied` on a row: `lock[p].ro` for
the active row and `owed[p]`, the number of released rows that still claim it.
`untold` remembers the kills between the chmod and its record, so that the
property can name that exception and no other.

`HandleEvent` takes one audit event, `AskStatus` and `Tick` are the two halves
of the reconciliation tick around its one await, and `Operator` is what the API
and the lock windows ask for. The world opens and closes files with or without
an audit event, holders die, the mount comes and goes, the process is killed or
stopped and starts again.

Abstractions. Byte ranges only, the default projection. A marker file counts
for its outcome alone (`Mark`). A lock's age is one flag, `stale`. Left out:
ignored names, opens for reading, shares switched off, and a machine that is
deleted while Samba still lists its files. Somebody on the server may change a
write bit at any time but is assumed to leave alone a file whose bit a row
claims: the code cannot tell such a change from its own.

### Parts put side by side

`MCShares`, `MCAppliance` and `MCService` hold several components that share no
variable. A product of them would multiply their states and show nothing, so a
constant variable `focus` picks one component per behaviour; the others stay as
they began. Every property of such a run is a conjunction of statements of the
form "in the behaviours of this component, ...". Components that do share
state are composed for real: `Failover` extends `SambaConfig`, `Supervisor`
has its mount inside, `Updates` and `OsUpdates` their scripts, `VersionStore`
its planner, and the orchestrator its ports, echo guard and queue.

| Run module | `focus` |
|---|---|
| `MCAtomicSync` | the decision `table`; a `history` of edits |
| `MCOrchestrator` | one file: `both` users write, the `machine` only; two files: the `breaker` under failures, all coming to `rest` |
| `MCShares` | failover `windows` over one share, one that is `reborn` under its id; two shares with machine users, their passwords or none, and an account of an older build: one edit among refusals and restarts (`table`), or two and nothing else (`edited`); `supervisor`; `mount`; `transfer`; audit feed of two `machines`, or of difficult `names` |
| `MCAppliance` | `helper`, `network`, `scheduler`, `updates`, `packages`, `config`, `certificate`, `signin`, `limiter`, `history`, `test`, `files`, `dhcp`, `document`, `copies` |
| `MCService` | `scanner`, `watcher`, `process`, `stream`, `logs`, `collector`, `watchdog` |

## 3. Runs

`P` must pass, `V` must violate its one property.

| Run | | Question |
|---|---|---|
| `AtomicSync` | P | is the whole decision table safe and even-handed (37 sides on each side and in the base, all modes and conditions); do histories of 3 edits and 3 changes of conditions lose anything but to a capture that came too late, let a deletion beat an edit, destroy anything against an unreachable server, and do they settle? |
| `Orchestrator_file` | P | can the sides look alike over different data; does a cycle begun offline destroy anything; does the bridge's own copy ever come back as a newer save? one path, up to 4 saves, a failure, an outage, 2 kills |
| `Orchestrator_share` | P | does the share implement the circuit breaker, with one probe at most, over two paths in flight; does every cycle end, and do the sides come to agree? |
| `Orchestrator_failing_file` | V | "One failing file does not stop the share" (`orchestrator.ts`, rule 1) |
| `VersionStore_history` | P | what can lose a version's content; does a restore write the version or nothing; does the planner follow its rules? two operations at once, 3 captures, saves, a kill |
| `VersionStore_overlap` | V | a capture of the same content "cannot slip between them and lose its blob" (`version-store.ts`, `delete`) |
| `Locks` | P | does the table tell the truth about the server; is a file ever left read-only with no row to say so, or made writable against its owner; do locks follow the programs? |
| `Shares` | P | do writes stop and come back at the right time and for good; do smb.conf, accounts and sessions follow the table; is anything unmounted or purged under a cycle; is a mount that was called offline mended; is a copy whole, or still looks changed to the next cycle; do locks agree with the machines in the end? |
| `Appliance` | P | what is in force after a request of the helper, an apply of the network, a schedule, an update, a migration, a save of a form, of a certificate or of a password, a restore, an import or a prune is cut off anywhere; and is what its pages say so? |
| `Scheduler_overlap` | V | "A job that is still running when its next tick arrives does **not** start a second copy" (`scheduler.ts`) |
| `Config_page` | V | one page keeps the edits made on it (`NetworkPage.tsx`) |
| `Service` | P | does whoever listens to the scanner, the watcher, the stream, the log, a sensor or systemd learn what is so; does the process go down in the reverse of the order it came up; is what is there seen in the end? |

The properties, by run:

* `AtomicSync`. `NoUncapturedDestruction`: a verdict that destroys a content
  names that side for capture. `MirrorSymmetry`: the table plays no
  favourites. `LostOnlyToACapture`: a content somebody wrote and nobody
  replaced is on a side, in the vault, or was handed to a capture that came too
  late or to nothing. `OfflineDestroysNothing`,
  `DeleteNeverBeatsAnEdit`, `HistoriesSettle`.
* `Orchestrator_file`. `NoSilentDivergence`: two copies that look alike are
  alike. `OfflineCycleDestroysNothing`. `MachineWorkIsKept`: nothing the bridge
  did itself beats a save it has seen.
* `Orchestrator_share`. `OneProbe`, `BreakerImplements` (refinement of
  `CircuitBreaker`), `CyclesSettle`.
* `VersionStore_history`. `ContentIsLostOnlyToARace`, `PlanFollowsThePolicy`,
  `RestoreGivesTheVersion`.
* `Locks`. `OkIsEnforced`, `TakenIsOnRecord`, `NotOursStaysTheirs`,
  `LocksFollowPrograms`.
* `Shares`. `SambaFollowsTheTable`: a share is held for a reason, smb.conf says
  what the table says, there are accounts for the users it names and none that
  no share names, and a session that lasts refuses what its share refuses; but
  for a user without a password, two shares that speak of one account, a refusal
  of the helper and a clash of names, each excepted by name. `SharesAreKeptGoing`: what runs is
  what the table asks for when calls come in turn (`ConvergesInTurn`), the
  monitor of a mount never loses its loop (`MonitorKeepsTrying`), and a copy is
  whole or still looks changed (`CopiesAreSound`). `WindowsAreKept`: no flip
  inside a window, but for a share that took over the controller of a deleted
  one. `NothingEndsUnderACycle`. `SharesRecover`: locked is what the feed told,
  and the writes, the status, the mount and the locks come back.
* `Appliance`. `HelperIsCareful`, `RulesBeforeRoutes`: what is put in force has
  been checked, forwarding is on only under rules written for it.
  `InterfaceIsSafe`: an apply that cuts its caller off is undone by a timer;
  the listener can be started again with what it serves; a session that is let
  in was opened with the password in force; the write limiter is exact; what the
  pages say of a server, a file or an address is so. `SchedulesHold`,
  `UpdatesEndWell`, `StatusSettles`. `SettingsHold`: a stored setting changes
  only by the save it was edited for and is always one the running release
  understands; a file is replaced only by the restore that named it; an import
  does what it reports; the last whole copy of the database stays.
* `Service`. `ListenersAreTold`, `EndsInOrder`, `SidesAreSeen`.

Where a property holds only up to a defect that section 4 lists, the model
carries a ghost variable that names that exception (`untold`, `excused`,
`doubt`, `overlapped`, `inherited` and the like) and the property excepts it and
no other.

Bounds. Every budget (`MaxEdits`, `MaxCrashes`, ...) limits what the environment
does, never what the bridge does: cycles, retries, probes and ticks are
unlimited and the state space is finite because times are kept as remainders.
One path is enough where the code treats paths independently; the breaker and
the queue are where it does not, and that focus has two. Two operations at once
is what a lost blob needs (a deletion and a capture). Two machines are what a
lock changing hands needs, and an audit feed that holds one event already loses
the next. To take over a controller, a share needs a hold, a deletion, a
creation and a server that goes, which is what `reborn` has. One share is enough
for the supervisor, whose shares share nothing, and two are for the table, where
two names may differ in case only and may share a user; they are listed against
the order of their ids, and have one old account between them. Two releases are one update and a way back;
two tabs, pages or windows are what a stale one needs. A queue, buffer or log of
two entries is already full at the third. The inductive invariant of the lock
proofs was also checked with two files.

Fairness. Weak fairness is assumed of what a timer or the event loop drives, and
nothing of what a user, a fault or a kill does: those are bounded and so stop.

* `AtomicSync`: `Reconcile`; a capture may never run.
* `Orchestrator_share` (`rest`), `Orchestrator_failing_file`: the cycle's steps
  (a timer starts cycles for ever), each path's job (every await is answered),
  captures (`setImmediate`) and time; and of the world that the server comes
  back, a paused share is resumed, an open program is closed.
* `Locks`: the statements of a handler, the handling of an event, both halves
  of the reconciliation tick and the start (the service is restarted after it
  ends); not of any lock being asked for, any event arriving or the mount
  coming back.
* `Shares`: the failover pass (an interval), the supervisor's steps, timers and
  the end of a cycle, the mount's probe and reconnect timers and the answers to
  them, the feed's consumer. Strong fairness of `Tick` in the failover, where
  time can only pass between two passes, and of asking `smbstatus`, which a
  restart of the listener may interrupt again and again.
* `Appliance`: the update manager's poll, the script's next step, the end of a
  check.
* `Service`: the walk and its timer, the search for a lost root and the
  reopening that follows, a page's poll. Strong fairness of the answer to a
  page: a page that cancels each question before it is answered would wait for
  ever, so one answer is assumed to come first now and then.

## 4. What the models found

Four disagreements between the code and what its comments say, each a `V` run
above and a row of `findings`:

* the half-open probe can be spent on a path that is then skipped, and nothing
  spends it again: the share stops for good;
* a deletion unlinks a content that a capture has just registered again;
* a schedule whose run outlasts its period is started a second time: the
  callback returns at once, so the library's protection sees no run;
* the network page saves a whole section as it was read when it was opened, and
  undoes the switch beside the form.

What follows was met while modelling. It is modelled as it is, so that the
properties that pass say what holds in spite of it.

Programs and versions. `ARCHITECTURE.md:230` says that no conflict mode destroys
data irrecoverably, and `orchestrator.ts:417` that the capture happens first; it
is scheduled and not awaited (`filesystem-ports.ts:115`), skipped on a nearly full
disk, and its failure is dropped, while the transfer goes on: a content can end on
neither side and in no version. The server is asked for once per cycle, and any
error of a stat reads as "absent" (`filesystem-ports.ts:183`): one that goes away
in the middle makes the cycle delete a cached file that the server still has,
though line 133 says it must be there for that. A late success closes a breaker
that others have opened since (`orchestrator.ts:549`). A path gone from both sides
keeps its base (`orchestrator.ts:492`). A prune pass deletes a version
pinned since its plan was made (`cleanup.ts:139`), and ids are given out again,
so a page may restore or open another row than it shows. A read that never ends
has no timeout.

Locks. The sweep at start clears the bit under a newer lock on the same file
(`lock-manager.ts:529`). Nothing renews a lock, so one expires while its file is
open. The close of any handle, and a rename, release the lock of the machine
(`machine-lock-source.ts:112`); reconciliation never corrects an owner. A push
renames over a server file that the bridge's own lock made read-only
(`transfer.ts:406`). The text form of `smbstatus` cuts names at blanks, the audit
line at a bar, and the limiter spends a token before it parses.

Shares. Un-awaited calls of `reconcile` overlap (`supervisor.ts:93`). A first
mount that fails is never retried, as the mount manager's `start()` has no
caller. The conflict mode of a running share is not read again (406), and the
mount event has no member `online` (271). A paused share reports offline, which
fails it over. Two names that differ in case freeze smb.conf; one of two shares
with one account removes it; a share made read-only by an edit while failed over
leaves its sessions writable; a new interface does not restart smbd. A share that
names a machine user and has no password is rendered with its `valid users` line,
and no account is made (`samba-config-manager.ts:143`). A controller is kept by the
id of its share until the next pass, and ids are given out again: a share made
within seconds of the deletion of the newest one takes over its reasons and its
manual hold, though `failover-service.ts:112` says it starts from a clean slate.

Appliance. A manual rollback asks for "v" and the commit that the script has
reported (`update-manager.ts:313`), which is no tag: it always ends as failed.
A second apply after a fired revert deletes the profile in use; the
apply of one side stops the timer of the other, and the banner confirms "lan"
whichever side was applied. A crash during the catch-up loses the missed runs;
the jobs `scan` and `backup` have no handler. A power cut leaves the update in
its phase for ever, and "rebooting" of the packages as well. A certificate and
its key are written one after the other: cut between, the listener never starts
again. Between a new password and the end of the old sessions a kill leaves them
open. Two windows on one section lose updates, and an unknown stored value is
read as the default. A section that cannot be read is exported as defaults with
an empty secret, and importing that erases the secret; an import is one
transaction per section. A copy of the database still being written counts as a
backup by its date: two at once prune each other, and a clock set back makes
the newest the oldest. One machine under two spellings of its address becomes two
reservations, one address may be reserved twice, and an omitted name overwrites
the old one; `updateDiscoveredMachines` inserts without two columns that must be
present, so each new lease rolls its pass back (`dhcp-config-manager.ts` has no
caller).

Service and pages. A cleanup that throws ends the undo list; the https listener
is not among what is stopped; READY is said before the listener is up. A scan
that fails has already changed the index, and a subdirectory it could not read
is taken for removed; scanner and watcher are started by nothing but tests.
Event ids start again at 1 with the process; a stream refused on reconnect stays
closed. A log context cut in the middle of its JSON fails the whole page
(`routes/logs.ts:27`), and nothing publishes `log` events. No counter is ever
incremented; passes of the collector overlap; the roll-up averages averages; the
watchdog's limit for lateness is its own period, by the wall clock. The newest
row of the version page is taken for the current content; the timeline shows the
previous file's rows until its answer comes. The tester compares an exact
dialect, takes the root for the sub-path, names a path that is not found as a
missing share, and its answer outlives the fields it was for. A download that
fails to open has no error listener (`files.ts:326`).

Attempts to prove what the runs had passed. Three models were right only for
the instance that was checked, or said more than the code keeps, and were
corrected:

* the accounts of Samba. `samba-config-manager.ts:116` says that a `valid users`
  line never names an account that does not exist yet. While two names clash the
  accounts move and smb.conf stays, so the old stanza may name an account that is
  gone; `LoginsExist` names that case.
* the walk of the scanner. What is below a directory that cannot be read was
  left out for one level only; `Beneath` closes it downwards.
* the watcher. That its listener is told all held only because the run allows
  one loss of the root: at the second one, a watch that is reopened had to start
  from what the code does then (`Reopens`, `Reopened`).

## 5. Proofs

`tlapm` checks every theorem for all values of the constants under the `ASSUME`s
of the module it extends. A part that is used as an instance names what it needs
of its constants in an operator of its own; that is the hypothesis of the
theorems about it, and the module of the run assumes it, so that TLC evaluates
it (`MarkersAssumption`, `SettingAssumption` and the like).

A theorem about a part (`Sup!Spec => []Sup!ConvergesInTurn`) is carried over to
what the run checks (`MCSpec => []SharesAreKeptGoing`) in two steps: every step of
`MCNext` is a step of the part or leaves its variables as they were, which a
lemma says for each (`SupervisorMoves`), and the property of the run is made of
those of its parts.

The assumptions are: positive thresholds, sequences of natural delays, a finite
set of paths, and that an absent file is no save; for the version store, natural
retention settings and a `NoFile` that is no content; for the failover, windows of
natural length, that no two shares have one place in the list by name (`Place`,
the order in which accounts are settled), and that no row, no file, no user and
no controller are not one; for the locks,
that the markers for "no lock", "no task" and "no machine" are not a lock, a task
or a machine; for the decision table, that a side is a size and a time without a
hash (`statSide` never takes one), that the settings are among the modes and
limits of the code, and that `NoSide` is no side. For the supervisor, the certificate, the
watcher and the packages: that the markers for nothing are not a row, an
instance, a call, a certificate, a look, a phase (`MarkersAreApart`,
`NoneIsNothing`). For the scanner, that
`Parent` is a tree of the paths below the root (`TreeIsSound`). For the schedules
and for signing in, times of natural length and ids as the database gives them;
for the updates, that every set of releases has a newest, there are two, and
"v" before a commit is none of them (`SettingIsSound`). For the network, an address of at least one bit; for the
limit, a window and a limit of natural size; for the copies of the database, at
least one to keep; for the tester and the configuration, that the marker of an
absent share, an absent row and a hidden secret are no value. For the streams,
the log and the monitor (`BoundsAreSound`), finitely many pages, natural sizes, at least one
file of at least one line, a list no longer than a replay, and a deadline of the
watchdog whose half is whole. For the audit feed (`NamesAreApart`), that what is
left of a name that is cut names no file, that "nobody" and "operator" are no
machines, a natural burst and a queue of at least one event; for the mount, finitely
many ticks. For a copy, at least one attempt (its last theorem only).
`SeenWorkIsKept` has a hypothesis about the site, `Alone`: the office leaves the
server alone, the mount goes between cycles only, and the share is not one that
prefers the server. It is what the focus `machine` of the run has; without it
the office's later save rightly wins.

`AtomicSync_proofs`

* `DestructionIsCaptured`, `NoSideIsFavoured`: `NoUncapturedDestruction` and
  `MirrorSymmetry` for every size, time, tolerance and limit. They are facts
  about operators. `ConflictVerdict`, `CoreVerdict` and `DecideMoves` say of
  each layer of the table which sides a verdict presupposes, which one it names
  for capture and what it may destroy; the overrides only ever replace a verdict
  by one that moves nothing.
* `LossesAreMissedCaptures`, `Spec => []LostOnlyToACapture`, for any number of
  edits and changes of conditions and however late each capture comes. Inductive
  with the types: a side that a reconciliation overwrites was handed over by its
  verdict, or has the content that overwrites it.
* `NothingGoesOffline`, `EditsBeatDeletes`: `OfflineDestroysNothing` and
  `DeleteNeverBeatsAnEdit`, from what a step may do to a side
  (`ReconcileMoves`).

`Orchestrator_proofs`

* `DecideIsAVerdict`: the decision table is total, whatever its inputs.
* `TypeCorrect`, `Spec => []TypeOK`. `TypeOK` is not inductive: a copy's third
  step writes `job.temp` over a side, so `temp` must hold a file at that step.
  `TypeInv` adds that (`Temps`).
* `LookAlikesAreAlike`, `Spec => []NoSilentDivergence`. The invariant is
  `AlikeInv`: every stamp, on a side or in a temporary file, is older than the
  next save's; and a temporary file about to be renamed holds the data of its
  source as long as the source still carries its stamp. The second part is what
  makes a copy over a source that changes meanwhile harmless: its stamp was
  taken before its data, so it can only look older than it is.
* `OfflineCyclesDestroyNothing`, `Spec => OfflineCycleDestroysNothing`, from
  `OnlyPulls`: in a cycle that began without the server, a job past its verdict
  is a pull, as the override leaves no other and no job outlives its cycle
  (that is part of the next invariant, `Probing`).
* `OneProbeAtATime`, `Spec => []OneProbe`. The inductive invariant says that
  nothing is in flight between cycles, that what is queued has not begun, and
  that in half open an unspent probe means nothing is in flight and a spent one
  at most one path. It is needed because `breaker` becomes half open only at the
  start of a cycle, and it is the end of the previous cycle that emptied the
  share.
* `SeenWorkIsKept`, `Alone => (Spec => [][KeepsSeenWork]_vars)`, which is
  `MachineWorkIsKept` of the run `Orchestrator_file`. The invariant `SeenInv`
  compares stamps: the server is never ahead of the machine, a base is never
  ahead of either, and one whose server copy is gone is older than what the
  machine has (`Lags`); what a job under way has looked at stays in that order
  whatever is saved meanwhile (`Looked`); and by its verdict a job pushes what
  the machine had, fetches where the machine has nothing, or removes what it
  deleted (`Acting`). The last clause of `Lags` is what keeps the verdict from
  being `DELETE_LOCAL`: where the server has nothing and there is a base, the
  machine's file is newer than the base, so it is taken for an edit.
* `ShareImplementsBreaker`, `Spec => BreakerImplements`: the refinement mapping
  takes the number of paths in flight for the attempts under way; every action
  is shown to be a step of `CircuitBreaker` or a stutter. The cardinality facts
  rest on the finiteness of `Paths`.

`Shares_proofs`

* `WindowsHold`, `Spec => WindowsAreKept`. The invariant `WindowInv` says that a
  controller's clocks never run ahead of the time since the server was last seen
  the other way (`ClocksTrail`), that the flag in the row says whether the
  controller has a reason (`FlagTells`, but for an inherited controller), and
  that a hold is a reason like any other (`HoldIsAReason`). Without `FlagTells`
  a reason held back from the row could appear at any time.
* `ExportsHold`, `SessionsHold` and, of the two, `SambaHolds`: `Spec => []` of
  `ExportsFollowTheTable`, `SessionsRefuseWrites` and `SambaFollowsTheTable`. `SambaInv` says that the file is what was written last
  unless nothing is remembered, that a write is owed exactly when that is not
  what the table says, that a session nobody left behind is held to the table,
  that an account is there exactly when the share that decides about it asks for it
  (`AccountsTell`: of those that speak of it the last in the order of names, as
  the loop over the rows ends with it), and that no account is there without a
  share that names it (`NoLoginIsLeft`). The last is inductive because a handler
  that takes a user from a row drops the account itself first (`Spares`): the loop
  never sees the name again. `WindowsStay` is both for the specification of the run, from any of
  its beginnings.
* `SupervisorTypes`, `CallsInTurnConverge`, `CyclesEndFirst`: `TypeOK`,
  `ConvergesInTurn` and `NothingEndsUnderACycle`. The invariant `InTurn` says,
  while no two calls overlapped: at most one call is under way; what it has still
  to stop and to start is all that keeps the instances from the table
  (`Progress`); at rest they agree (`Settled`); and a cycle belongs to the
  instance in the map or to the one that a call waits for (`CyclesAreKnown`).
  The last is what `stop()` rests on: an instance leaves the map before its cycle
  ends, so the map alone says nothing about what may still be writing.
* `CopiesHold`: `CopiesAreSound`. `Faithful` says what each step of a copy knows:
  as long as the source looks as it did when it was stated, it holds what was
  read of it; what is read back is that; and what is renamed was synced.
  `AttemptsAreCounted`: the bound on attempts.
* `FeedHolds`, `MCSpec => []Feed!FeedIsRight`. The invariant `AllTidy` speaks of
  the lines on their way, those of the queue and then those of the wire, and of
  the locks a file may have once the answer of `smbstatus` has been used
  (`Possible`), of every file that nothing has put in doubt: only opens and
  closes mention it (`Plain`); who opens it closes it later or has it open
  (`OpensEnd`); a machine that has its lock gives it up later or has it open,
  and while it is written the last line about it opens it for writing, or no
  line is left and it is locked (`Right`). A line lost, cut, refused by the
  limiter or pushed out of the queue renumbers the others (`Renumbers`) and puts
  what it mentions in doubt, so the rest carries over (`OthersDoNotMatter`).
  `Drained` handles the queue line by line: that `AllTidy` holds after each is an
  induction over the places of the queue.
* `SharesTyped`: `Types` of the whole.
* `MonitorGoesOn`: `MonitorKeepsTrying`, inductive with the types of the probes
  and remounts under way.
* `SharesStayGoing`, `CyclesStaySafe`: `SharesAreKeptGoing` and
  `NothingEndsUnderACycle` of the whole, from the above.

`Service_proofs`

* `ListenersAgree`, `RemovalsHold`: between two walks, none of which broke, a
  listener of the scanner knows what the index holds; and what it is told is gone
  was gone, or could not be read, at some time of that walk. While a walk that
  has not stopped at its ceiling goes on, every path is accounted for: seen,
  not there, not to be read, about to be taken, or in a directory still to be
  read or not seen itself (`Settled`). That is what makes the reaping after the
  walk sound, over any tree and any changes meanwhile.
* `ListenersHearAll`: `ListenerIsToldAll` of the watcher. `Tracks` follows a path
  from the disk by what chokidar told last to what the listener believes or will
  be told when its debounce or rename window ends.
* `ProcessIsTyped`, `ProcessEndsInOrder`: `TypeOK` and `EndsInOrder` of
  `Lifecycle`. Unless a stop threw, whatever is up is a stage in the undo list, a
  cleanup in its list or the listener (`InOrder`); the list is a beginning of the
  stages there are, and the cleanups are gone before the first stage is stopped.
* `ProcessStaysInOrder`: `EndsInOrder` of the whole. `AllAreTold` and `TypesHold`:
  `ListenersAreTold` and `Types` of the whole, with what `Listeners_proofs` shows.

`Listeners_proofs`

* `StreamsResume`: what `EventStream` promises its pages. The buffer is the end of
  what was published, and an id and a serial differ by what earlier processes
  published (`BufferHolds`); unless a page knows of a gap, an event that is due to it
  was heard or is in its pipe, which is in order and holds nothing it has heard
  (`Heard`, `OnTheWay`); and a page that has heard all that is due shows its
  table or waits for an answer that has it (`Answers`). What a replay selects of
  the buffer is found by induction over its places (`Follow`).
* `LogsHold`: the files of the log are consecutive pieces of what was written. The
  number of the piece a file holds is not its generation, since an end of the
  process between two renames leaves a hole: `Generations` says there is a
  function `below` that counts the files that hold lines, and `Holes` bounds the
  holes by the ends there were.
* `MonitorHolds`: the samples and the watchdog. From some moment on (`Since`)
  every sample agrees with how things are, and a pass that is the only one
  finishes with what it read (`Undisturbed`); the watchdog's timer and the clock go
  together as long as the clock is not set (`WatchdogInv`).

`Appliance_proofs`

* `HelperHolds`, `RoutesFollowRules`: `HelperIsCareful` and `RulesBeforeRoutes`;
  `HelperStaysCareful`, `RoutesStayRuled`: the same of the whole.
  A verb's program has each check before what it guards and, for each secret or
  candidate it writes, a later step that removes it on the way out (`Sane`). That
  is shown once for each verb; the invariant follows one program step by
  step (`HelperRuns`, `HelperCleans`).
* `SchedulesAreRight` and, of the whole, `SchedulesStayRight`: `SchedulesHold`. A timer that is not due stands at the next
  occurrence of its row (`Timed`); what is caught up was due and is no longer
  missed (`Caught`); the managed row is there as soon as the updates section says
  when (`Owned`).
* `UpdatesHold`: `UpdatesEndWell`. As long as at most one thing goes wrong
  (`Spared`), a script under way has a healthy release to go back to, and what is
  built and what runs follow from its step (`OnTheWay`), and one sent for a ref that
  nobody knows touches nothing (`Sent`); results in the history,
  in the status file and still to come were each asked for once (`Owed`).
* `RestHolds`: `RestMeansRest` of the packages. Until the service restarts, a
  script that has said something is where the file says it is, and one that has
  not is what the manager waits for (`PackagesInv`). With `UpdatesHold` it makes
  `UpdatesStayRight`: `UpdatesEndWell` of the whole.
* `CertificateHolds`, `ReplacementsAreMeant`: the parts of `InterfaceIsSafe` and
  of `SettingsHold` about the certificate, by name. A save serves its material
  before its first file is written (`Saving`), so between saves the files are
  what is served (`Rested`), and a reissue in flight is one of a certificate the
  appliance made (`Purposeful`).
* `SigningInIsSafe`: the part of `InterfaceIsSafe` about sessions. A request in
  flight carries a password somebody gave, and one that compared well did so
  with one that was stored (`InFlight`).

* `NetworkHolds`: the network's part of `InterfaceIsSafe`. A request that got
  through and cut its caller off came in on the side it was about, so a timer is
  armed for that side; no side runs on its clone before a rollback (`NetInv`).
  The arithmetic of the masks is by induction over the width (`Power`).
* `TheLimitHolds`: the limit of writes. The hits that are kept and all that was let
  through agree on those still in the window (`RateInv`), over any steps of the
  clock forward.
* `TestsHold`, `FilesHold`, `AddressesStay`: the tester, the file browser and DHCP.
  In each the page acts on what it was last given, so the invariant says of an
  answer under way whether it still counts, and of one that does what it is about
  (`ProbeInv`; `Transferring`, `Querying`; `ListIsFresh`, `RangeIsKept`).
* `InterfaceStaysSafe`: `InterfaceIsSafe` of the whole.
* `ConfigHolds`, `ImportsStayHonest`, `CopiesLast`, `RestoresStaySafe`: the parts of
  `SettingsHold`. The rows are what the schema in the database accepts unless a
  release ran over a newer one (`RowsFit`), and what a page shows and nobody edited
  or overtook is what is stored (`Views`). A running import's sections are as they
  were or as its document has them (`Underway`). A copy that is not whole is being
  written or older than every copy finished after it, and while old ones are
  deleted a copy that counts is not among the doomed (`Unfinished`, `Lasting`).
* `SettingsStay`: `SettingsHold` of the whole.

`VersionStore_proofs`

* `LoopFollowsTheRules`, for any finite set of versions, any policy and any
  references: the loop of `planRetention` removes what the rules at the head of
  `retention.ts` say; `PlansFollow`, `Spec => []PlanFollowsThePolicy`. The order of
  a path's versions is total on the rows, which are finitely many
  (`RowsAreFinite`), so each has its number; an induction over the numbers says
  what the loop has pruned after k versions.
* `VersionsAreTyped`, `Spec => []TypeOK`, with the uniqueness of row ids.
  Inductive with `Fit` (a worker at a step holds what the step needs: a digest
  to copy under, a path to write to) and `Ordered` (the ids have a largest, so
  that `NextId` is new; SQLite's rowid rule is exactly that).
* `RestoresAreExact`, `Spec => RestoreGivesTheVersion`: only the last step of a
  restore both writes a file and lets its operation go, and it writes the
  content its version names, or nothing when the store has another.
* `OnlyRacesLoseContent`, `Spec => []ContentIsLostOnlyToARace`. Inductive with
  `Safe`: the content of every row, and of every capture about to insert one,
  is in the store or was registered while it was being removed; and a content
  being unlinked is in no row but those of such a race.

`Locks_proofs`

* `LockTypes`, `EnforcedLocksAreHeld`, `TakenBitsAreOnRecord`:
  `Spec => []` of `TypeOK`, `OkIsEnforced` and `TakenIsOnRecord`. None of the
  last two is inductive: whether a step may set `ok`, or record a claim, rests
  on what the handler is in the middle of. `IInv` adds that the work of one
  handler is of one kind and no two tasks are the same (`OneKind`,
  `TasksDiffer`), that a task to acquire has no row yet and one to finish has
  one (`TasksFit`), that at each statement the row, the holder and the bit are
  as the statements before left them (`StepFits`), that a stopped bridge holds
  nothing (`DownIsIdle`), and that a claim is never on somebody else's bit
  (`ClaimsAreOurs`).
* `OthersProtectionStays`, `Spec => NotOursStaysTheirs`, from `ClaimsAreOurs`:
  the only step that frees a bit is `GiveBack`, and it runs on a claim.

Only model-checked. Liveness and ENABLED are outside the prover:
`HistoriesSettle`, `CyclesSettle`, `LocksFollowPrograms`, `SharesRecover`,
`StatusSettles`, and what `SidesAreSeen` says beyond `RemovalsHold`.
Of the invariants, `Types` of the run `Appliance` is the one that no theorem
states as a whole: what the theorems above need of the types of its parts is in
their invariants.

Induction over data. The library's induction theorems take an operator and cannot
be used here, so where a proof needs induction (the loop of the planner, the
replay of the buffer, the sliding window, the drained queue, the widths of the
network) it takes the least number at which the claim fails (`Least`,
`LeastNumber`: the naturals are well-founded) and refutes it. For that, the
models write such loops as functions over `0..n` rather than with the folds of
the community modules.

## 6. Not modelled, and what is left

Each row of `components` in `PROJECT.json` says what of its part is left out.
Left out as a whole:

* the hasher and the exclusion policies, secrets, path checks, the parsers and
  renderers of text: pure functions, whose results the models take as given;
* the conflict resolver: `resolve()` has no caller; a conflict is settled by
  the diff engine and the version store;
* the web server's middleware and wiring, and the security services: the
  handlers that change modelled state are actions where that state is;
* the rest of the frontend: layout, translation, charts;
* whatever nothing in the service calls, such as `moveFile`, `sweepOrphans` and
  the token bucket. The scanner and the cache watcher are modelled although only
  tests start them, as they are written to run beside the orchestrator.

What could be next:

1. `Locks` with `Orchestrator` over one file: a push renames over a server file
   that the bridge's own lock made read-only, and paths whose lock is active are
   deferred by a table read once.
2. Runs for two statements in the comments of the lock manager that the model
   does not bear out: the sweep at start clears no bit of an active lock, and
   only abandoned locks expire. And for those of section 4 about captures, an outage
   in the middle of a cycle, users without a password, and the manual rollback.
3. A theorem for `Types` of the run `Appliance`.
4. The remaining verbs of the helper (`write-hosts`, the unban of fail2ban), API
   tokens, and the encryption of settings across a changed key.
