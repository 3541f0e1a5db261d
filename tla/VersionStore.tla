---------------------------- MODULE VersionStore ----------------------------
(***************************************************************************)
(* The version history of one share: rows of file_versions, content in a   *)
(* store addressed by its digest, and the operations that run at once over *)
(* them (versioning/version-store.ts, blob-store.ts, cleanup.ts).  Each is *)
(* split where the code awaits: a capture hashes its source, looks for the *)
(* content, copies it, inserts the row; a deletion commits the row's end   *)
(* and then unlinks the content; a restore captures what it is about to    *)
(* replace and then writes the version over it.                            *)
(*                                                                         *)
(* A content is its own digest.  blobs[c] is what is stored at the address *)
(* of c, which need not be c: the source is read twice, and may change in  *)
(* between.  A row's id is the next rowid, one more than the largest.      *)
(***************************************************************************)
EXTENDS Retention

CONSTANTS
    Paths, Contents,
    NoFile,          \* no content: a file or a blob that is not there
    Workers,         \* operations that may be under way at once
    KeepCount, KeepDays,
    MaxCaptures, MaxSaves, MaxCrashes, MaxClock   \* bounds

ASSUME RetentionAssumption == KeepCount \in Nat /\ KeepDays \in Nat
ASSUME ContentAssumption == NoFile \notin Contents /\ NoFile \notin Paths

VARIABLES
    files,    \* [Paths -> content]: the files, in the cache or on the server
    blobs,    \* [Contents -> content]: what is stored at each address
    rows,     \* the rows of file_versions
    worker,   \* [Workers -> the operation under way]
    clock,
    raced,    \* history: contents a capture registered while they were removed
    spent

vars == <<files, blobs, rows, worker, clock, raced, spent>>

(* Contents are alike, and so are the operations: what TLC may exchange.   *)
Symmetry == Permutations(Contents) \cup Permutations(Workers)

Policy == [keepCount |-> KeepCount, keepDays |-> KeepDays]
Ids == {r.id : r \in rows}
Idle == [pc |-> "idle", path |-> NoFile, digest |-> NoFile,
         restoring |-> NoFile, todo |-> {}]

Init ==
    /\ files \in [Paths -> Contents \cup {NoFile}]
    /\ blobs = [c \in Contents |-> NoFile]
    /\ rows = {}
    /\ worker = [w \in Workers |-> Idle]
    /\ clock = 0
    /\ raced = {}
    /\ spent = [captures |-> 0, saves |-> 0, crashes |-> 0]

Bound == [captures |-> MaxCaptures, saves |-> MaxSaves, crashes |-> MaxCrashes]
Spend(b) == spent[b] < Bound[b] /\ spent' = [spent EXCEPT ![b] = @ + 1]

-----------------------------------------------------------------------------
(* capture(): hash the source, find or write the blob, insert the row.     *)

Hashing(p, restoring) ==
    [pc |-> "locate", path |-> p, digest |-> files[p],
     restoring |-> restoring, todo |-> {}]

CaptureStart(w, p) ==
    /\ worker[w].pc = "idle" /\ files[p] # NoFile
    /\ Spend("captures")
    /\ worker' = [worker EXCEPT ![w] = Hashing(p, NoFile)]
    /\ UNCHANGED <<files, blobs, rows, clock, raced>>

CaptureLocate(w) ==
    /\ worker[w].pc = "locate"
    /\ worker' = [worker EXCEPT ![w].pc =
                    IF blobs[worker[w].digest] = NoFile THEN "copy" ELSE "insert"]
    /\ UNCHANGED <<files, blobs, rows, clock, raced, spent>>

(* The second read of the source: a temporary file, renamed when complete. *)
CaptureCopy(w) ==
    /\ worker[w].pc = "copy" /\ files[worker[w].path] # NoFile
    /\ blobs' = [blobs EXCEPT ![worker[w].digest] = files[worker[w].path]]
    /\ worker' = [worker EXCEPT ![w].pc = "insert"]
    /\ UNCHANGED <<files, rows, clock, raced, spent>>

(* The source is gone, or the disk refuses: nothing is registered.         *)
CaptureFails(w) ==
    /\ worker[w].pc = "copy"
    /\ worker' = [worker EXCEPT ![w] = Idle]
    /\ UNCHANGED <<files, blobs, rows, clock, raced, spent>>

(* Mutant: the new id is the number of rows. *)
NextIdCounts == Cardinality(rows) + 1

NextId == IF rows = {} THEN 1
          ELSE 1 + CHOOSE i \in Ids : \A j \in Ids : j <= i

BeingUnlinked == {worker[w].digest : w \in {v \in Workers : worker[v].pc = "unlink"}}

CaptureInsert(w) ==
    /\ worker[w].pc = "insert"
    /\ rows' = rows \cup {[id |-> NextId, path |-> worker[w].path,
                           hash |-> worker[w].digest, created |-> clock,
                           pinned |-> FALSE]}
    /\ raced' = raced \cup ({worker[w].digest} \cap BeingUnlinked)
    /\ worker' = [worker EXCEPT
                    ![w] = IF worker[w].restoring = NoFile THEN Idle
                           ELSE [worker[w] EXCEPT !.pc = "extract"]]
    /\ UNCHANGED <<files, blobs, clock, spent>>

-----------------------------------------------------------------------------
(* restore(): the file that is there is captured first.                    *)

RestoreStart(w, r, target) ==
    /\ worker[w].pc = "idle" /\ r \in rows
    /\ Spend("captures")
    /\ worker' = [worker EXCEPT
                    ![w] = IF files[target] # NoFile THEN Hashing(target, r.hash)
                           ELSE [Idle EXCEPT !.pc = "extract", !.path = target,
                                             !.restoring = r.hash]]
    /\ UNCHANGED <<files, blobs, rows, clock, raced>>

(* Mutant: what comes out of the store is not hashed. *)
RestoreExtractUnverified(w) ==
    /\ worker[w].pc = "extract"
    /\ files' = IF blobs[worker[w].restoring] # NoFile
                  THEN [files EXCEPT ![worker[w].path] = blobs[worker[w].restoring]]
                  ELSE files
    /\ worker' = [worker EXCEPT ![w] = Idle]
    /\ UNCHANGED <<blobs, rows, clock, raced, spent>>

(* extractTo: a blob that is missing, or does not hash to its address, is  *)
(* refused and the target is left alone.                                   *)
RestoreExtract(w) ==
    /\ worker[w].pc = "extract"
    /\ files' = IF blobs[worker[w].restoring] = worker[w].restoring
                  THEN [files EXCEPT ![worker[w].path] = worker[w].restoring]
                  ELSE files
    /\ worker' = [worker EXCEPT ![w] = Idle]
    /\ UNCHANGED <<blobs, rows, clock, raced, spent>>

-----------------------------------------------------------------------------
(* delete(): the row goes in a transaction that counts the other rows of   *)
(* the same content; the content, when there are none, afterwards.         *)

GoOn(job) == IF job.todo = {} THEN Idle ELSE [job EXCEPT !.pc = "prune"]

(* Mutant: the content goes with the row. *)
DeleteRowAndContent(w, r, job) ==
    /\ rows' = rows \ {r}
    /\ worker' = [worker EXCEPT
                    ![w] = [job EXCEPT !.pc = "unlink", !.digest = r.hash]]

DeleteRow(w, r, job) ==
    /\ rows' = rows \ {r}
    /\ worker' = [worker EXCEPT
                    ![w] = IF \E other \in rows \ {r} : other.hash = r.hash
                             THEN GoOn(job)
                             ELSE [job EXCEPT !.pc = "unlink", !.digest = r.hash]]

(* The route's delete, which refuses a pinned version. *)
Delete(w, r) ==
    /\ worker[w].pc = "idle" /\ r \in rows /\ ~r.pinned
    /\ DeleteRow(w, r, Idle)
    /\ UNCHANGED <<files, blobs, clock, raced, spent>>

Registered == {worker[w].digest : w \in {v \in Workers : worker[v].pc = "insert"}}

Unlink(w) ==
    /\ worker[w].pc = "unlink"
    /\ blobs' = [blobs EXCEPT ![worker[w].digest] = NoFile]
    /\ raced' = raced \cup ({worker[w].digest} \cap Registered)
    /\ worker' = [worker EXCEPT ![w] = GoOn(worker[w])]
    /\ UNCHANGED <<files, rows, clock, spent>>

(* A prune pass: the plan is made once, then each id is deleted in turn; an *)
(* id that is no longer there is a recorded failure.                        *)
PruneStart(w) ==
    /\ worker[w].pc = "idle"
    /\ LET plan == PlanRetention(rows, Policy, {}, clock)
       IN  /\ plan # {}
           /\ worker' = [worker EXCEPT ![w] = [Idle EXCEPT !.pc = "prune",
                                                 !.todo = {id \in Ids : \E v \in plan : v.id = id}]]
    /\ UNCHANGED <<files, blobs, rows, clock, raced, spent>>

PruneNext(w, id) ==
    /\ worker[w].pc = "prune" /\ id \in worker[w].todo
    /\ LET job == [worker[w] EXCEPT !.todo = @ \ {id}]
       IN  \/ \E r \in rows : r.id = id /\ DeleteRow(w, r, job)
           \/ /\ id \notin Ids
              /\ worker' = [worker EXCEPT ![w] = GoOn(job)]
              /\ UNCHANGED rows
    /\ UNCHANGED <<files, blobs, clock, raced, spent>>

-----------------------------------------------------------------------------
SetPinned(r) ==
    /\ r \in rows
    /\ rows' = (rows \ {r}) \cup {[r EXCEPT !.pinned = ~@]}
    /\ UNCHANGED <<files, blobs, worker, clock, raced, spent>>

Save(p) ==
    /\ Spend("saves")
    /\ \E c \in (Contents \cup {NoFile}) \ {files[p]} : files' = [files EXCEPT ![p] = c]
    /\ UNCHANGED <<blobs, rows, worker, clock, raced>>

Tick ==
    /\ clock < MaxClock /\ clock' = clock + 1
    /\ UNCHANGED <<files, blobs, rows, worker, raced, spent>>

Crash ==
    /\ Spend("crashes")
    /\ worker' = [w \in Workers |-> Idle]
    /\ UNCHANGED <<files, blobs, rows, clock, raced>>

Next ==
    \/ \E w \in Workers :
         \/ \E p \in Paths : CaptureStart(w, p)
         \/ CaptureLocate(w) \/ CaptureCopy(w) \/ CaptureFails(w) \/ CaptureInsert(w)
         \/ \E r \in rows, p \in Paths : RestoreStart(w, r, p)
         \/ RestoreExtract(w)
         \/ \E r \in rows : Delete(w, r)
         \/ Unlink(w) \/ PruneStart(w)
         \/ \E id \in worker[w].todo : PruneNext(w, id)
    \/ \E r \in rows : SetPinned(r)
    \/ \E p \in Paths : Save(p)
    \/ Tick \/ Crash

Spec == Init /\ [][Next]_vars

-----------------------------------------------------------------------------
Stored == Contents \cup {NoFile}
Jobs == [pc : {"idle", "locate", "copy", "insert", "extract", "unlink", "prune"},
         path : Paths \cup {NoFile}, digest : Stored, restoring : Stored,
         todo : SUBSET Nat]

(* What every variable holds; no two rows have one id. *)
TypeOK ==
    /\ files \in [Paths -> Stored]
    /\ blobs \in [Contents -> Stored]
    /\ rows \subseteq [id : Nat, path : Paths, hash : Contents, created : Nat,
                       pinned : BOOLEAN]
    /\ \A r, s \in rows : r.id = s.id => r = s
    /\ worker \in [Workers -> Jobs]
    /\ clock \in Nat
    /\ raced \subseteq Contents

(* A version loses its content in one way only: the same content was being *)
(* deleted while it was captured.  No crash, no shared content, no prune    *)
(* pass and no failed capture leaves a row without a blob.                  *)
ContentIsLostOnlyToARace ==
    \A r \in rows : blobs[r.hash] = NoFile => r.hash \in raced

(* A restore writes the version it was asked for or nothing, though what    *)
(* the store holds under an address may be something else: the file was     *)
(* saved between the two reads of its capture.                              *)
RestoreGivesTheVersion ==
    [][\A w \in Workers : (worker[w].pc = "extract" /\ worker'[w] = Idle
                           /\ files'[worker[w].path] # files[worker[w].path])
          => files'[worker[w].path] = worker[w].restoring]_vars

(* What a prune pass would remove is what the rules at the head of           *)
(* retention.ts say, whatever is pinned and whatever a conflict refers to.   *)
PlanFollowsThePolicy ==
    \A referenced \in SUBSET Ids :
       PlanRetention(rows, Policy, referenced, clock)
         = DocumentedPlan(rows, Policy, referenced, clock)

(* "so a concurrent capture of the same content cannot slip between them and *)
(* lose its blob" (version-store.ts, delete): refuted by a run of its own.   *)
RowsHaveBlobs == \A r \in rows : blobs[r.hash] # NoFile
=============================================================================
