------------------------ MODULE VersionStore_proofs ------------------------
(***************************************************************************)
(* Proofs about VersionStore, for any number of operations at once, files  *)
(* and contents: its type invariant, that a version loses its content only *)
(* to a deletion of the same content that overlapped its capture, that a   *)
(* restore writes the version that was picked, and that what the plan of   *)
(* the deletions keeps follows the policy, for any rows there may be.      *)
(***************************************************************************)
EXTENDS VersionStore, TLAPS, FiniteSetTheorems, WellFoundedInduction

(* What an operation holds when it is about to use it. *)
Fit(j) ==
    /\ j.pc \in {"locate", "copy", "insert", "extract"} => j.path \in Paths
    /\ j.pc \in {"locate", "copy", "insert", "unlink"} => j.digest \in Contents
    /\ j.pc = "extract" => j.restoring \in Contents

(* Every set of ids in use has a largest, which is what makes the next one. *)
Ordered == \A S \in SUBSET Ids : S # {} => \E i \in S : \A j \in S : j <= i
TypeInv == TypeOK /\ Ordered /\ \A w \in Workers : Fit(worker[w])

(* A row's content is stored, or was registered while it was being removed. *)
Kept(c) == blobs[c] # NoFile \/ c \in raced
Safe ==
    /\ \A r \in rows : Kept(r.hash)
    /\ \A w \in Workers : worker[w].pc = "insert" => Kept(worker[w].digest)
    /\ \A w \in Workers : \A r \in rows :
         (worker[w].pc = "unlink" /\ r.hash = worker[w].digest) => r.hash \in raced

LEMMA IdleIsAJob == Idle \in Jobs /\ Fit(Idle) /\ Idle.pc = "idle"
BY DEF Idle, Jobs, Fit, Stored

LEMMA NextIdIsNew ==
    ASSUME TypeInv
    PROVE  NextId \in Nat /\ \A i \in Ids : i < NextId
<1>1. Ids \subseteq Nat /\ (rows = {} <=> Ids = {})
  BY DEF TypeInv, TypeOK, Ids
<1>2. CASE rows = {}
  BY <1>1, <1>2 DEF NextId
<1>3. CASE rows # {}
  <2>1. \E i \in Ids : \A j \in Ids : j <= i
    BY <1>1, <1>3 DEF TypeInv, Ordered
  <2> DEFINE last == CHOOSE i \in Ids : \A j \in Ids : j <= i
  <2>2. last \in Ids /\ \A j \in Ids : j <= last
    BY <2>1
  <2>3. NextId = 1 + last
    BY <1>3 DEF NextId
  <2> HIDE DEF last
  <2> QED
    BY <1>1, <2>2, <2>3
<1> QED
  BY <1>2, <1>3

LEMMA TypeInit == Init => TypeInv
<1> SUFFICES ASSUME Init PROVE TypeInv
  OBVIOUS
<1>1. TypeOK
  BY IdleIsAJob DEF Init, TypeOK, Stored
<1>2. Ordered
  BY DEF Init, Ordered, Ids
<1>3. \A w \in Workers : Fit(worker[w])
  BY IdleIsAJob DEF Init
<1> QED
  BY <1>1, <1>2, <1>3 DEF TypeInv

(* What an operation turns into. *)
LEMMA Moves ==
    ASSUME NEW j \in Jobs, NEW pc \in {"copy", "insert", "extract", "prune"}
    PROVE  /\ [j EXCEPT !.pc = pc] \in Jobs
           /\ [j EXCEPT !.pc = pc].pc = pc
           /\ [j EXCEPT !.pc = pc].path = j.path
           /\ [j EXCEPT !.pc = pc].digest = j.digest
           /\ [j EXCEPT !.pc = pc].restoring = j.restoring
BY DEF Jobs

LEMMA GoesOn ==
    ASSUME NEW j \in Jobs
    PROVE  GoOn(j) \in Jobs /\ Fit(GoOn(j)) /\ GoOn(j).pc \in {"idle", "prune"}
<1>1. [j EXCEPT !.pc = "prune"] \in Jobs /\ [j EXCEPT !.pc = "prune"].pc = "prune"
  BY DEF Jobs
<1> QED
  BY <1>1, IdleIsAJob DEF GoOn, Fit

LEMMA Unlinks ==
    ASSUME NEW j \in Jobs, NEW c \in Contents
    PROVE  LET k == [j EXCEPT !.pc = "unlink", !.digest = c]
           IN  k \in Jobs /\ Fit(k) /\ k.pc = "unlink" /\ k.digest = c
BY DEF Jobs, Fit, Stored

LEMMA Hashes ==
    ASSUME TypeOK, NEW p \in Paths, files[p] # NoFile, NEW c \in Stored
    PROVE  Hashing(p, c) \in Jobs /\ Fit(Hashing(p, c)) /\ Hashing(p, c).pc = "locate"
BY DEF TypeOK, Hashing, Jobs, Fit, Stored

LEMMA WorkerUpdate ==
    ASSUME TypeInv, NEW w \in Workers, NEW j \in Jobs, Fit(j),
           worker' = [worker EXCEPT ![w] = j]
    PROVE  worker' \in [Workers -> Jobs] /\ \A v \in Workers : Fit(worker'[v])
BY DEF TypeInv, TypeOK

LEMMA RowsStay ==
    ASSUME TypeInv, rows' \subseteq rows
    PROVE  /\ rows' \subseteq [id : Nat, path : Paths, hash : Contents,
                               created : Nat, pinned : BOOLEAN]
           /\ \A r, s \in rows' : r.id = s.id => r = s
           /\ Ordered'
<1>1. Ids' \subseteq Ids
  BY DEF Ids
<1>2. Ordered'
  BY <1>1 DEF TypeInv, Ordered
<1> QED
  BY <1>2 DEF TypeInv, TypeOK

(* Deletion is a step of the route and of the prune pass alike. *)
LEMMA Deletes ==
    ASSUME TypeInv, NEW w \in Workers, NEW r \in rows, NEW j \in Jobs,
           DeleteRow(w, r, j)
    PROVE  /\ rows' \subseteq rows
           /\ worker' \in [Workers -> Jobs] /\ \A v \in Workers : Fit(worker'[v])
           /\ worker' = [worker EXCEPT ![w] = worker'[w]]
           /\ worker'[w].pc \in {"idle", "prune", "unlink"}
           /\ worker'[w].pc = "unlink" => \A s \in rows' : s.hash # worker'[w].digest
<1>1. r.hash \in Contents
  BY DEF TypeInv, TypeOK
<1>2. CASE \E other \in rows \ {r} : other.hash = r.hash
  <2>1. worker' = [worker EXCEPT ![w] = GoOn(j)] /\ rows' = rows \ {r}
    BY <1>2 DEF DeleteRow
  <2>2. GoOn(j) \in Jobs /\ Fit(GoOn(j)) /\ GoOn(j).pc \in {"idle", "prune"}
    BY GoesOn
  <2>3. worker' \in [Workers -> Jobs] /\ \A v \in Workers : Fit(worker'[v])
    BY <2>1, <2>2, WorkerUpdate
  <2>4. worker'[w] = GoOn(j)
    BY <2>1 DEF TypeInv, TypeOK
  <2> QED
    BY <2>1, <2>2, <2>3, <2>4
<1>3. CASE ~\E other \in rows \ {r} : other.hash = r.hash
  <2> DEFINE k == [j EXCEPT !.pc = "unlink", !.digest = r.hash]
  <2>1. worker' = [worker EXCEPT ![w] = k] /\ rows' = rows \ {r}
    BY <1>3 DEF DeleteRow
  <2>2. k \in Jobs /\ Fit(k) /\ k.pc = "unlink" /\ k.digest = r.hash
    BY <1>1, Unlinks
  <2> HIDE DEF k
  <2>3. worker' \in [Workers -> Jobs] /\ \A v \in Workers : Fit(worker'[v])
    BY <2>1, <2>2, WorkerUpdate
  <2>4. worker'[w] = k
    BY <2>1 DEF TypeInv, TypeOK
  <2> QED
    BY <1>3, <2>1, <2>2, <2>3, <2>4
<1> QED
  BY <1>2, <1>3

LEMMA RowsSame ==
    ASSUME TypeInv, rows' = rows
    PROVE  /\ rows' \subseteq [id : Nat, path : Paths, hash : Contents,
                               created : Nat, pinned : BOOLEAN]
           /\ \A r, s \in rows' : r.id = s.id => r = s
           /\ Ordered'
BY RowsStay

LEMMA TypeNext == TypeInv /\ [Next]_vars => TypeInv'
<1> SUFFICES ASSUME TypeInv, [Next]_vars PROVE TypeInv'
  OBVIOUS
<1> USE DEF TypeInv
<1> DEFINE RowsTyped == /\ rows' \subseteq [id : Nat, path : Paths, hash : Contents,
                                            created : Nat, pinned : BOOLEAN]
                        /\ \A r, s \in rows' : r.id = s.id => r = s
                        /\ Ordered'
           WorkersTyped == worker' \in [Workers -> Jobs]
                           /\ \A v \in Workers : Fit(worker'[v])
<1>1. ASSUME NEW w \in Workers, NEW p \in Paths, CaptureStart(w, p)
      PROVE  TypeInv'
  <2>1. Hashing(p, NoFile) \in Jobs /\ Fit(Hashing(p, NoFile))
    BY <1>1, Hashes DEF CaptureStart, Stored
  <2>2. WorkersTyped
    BY <1>1, <2>1, WorkerUpdate DEF CaptureStart
  <2>3. RowsTyped
    BY <1>1, RowsSame DEF CaptureStart
  <2> QED
    BY <1>1, <2>2, <2>3 DEF CaptureStart, TypeOK
<1>2. ASSUME NEW w \in Workers, CaptureLocate(w)
      PROVE  TypeInv'
  <2>2. worker[w] \in Jobs /\ Fit(worker[w])
    BY DEF TypeOK
  <2>3. ASSUME blobs[worker[w].digest] = NoFile
       PROVE  WorkersTyped
    <3> DEFINE j == [worker[w] EXCEPT !.pc = "copy"]
    <3>1. worker' = [worker EXCEPT ![w] = j] /\ worker[w].pc = "locate"
      BY <1>2, <2>3 DEF CaptureLocate
    <3>2. j \in Jobs /\ j.pc = "copy" /\ j.path = worker[w].path
          /\ j.digest = worker[w].digest
      BY <2>2, Moves
    <3>3. Fit(j)
      BY <2>2, <3>1, <3>2 DEF Fit
    <3> HIDE DEF j
    <3> QED
      BY <3>1, <3>2, <3>3, WorkerUpdate
  <2>4. ASSUME blobs[worker[w].digest] # NoFile
       PROVE  WorkersTyped
    <3> DEFINE j == [worker[w] EXCEPT !.pc = "insert"]
    <3>1. worker' = [worker EXCEPT ![w] = j] /\ worker[w].pc = "locate"
      BY <1>2, <2>4 DEF CaptureLocate
    <3>2. j \in Jobs /\ j.pc = "insert" /\ j.path = worker[w].path
          /\ j.digest = worker[w].digest
      BY <2>2, Moves
    <3>3. Fit(j)
      BY <2>2, <3>1, <3>2 DEF Fit
    <3> HIDE DEF j
    <3> QED
      BY <3>1, <3>2, <3>3, WorkerUpdate
  <2>5. WorkersTyped
    BY <2>3, <2>4
  <2>6. RowsTyped
    BY <1>2, RowsSame DEF CaptureLocate
  <2> QED
    BY <1>2, <2>5, <2>6 DEF CaptureLocate, TypeOK
<1>3. ASSUME NEW w \in Workers, CaptureCopy(w)
      PROVE  TypeInv'
  <2> DEFINE j == [worker[w] EXCEPT !.pc = "insert"]
  <2>1. worker' = [worker EXCEPT ![w] = j] /\ worker[w].pc = "copy"
    BY <1>3 DEF CaptureCopy
  <2>2. worker[w] \in Jobs /\ Fit(worker[w])
    BY DEF TypeOK
  <2>3. j \in Jobs /\ j.pc = "insert" /\ j.path = worker[w].path
        /\ j.digest = worker[w].digest
    BY <2>2, Moves
  <2>4. Fit(j)
    BY <2>1, <2>2, <2>3 DEF Fit
  <2> HIDE DEF j
  <2>5. WorkersTyped
    BY <2>1, <2>3, <2>4, WorkerUpdate
  <2>6. RowsTyped
    BY <1>3, RowsSame DEF CaptureCopy
  <2>7. worker[w].path \in Paths
    BY <2>1, <2>2 DEF Fit
  <2>8. blobs' \in [Contents -> Stored]
    BY <1>3, <2>7 DEF CaptureCopy, TypeOK
  <2> QED
    BY <1>3, <2>5, <2>6, <2>8 DEF CaptureCopy, TypeOK
<1>4. ASSUME NEW w \in Workers, CaptureFails(w)
      PROVE  TypeInv'
  <2>1. WorkersTyped
    BY <1>4, IdleIsAJob, WorkerUpdate DEF CaptureFails
  <2>2. RowsTyped
    BY <1>4, RowsSame DEF CaptureFails
  <2> QED
    BY <1>4, <2>1, <2>2 DEF CaptureFails, TypeOK
<1>5. ASSUME NEW w \in Workers, CaptureInsert(w)
      PROVE  TypeInv'
  <2> DEFINE j == IF worker[w].restoring = NoFile THEN Idle
                  ELSE [worker[w] EXCEPT !.pc = "extract"]
             row == [id |-> NextId, path |-> worker[w].path,
                     hash |-> worker[w].digest, created |-> clock,
                     pinned |-> FALSE]
  <2>1. worker' = [worker EXCEPT ![w] = j] /\ worker[w].pc = "insert"
    BY <1>5 DEF CaptureInsert
  <2>2. worker[w] \in Jobs /\ Fit(worker[w])
    BY DEF TypeOK
  <2>3. worker[w].path \in Paths /\ worker[w].digest \in Contents
    BY <2>1, <2>2 DEF Fit
  <2>4. worker[w].restoring \in Contents \cup {NoFile}
    BY <2>2 DEF Jobs, Stored
  <2>5. j \in Jobs /\ Fit(j)
    BY <2>2, <2>3, <2>4, IdleIsAJob, Moves DEF Fit
  <2> HIDE DEF j
  <2>6. WorkersTyped
    BY <2>1, <2>5, WorkerUpdate
  <2>7. NextId \in Nat /\ \A i \in Ids : i < NextId
    BY NextIdIsNew
  <2>8. row \in [id : Nat, path : Paths, hash : Contents, created : Nat,
                 pinned : BOOLEAN] /\ row.id = NextId
    BY <2>3, <2>7 DEF TypeOK
  <2> HIDE DEF row
  <2>9. rows' = rows \cup {row}
    BY <1>5 DEF CaptureInsert, row
  <2>10. Ids' = Ids \cup {NextId} /\ Ids \subseteq Nat
    BY <2>8, <2>9 DEF Ids, TypeOK
  <2>11. \A r \in rows : r.id < NextId
    BY <2>7 DEF Ids
  <2>12. \A r, s \in rows' : r.id = s.id => r = s
    <3> SUFFICES ASSUME NEW r \in rows', NEW s \in rows', r.id = s.id
                 PROVE  r = s
      OBVIOUS
    <3>1. r \in rows => r.id \in Nat
      BY DEF TypeOK
    <3>2. s \in rows => s.id \in Nat
      BY DEF TypeOK
    <3> QED
      BY <3>1, <3>2, <2>7, <2>8, <2>9, <2>11 DEF TypeOK
  <2>13. Ordered'
    <3> SUFFICES ASSUME NEW S \in SUBSET (Ids \cup {NextId}), S # {}
                 PROVE  \E i \in S : \A j_1 \in S : j_1 <= i
      BY <2>10 DEF Ordered
    <3>1. CASE NextId \in S
      BY <3>1, <2>7, <2>10
    <3>2. CASE NextId \notin S
      BY <3>2 DEF Ordered
    <3> QED
      BY <3>1, <3>2
  <2>14. raced' \subseteq Contents
    BY <1>5, <2>3 DEF CaptureInsert, TypeOK
  <2> QED
    BY <1>5, <2>6, <2>8, <2>9, <2>12, <2>13, <2>14 DEF CaptureInsert, TypeOK
<1>6. ASSUME NEW w \in Workers, NEW r \in rows, NEW p \in Paths, RestoreStart(w, r, p)
      PROVE  TypeInv'
  <2> DEFINE k == [Idle EXCEPT !.pc = "extract", !.path = p, !.restoring = r.hash]
             j == IF files[p] # NoFile THEN Hashing(p, r.hash) ELSE k
  <2>1. worker' = [worker EXCEPT ![w] = j]
    BY <1>6 DEF RestoreStart
  <2>2. r.hash \in Contents
    BY DEF TypeOK
  <2>3. k \in Jobs /\ Fit(k)
    BY <2>2 DEF Idle, Jobs, Fit, Stored
  <2>4. j \in Jobs /\ Fit(j)
    <3> HIDE DEF k
    <3> QED
      BY <2>2, <2>3, Hashes DEF Stored
  <2> HIDE DEF j
  <2>5. WorkersTyped
    BY <2>1, <2>4, WorkerUpdate
  <2>6. RowsTyped
    BY <1>6, RowsSame DEF RestoreStart
  <2> QED
    BY <1>6, <2>5, <2>6 DEF RestoreStart, TypeOK
<1>7. ASSUME NEW w \in Workers, RestoreExtract(w)
      PROVE  TypeInv'
  <2>1. WorkersTyped
    BY <1>7, IdleIsAJob, WorkerUpdate DEF RestoreExtract
  <2>2. RowsTyped
    BY <1>7, RowsSame DEF RestoreExtract
  <2>3. worker[w].restoring \in Contents
    BY <1>7 DEF RestoreExtract, Fit
  <2>4. files' \in [Paths -> Stored]
    BY <1>7, <2>3 DEF RestoreExtract, TypeOK, Stored
  <2> QED
    BY <1>7, <2>1, <2>2, <2>4 DEF RestoreExtract, TypeOK
<1>8. ASSUME NEW w \in Workers, NEW r \in rows, Delete(w, r)
      PROVE  TypeInv'
  <2>1. WorkersTyped /\ rows' \subseteq rows
    BY <1>8, IdleIsAJob, Deletes DEF Delete
  <2>2. RowsTyped
    BY <2>1, RowsStay
  <2> QED
    BY <1>8, <2>1, <2>2 DEF Delete, TypeOK
<1>9. ASSUME NEW w \in Workers, Unlink(w)
      PROVE  TypeInv'
  <2>1. worker[w] \in Jobs /\ worker[w].digest \in Contents
    BY <1>9 DEF Unlink, TypeOK, Fit
  <2>2. WorkersTyped
    BY <1>9, <2>1, GoesOn, WorkerUpdate DEF Unlink
  <2>3. RowsTyped
    BY <1>9, RowsSame DEF Unlink
  <2>4. blobs' \in [Contents -> Stored] /\ raced' \subseteq Contents
    BY <1>9, <2>1 DEF Unlink, TypeOK, Stored
  <2> QED
    BY <1>9, <2>2, <2>3, <2>4 DEF Unlink, TypeOK
<1>10. ASSUME NEW w \in Workers, PruneStart(w)
       PROVE  TypeInv'
  <2>1. PICK todo \in SUBSET Ids :
          worker' = [worker EXCEPT ![w] = [Idle EXCEPT !.pc = "prune", !.todo = todo]]
    BY <1>10 DEF PruneStart
  <2>2. Ids \subseteq Nat
    BY DEF Ids, TypeOK
  <2> DEFINE j == [Idle EXCEPT !.pc = "prune", !.todo = todo]
  <2>3. j \in Jobs /\ Fit(j)
    BY <2>2 DEF Idle, Jobs, Fit, Stored
  <2> HIDE DEF j
  <2>4. WorkersTyped
    BY <2>1, <2>3, WorkerUpdate DEF j
  <2>5. RowsTyped
    BY <1>10, RowsSame DEF PruneStart
  <2> QED
    BY <1>10, <2>4, <2>5 DEF PruneStart, TypeOK
<1>11. ASSUME NEW w \in Workers, NEW id \in worker[w].todo, PruneNext(w, id)
       PROVE  TypeInv'
  <2> DEFINE j == [worker[w] EXCEPT !.todo = @ \ {id}]
  <2>1. worker[w] \in Jobs
    BY DEF TypeOK
  <2>2. j \in Jobs
    BY <2>1 DEF Jobs
  <2> HIDE DEF j
  <2>3. \/ \E r \in rows : DeleteRow(w, r, j)
        \/ worker' = [worker EXCEPT ![w] = GoOn(j)] /\ UNCHANGED rows
    BY <1>11 DEF PruneNext, j
  <2>4. WorkersTyped /\ rows' \subseteq rows
    <3>1. CASE \E r \in rows : DeleteRow(w, r, j)
      BY <2>2, <3>1, Deletes
    <3>2. CASE worker' = [worker EXCEPT ![w] = GoOn(j)] /\ UNCHANGED rows
      <4>1. GoOn(j) \in Jobs /\ Fit(GoOn(j))
        BY <2>2, GoesOn
      <4> QED
        BY <3>2, <4>1, WorkerUpdate
    <3> QED
      BY <2>3, <3>1, <3>2
  <2>5. RowsTyped
    BY <2>4, RowsStay
  <2> QED
    BY <1>11, <2>4, <2>5 DEF PruneNext, TypeOK
<1>12. ASSUME NEW r \in rows, SetPinned(r)
       PROVE  TypeInv'
  <2> DEFINE s == [r EXCEPT !.pinned = ~@]
  <2>1. s \in [id : Nat, path : Paths, hash : Contents, created : Nat,
               pinned : BOOLEAN] /\ s.id = r.id
    BY DEF TypeOK
  <2>2. rows' = (rows \ {r}) \cup {s}
    BY <1>12 DEF SetPinned
  <2> HIDE DEF s
  <2>3. rows' \subseteq [id : Nat, path : Paths, hash : Contents, created : Nat,
                         pinned : BOOLEAN]
    BY <2>1, <2>2 DEF TypeOK
  <2>4. \A a, b \in rows' : a.id = b.id => a = b
    BY <2>1, <2>2 DEF TypeOK
  <2>5. Ids' \subseteq Ids
    BY <2>1, <2>2 DEF Ids
  <2>6. Ordered'
    BY <2>5 DEF Ordered
  <2> QED
    BY <1>12, <2>3, <2>4, <2>6 DEF SetPinned, TypeOK
<1>13. ASSUME NEW p \in Paths, Save(p)
       PROVE  TypeInv'
  <2>1. RowsTyped
    BY <1>13, RowsSame DEF Save
  <2>2. files' \in [Paths -> Stored]
    BY <1>13 DEF Save, TypeOK, Stored
  <2> QED
    BY <1>13, <2>1, <2>2 DEF Save, TypeOK
<1>14. ASSUME Tick
       PROVE  TypeInv'
  <2>1. RowsTyped
    BY <1>14, RowsSame DEF Tick
  <2> QED
    BY <1>14, <2>1 DEF Tick, TypeOK
<1>15. ASSUME Crash
       PROVE  TypeInv'
  <2>1. RowsTyped
    BY <1>15, RowsSame DEF Crash
  <2>2. WorkersTyped
    BY <1>15, IdleIsAJob DEF Crash
  <2> QED
    BY <1>15, <2>1, <2>2 DEF Crash, TypeOK
<1>16. CASE UNCHANGED vars
  <2>1. RowsTyped
    BY <1>16, RowsSame DEF vars
  <2> QED
    BY <1>16, <2>1 DEF vars, TypeOK
<1> QED
  BY <1>1, <1>2, <1>3, <1>4, <1>5, <1>6, <1>7, <1>8, <1>9, <1>10, <1>11, <1>12,
     <1>13, <1>14, <1>15, <1>16 DEF Next

LEMMA TypeInvariant == Spec => []TypeInv
BY TypeInit, TypeNext, PTL DEF Spec

(* Every variable keeps its type and no two rows share an id, though ids     *)
(* are reused once the newest row is gone (file_versions, id).               *)
THEOREM VersionsAreTyped == Spec => []TypeOK
<1>1. TypeInv => TypeOK
  BY DEF TypeInv
<1> QED
  BY <1>1, TypeInvariant, PTL

-----------------------------------------------------------------------------
(* No row loses its content but to a race. *)

LEMMA SafeInit == Init => Safe
BY IdleIsAJob DEF Init, Safe

LEMMA SafeNext == TypeInv /\ Safe /\ [Next]_vars => Safe'
<1> SUFFICES ASSUME TypeInv, Safe, [Next]_vars PROVE Safe'
  OBVIOUS
<1>0. worker \in [Workers -> Jobs] /\ \A w \in Workers : Fit(worker[w])
  BY DEF TypeInv, TypeOK
(* A step that changes neither the store nor the rows, and leaves no new    *)
(* operation about to insert or unlink.                                     *)
<1>a. ASSUME UNCHANGED <<blobs, rows, raced>>, NEW w \in Workers, NEW j \in Jobs,
             worker' = [worker EXCEPT ![w] = j], j.pc \notin {"insert", "unlink"}
      PROVE  Safe'
  <2>1. \A v \in Workers : worker'[v] = worker[v] \/ worker'[v] = j
    BY <1>0, <1>a
  <2> QED
    BY <2>1, <1>a DEF Safe, Kept
(* A deletion: the row it removes was the last of its content, or not.      *)
<1>b. ASSUME NEW w \in Workers, NEW r \in rows, NEW j \in Jobs, DeleteRow(w, r, j),
             UNCHANGED <<blobs, raced>>
      PROVE  Safe'
  <2>1. /\ rows' \subseteq rows
        /\ worker' = [worker EXCEPT ![w] = worker'[w]]
        /\ worker'[w].pc \in {"idle", "prune", "unlink"}
        /\ worker'[w].pc = "unlink" => \A s \in rows' : s.hash # worker'[w].digest
    BY <1>b, Deletes
  <2>2. \A v \in Workers : v # w => worker'[v] = worker[v]
    BY <1>0, <2>1
  <2>3. \A s \in rows' : Kept(s.hash)'
    BY <1>b, <2>1 DEF Safe, Kept
  <2>4. \A v \in Workers : worker'[v].pc = "insert" => Kept(worker[v].digest)'
    BY <1>b, <2>1, <2>2 DEF Safe, Kept
  <2>5. \A v \in Workers : worker'[v].pc = "insert" => v # w
    BY <2>1
  <2>6. \A v \in Workers : \A s \in rows' :
          (worker'[v].pc = "unlink" /\ s.hash = worker'[v].digest) => s.hash \in raced'
    BY <1>b, <2>1, <2>2 DEF Safe
  <2> QED
    BY <2>2, <2>3, <2>4, <2>5, <2>6 DEF Safe, Kept
<1>1. ASSUME NEW w \in Workers, NEW p \in Paths, CaptureStart(w, p)
      PROVE  Safe'
  <2>1. Hashing(p, NoFile) \in Jobs /\ Hashing(p, NoFile).pc = "locate"
    BY <1>1, Hashes DEF CaptureStart, Stored, TypeInv
  <2> QED
    BY <1>1, <1>a, <2>1 DEF CaptureStart
<1>2. ASSUME NEW w \in Workers, CaptureLocate(w)
      PROVE  Safe'
  <2>2. worker[w] \in Jobs
    BY <1>0
  <2>3. UNCHANGED <<blobs, rows, raced>>
    BY <1>2 DEF CaptureLocate
  <2>4. CASE blobs[worker[w].digest] = NoFile
    <3> DEFINE j == [worker[w] EXCEPT !.pc = "copy"]
    <3>1. worker' = [worker EXCEPT ![w] = j]
      BY <1>2, <2>4 DEF CaptureLocate
    <3>2. j \in Jobs /\ j.pc = "copy" /\ j.digest = worker[w].digest
      BY <2>2, Moves
    <3> HIDE DEF j
    <3> QED
      BY <1>a, <2>3, <3>1, <3>2
  <2>5. CASE blobs[worker[w].digest] # NoFile
    <3> DEFINE j == [worker[w] EXCEPT !.pc = "insert"]
    <3>1. worker' = [worker EXCEPT ![w] = j]
      BY <1>2, <2>5 DEF CaptureLocate
    <3>2. j \in Jobs /\ j.pc = "insert" /\ j.digest = worker[w].digest
      BY <2>2, Moves
    <3> HIDE DEF j
    <3>3. \A v \in Workers : v # w => worker'[v] = worker[v]
      BY <1>0, <3>1
    <3>4. worker'[w] = j
      BY <1>0, <3>1
    <3> QED
      BY <2>3, <2>5, <3>2, <3>3, <3>4 DEF Safe, Kept
  <2> QED
    BY <2>4, <2>5
<1>3. ASSUME NEW w \in Workers, CaptureCopy(w)
      PROVE  Safe'
  <2> DEFINE j == [worker[w] EXCEPT !.pc = "insert"]
             c == worker[w].digest
  <2>1. worker' = [worker EXCEPT ![w] = j] /\ worker[w].pc = "copy"
        /\ UNCHANGED <<rows, raced>>
    BY <1>3 DEF CaptureCopy
  <2>2. worker[w] \in Jobs /\ c \in Contents
    BY <1>0, <2>1 DEF Fit
  <2>3. j \in Jobs /\ j.pc = "insert" /\ j.digest = c
    BY <2>2, Moves
  <2> HIDE DEF j
  <2>4. blobs'[c] # NoFile /\ \A d \in Contents : d # c => blobs'[d] = blobs[d]
    BY <1>3, <2>2 DEF CaptureCopy, TypeInv, TypeOK
  <2>5. \A d \in Contents : Kept(d) => Kept(d)'
    BY <2>1, <2>4 DEF Kept
  <2>6. \A v \in Workers : v # w => worker'[v] = worker[v]
    BY <1>0, <2>1
  <2>7. worker'[w] = j
    BY <1>0, <2>1
  <2>8. \A r \in rows' : Kept(r.hash)'
    BY <2>1, <2>5 DEF Safe, TypeInv, TypeOK
  <2>9. \A v \in Workers : worker'[v].pc = "insert" => Kept(worker[v].digest)'
    <3> SUFFICES ASSUME NEW v \in Workers, worker'[v].pc = "insert"
                 PROVE  Kept(worker[v].digest)'
      OBVIOUS
    <3>1. CASE v = w
      BY <3>1, <2>3, <2>4, <2>7 DEF Kept
    <3>2. CASE v # w
      <4>1. worker'[v] = worker[v] /\ worker[v].digest \in Contents
        BY <3>2, <2>6, <1>0 DEF Fit
      <4>2. Kept(worker[v].digest)
        BY <4>1 DEF Safe
      <4> QED
        BY <4>1, <4>2, <2>1, <2>4 DEF Kept
    <3> QED
      BY <3>1, <3>2
  <2> QED
    BY <2>1, <2>3, <2>6, <2>7, <2>8, <2>9 DEF Safe
<1>4. ASSUME NEW w \in Workers, CaptureFails(w)
      PROVE  Safe'
  BY <1>4, <1>a, IdleIsAJob DEF CaptureFails
<1>5. ASSUME NEW w \in Workers, CaptureInsert(w)
      PROVE  Safe'
  <2> DEFINE j == IF worker[w].restoring = NoFile THEN Idle
                  ELSE [worker[w] EXCEPT !.pc = "extract"]
             row == [id |-> NextId, path |-> worker[w].path,
                     hash |-> worker[w].digest, created |-> clock,
                     pinned |-> FALSE]
             c == worker[w].digest
  <2>1. /\ worker' = [worker EXCEPT ![w] = j] /\ worker[w].pc = "insert"
        /\ rows' = rows \cup {row} /\ row.hash = c /\ blobs' = blobs
        /\ raced' = raced \cup ({c} \cap BeingUnlinked)
    BY <1>5 DEF CaptureInsert
  <2> HIDE DEF row
  <2>2. j \in Jobs /\ j.pc \in {"idle", "extract"}
    BY <1>0, IdleIsAJob, Moves
  <2> HIDE DEF j
  <2>3. \A v \in Workers : v # w => worker'[v] = worker[v]
    BY <1>0, <2>1
  <2>4. worker'[w] = j
    BY <1>0, <2>1
  <2>5. \A d : Kept(d) => Kept(d)'
    BY <2>1 DEF Kept
  <2>6. Kept(c)
    BY <2>1 DEF Safe
  <2>7. \A r \in rows' : Kept(r.hash)'
    BY <2>1, <2>5, <2>6 DEF Safe
  <2>8. \A v \in Workers : worker'[v].pc = "insert" => Kept(worker[v].digest)'
    BY <2>1, <2>2, <2>3, <2>4, <2>5 DEF Safe
  <2>9. \A v \in Workers : \A r \in rows' :
          (worker'[v].pc = "unlink" /\ r.hash = worker'[v].digest) => r.hash \in raced'
    <3> SUFFICES ASSUME NEW v \in Workers, NEW r \in rows', worker'[v].pc = "unlink",
                        r.hash = worker'[v].digest
                 PROVE  r.hash \in raced'
      OBVIOUS
    <3>1. v # w /\ worker[v].pc = "unlink" /\ worker[v].digest = r.hash
      BY <2>2, <2>3, <2>4
    <3>2. CASE r \in rows
      BY <2>1, <3>1, <3>2 DEF Safe
    <3>3. CASE r = row
      BY <2>1, <3>1, <3>3 DEF BeingUnlinked
    <3> QED
      BY <2>1, <3>2, <3>3
  <2> QED
    BY <2>7, <2>8, <2>9 DEF Safe, Kept
<1>6. ASSUME NEW w \in Workers, NEW r \in rows, NEW p \in Paths, RestoreStart(w, r, p)
      PROVE  Safe'
  <2> DEFINE k == [Idle EXCEPT !.pc = "extract", !.path = p, !.restoring = r.hash]
             j == IF files[p] # NoFile THEN Hashing(p, r.hash) ELSE k
  <2>1. worker' = [worker EXCEPT ![w] = j] /\ UNCHANGED <<blobs, rows, raced>>
    BY <1>6 DEF RestoreStart
  <2>2. r.hash \in Contents
    BY DEF TypeInv, TypeOK
  <2>3. k \in Jobs /\ k.pc = "extract"
    BY <2>2 DEF Idle, Jobs, Stored
  <2>4. j \in Jobs /\ j.pc \in {"locate", "extract"}
    <3> HIDE DEF k
    <3> QED
      BY <2>2, <2>3, Hashes DEF Stored, TypeInv
  <2> HIDE DEF j
  <2> QED
    BY <1>a, <2>1, <2>4
<1>7. ASSUME NEW w \in Workers, RestoreExtract(w)
      PROVE  Safe'
  BY <1>7, <1>a, IdleIsAJob DEF RestoreExtract
<1>8. ASSUME NEW w \in Workers, NEW r \in rows, Delete(w, r)
      PROVE  Safe'
  BY <1>8, <1>b, IdleIsAJob DEF Delete
<1>9. ASSUME NEW w \in Workers, Unlink(w)
      PROVE  Safe'
  <2> DEFINE c == worker[w].digest
  <2>1. /\ worker[w].pc = "unlink" /\ worker' = [worker EXCEPT ![w] = GoOn(worker[w])]
        /\ rows' = rows /\ raced' = raced \cup ({c} \cap Registered)
        /\ blobs' = [blobs EXCEPT ![c] = NoFile]
    BY <1>9 DEF Unlink
  <2>2. worker[w] \in Jobs
    BY <1>0
  <2>3. GoOn(worker[w]).pc \in {"idle", "prune"}
    BY <2>2, GoesOn
  <2>4. \A v \in Workers : v # w => worker'[v] = worker[v]
    BY <1>0, <2>1
  <2>5. worker'[w].pc \in {"idle", "prune"}
    BY <1>0, <2>1, <2>3
  <2>6. \A d \in Contents : d # c /\ Kept(d) => Kept(d)'
    BY <2>1 DEF Kept, TypeInv, TypeOK
  <2>7. \A r \in rows' : Kept(r.hash)'
    <3> SUFFICES ASSUME NEW r \in rows PROVE Kept(r.hash)'
      BY <2>1
    <3>1. r.hash \in Contents
      BY DEF TypeInv, TypeOK
    <3>2. CASE r.hash = c
      BY <2>1, <3>2 DEF Safe, Kept
    <3>3. CASE r.hash # c
      BY <2>6, <3>1, <3>3 DEF Safe
    <3> QED
      BY <3>2, <3>3
  <2>8. \A v \in Workers : worker'[v].pc = "insert" => Kept(worker[v].digest)'
    <3> SUFFICES ASSUME NEW v \in Workers, worker'[v].pc = "insert"
                 PROVE  Kept(worker[v].digest)'
      OBVIOUS
    <3>1. v # w /\ worker[v].pc = "insert" /\ worker[v].digest \in Contents
      BY <2>4, <2>5, <1>0 DEF Fit
    <3>2. CASE worker[v].digest = c
      <4>1. c \in Registered
        BY <3>1, <3>2 DEF Registered
      <4>2. worker'[v] = worker[v]
        BY <2>4, <3>1
      <4> QED
        BY <2>1, <3>2, <4>1, <4>2 DEF Kept
    <3>3. CASE worker[v].digest # c
      <4>1. worker'[v] = worker[v] /\ Kept(worker[v].digest)
        BY <2>4, <2>5, <3>1 DEF Safe
      <4> QED
        BY <2>1, <3>1, <3>3, <4>1 DEF Kept, TypeInv, TypeOK
    <3> QED
      BY <3>2, <3>3
  <2>9. \A v \in Workers : worker'[v].pc \in {"insert", "unlink"} => worker'[v] = worker[v]
    BY <2>4, <2>5
  <2> QED
    BY <2>1, <2>7, <2>8, <2>9 DEF Safe, Kept
<1>10. ASSUME NEW w \in Workers, PruneStart(w)
       PROVE  Safe'
  <2>1. PICK todo \in SUBSET Ids :
          worker' = [worker EXCEPT ![w] = [Idle EXCEPT !.pc = "prune", !.todo = todo]]
    BY <1>10 DEF PruneStart
  <2>2. Ids \subseteq Nat
    BY DEF Ids, TypeInv, TypeOK
  <2> DEFINE j == [Idle EXCEPT !.pc = "prune", !.todo = todo]
  <2>3. j \in Jobs /\ j.pc = "prune"
    BY <2>2 DEF Idle, Jobs, Stored
  <2>4. worker' = [worker EXCEPT ![w] = j]
    BY <2>1
  <2> HIDE DEF j
  <2>5. UNCHANGED <<blobs, rows, raced>>
    BY <1>10 DEF PruneStart
  <2> QED
    BY <1>a, <2>3, <2>4, <2>5
<1>11. ASSUME NEW w \in Workers, NEW id \in worker[w].todo, PruneNext(w, id)
       PROVE  Safe'
  <2> DEFINE j == [worker[w] EXCEPT !.todo = @ \ {id}]
  <2>1. worker[w] \in Jobs
    BY <1>0
  <2>2. j \in Jobs
    BY <2>1 DEF Jobs
  <2> HIDE DEF j
  <2>3. \/ \E r \in rows : DeleteRow(w, r, j)
        \/ worker' = [worker EXCEPT ![w] = GoOn(j)] /\ UNCHANGED rows
    BY <1>11 DEF PruneNext, j
  <2>4. UNCHANGED <<blobs, raced>>
    BY <1>11 DEF PruneNext
  <2>5. CASE \E r \in rows : DeleteRow(w, r, j)
    BY <1>b, <2>2, <2>4, <2>5
  <2>6. CASE worker' = [worker EXCEPT ![w] = GoOn(j)] /\ UNCHANGED rows
    <3>1. GoOn(j) \in Jobs /\ GoOn(j).pc \in {"idle", "prune"}
      BY <2>2, GoesOn
    <3> QED
      BY <1>a, <2>4, <2>6, <3>1
  <2> QED
    BY <2>3, <2>5, <2>6
<1>12. ASSUME NEW r \in rows, SetPinned(r)
       PROVE  Safe'
  <2> DEFINE s == [r EXCEPT !.pinned = ~@]
  <2>1. s.hash = r.hash
    BY DEF TypeInv, TypeOK
  <2>2. rows' = (rows \ {r}) \cup {s}
    BY <1>12 DEF SetPinned
  <2> HIDE DEF s
  <2>3. \A a \in rows' : \E b \in rows : b.hash = a.hash
    BY <2>1, <2>2
  <2>4. UNCHANGED <<blobs, raced, worker>>
    BY <1>12 DEF SetPinned
  <2> QED
    BY <2>3, <2>4 DEF Safe, Kept
<1>13. CASE \E p \in Paths : Save(p)
  BY <1>13 DEF Save, Safe, Kept
<1>14. CASE Tick
  BY <1>14 DEF Tick, Safe, Kept
<1>15. CASE Crash
  BY <1>15, IdleIsAJob DEF Crash, Safe, Kept
<1>16. CASE UNCHANGED vars
  BY <1>16 DEF vars, Safe, Kept
<1> QED
  BY <1>1, <1>2, <1>3, <1>4, <1>5, <1>6, <1>7, <1>8, <1>9, <1>10, <1>11, <1>12,
     <1>13, <1>14, <1>15, <1>16 DEF Next

(* A version loses its content only to a deletion of the same content that   *)
(* overlapped its capture (version-store.ts, capture and delete): no crash,   *)
(* prune pass, shared content or failed capture leaves a row without a blob.  *)
THEOREM OnlyRacesLoseContent == Spec => []ContentIsLostOnlyToARace
<1>1. Init => TypeInv /\ Safe
  BY TypeInit, SafeInit
<1>2. TypeInv /\ Safe /\ [Next]_vars => (TypeInv /\ Safe)'
  BY TypeNext, SafeNext
<1>3. TypeInv /\ Safe => ContentIsLostOnlyToARace
  BY DEF Safe, Kept, ContentIsLostOnlyToARace
<1> QED
  BY <1>1, <1>2, <1>3, PTL DEF Spec

-----------------------------------------------------------------------------
(* Only the step that ends a restore both writes a file and lets its       *)
(* operation go.                                                           *)
LEMMA OnlyExtractionWrites ==
    ASSUME TypeOK, [Next]_vars, files' # files, NEW w \in Workers,
           worker[w].pc = "extract", worker'[w] = Idle
    PROVE  RestoreExtract(w)
<1>1. worker'[w].pc = "idle" /\ worker'[w] # worker[w]
  BY IdleIsAJob
<1>2. ~(UNCHANGED files) /\ ~(UNCHANGED worker)
  BY <1>1
<1>3. ASSUME NEW p \in Paths, Save(p) PROVE FALSE
  BY <1>2, <1>3 DEF Save
<1>4. ASSUME NEW v \in Workers, NEW p \in Paths, CaptureStart(v, p) PROVE FALSE
  BY <1>2, <1>4 DEF CaptureStart
<1>5. ASSUME NEW v \in Workers,
             CaptureLocate(v) \/ CaptureCopy(v) \/ CaptureFails(v) \/ CaptureInsert(v)
               \/ Unlink(v) \/ PruneStart(v)
      PROVE  FALSE
  BY <1>2, <1>5 DEF CaptureLocate, CaptureCopy, CaptureFails, CaptureInsert, Unlink, PruneStart
<1>6. ASSUME NEW v \in Workers, NEW r \in rows, NEW p \in Paths,
             RestoreStart(v, r, p)
      PROVE  FALSE
  BY <1>2, <1>6 DEF RestoreStart
<1>7. ASSUME NEW v \in Workers, NEW id, PruneNext(v, id) PROVE FALSE
  BY <1>2, <1>7 DEF PruneNext
<1>8. ASSUME NEW r \in rows, SetPinned(r) PROVE FALSE
  BY <1>2, <1>8 DEF SetPinned
<1>9. ~UNCHANGED vars
  BY <1>2 DEF vars
<1>10. ASSUME NEW v \in Workers, RestoreExtract(v) PROVE RestoreExtract(w)
  <2>1. worker' = [worker EXCEPT ![v] = Idle]
    BY <1>10 DEF RestoreExtract
  <2>2. v = w
    BY <1>1, <2>1 DEF TypeOK
  <2> QED
    BY <1>10, <2>2
<1>11. \A v \in Workers : \A id \in worker[v].todo : ~PruneNext(v, id)
  BY <1>7
<1>12. ASSUME Next PROVE \E v \in Workers : RestoreExtract(v)
  <2>1. ~(\E r \in rows : SetPinned(r)) /\ ~(\E p \in Paths : Save(p))
    BY <1>3, <1>8
  <2>2. ~(Tick \/ Crash)
    BY <1>2 DEF Tick, Crash
  <2>3. PICK v \in Workers :
           \/ \E p \in Paths : CaptureStart(v, p)
           \/ CaptureLocate(v) \/ CaptureCopy(v) \/ CaptureFails(v) \/ CaptureInsert(v)
           \/ \E r \in rows, p \in Paths : RestoreStart(v, r, p)
           \/ RestoreExtract(v)
           \/ \E r \in rows : Delete(v, r)
           \/ Unlink(v) \/ PruneStart(v)
           \/ \E id \in worker[v].todo : PruneNext(v, id)
    BY <1>12, <2>1, <2>2 DEF Next
  <2>4. \A r \in rows : ~Delete(v, r)
    BY <1>2 DEF Delete
  <2> QED
    BY <1>4, <1>5, <1>6, <1>11, <2>3, <2>4
<1> QED
  BY <1>9, <1>10, <1>12

(* However many operations, saves, deletions and crashes meet, and though  *)
(* an address of the store may hold what is not its content, a restore     *)
(* writes the version it was asked for or nothing.                         *)
THEOREM RestoresAreExact == Spec => RestoreGivesTheVersion
<1>1. ASSUME TypeInv, [Next]_vars, NEW w \in Workers, worker[w].pc = "extract",
             worker'[w] = Idle, files'[worker[w].path] # files[worker[w].path]
      PROVE  files'[worker[w].path] = worker[w].restoring
  <2>1. RestoreExtract(w)
    BY <1>1, OnlyExtractionWrites DEF TypeInv
  <2>2. files' = [files EXCEPT ![worker[w].path] = worker[w].restoring]
    BY <1>1, <2>1 DEF RestoreExtract
  <2>3. worker[w].path \in Paths
    BY <1>1 DEF TypeInv, Fit
  <2> QED
    BY <1>1, <2>2, <2>3 DEF TypeInv, TypeOK
<1>2. TypeInv /\ [Next]_vars =>
        [\A w \in Workers : (worker[w].pc = "extract" /\ worker'[w] = Idle
                             /\ files'[worker[w].path] # files[worker[w].path])
            => files'[worker[w].path] = worker[w].restoring]_vars
  BY <1>1
<1> QED
  BY <1>2, TypeInvariant, PTL DEF Spec, RestoreGivesTheVersion

-----------------------------------------------------------------------------
(* The planner.  A path's versions have an order, newest first: as many    *)
(* come before the k-th as k says, and one is the k-th for every k.        *)
NewerIn(bucket, v) == {w \in bucket : Newer(w, v)}
Place(bucket, v) == Cardinality(NewerIn(bucket, v))
Newest(bucket, k) == {v \in bucket : Place(bucket, v) < k}
IsBucket(bucket) ==
    /\ IsFiniteSet(bucket)
    /\ \A v \in bucket : v.id \in Nat /\ v.created \in Nat
    /\ \A v, w \in bucket : v.id = w.id => v = w

\* a set of numbers has a least one: what holds of 0 and carries on holds of all
LEMMA Least ==
  ASSUME NEW T, T \subseteq Nat, T # {}
  PROVE  \E x \in T : \A y \in T : x <= y
<1>1. PICK x \in T : \A y \in T : ~ (<<y, x>> \in OpToRel(<, Nat))
  BY NatLessThanWellFounded, WFMin, Zenon
<1>2. \A y \in T : ~(y < x)
  BY <1>1, Zenon DEF OpToRel
<1>3. \A y \in T : x <= y
  BY <1>2
<1> QED
  BY <1>3, Zenon

LEMMA NewerIsAnOrder ==
  ASSUME NEW bucket, IsBucket(bucket), NEW u \in bucket, NEW v \in bucket, NEW w \in bucket
  PROVE  /\ ~Newer(v, v) /\ (Newer(u, v) /\ Newer(v, w) => Newer(u, w))
         /\ v = w \/ Newer(v, w) \/ Newer(w, v)
<1>1. /\ u.id \in Nat /\ u.created \in Nat /\ v.id \in Nat /\ v.created \in Nat
      /\ w.id \in Nat /\ w.created \in Nat /\ (v.id = w.id => v = w)
  BY DEF IsBucket
<1> QED
  BY <1>1 DEF Newer

LEMMA PlacesAreNumbers ==
  ASSUME NEW bucket, IsBucket(bucket), NEW v \in bucket
  PROVE  /\ IsFiniteSet(NewerIn(bucket, v)) /\ Place(bucket, v) \in Nat
<1>1. NewerIn(bucket, v) \in SUBSET bucket /\ IsFiniteSet(bucket)
  BY DEF NewerIn, IsBucket
<1>2. IsFiniteSet(NewerIn(bucket, v))
  BY <1>1, FS_Subset
<1> QED
  BY <1>2, FS_CardinalityType DEF Place

LEMMA PlacesFollowTheOrder ==
  ASSUME NEW bucket, IsBucket(bucket), NEW v \in bucket, NEW w \in bucket, Newer(v, w)
  PROVE  Place(bucket, v) < Place(bucket, w)
<1>1. PICK S : S = NewerIn(bucket, v)
  OBVIOUS
<1>2. PICK T : T = NewerIn(bucket, w)
  OBVIOUS
<1>3. \A u \in bucket : Newer(u, v) => Newer(u, w)
  BY NewerIsAnOrder
<1>4. S \in SUBSET T /\ v \in T /\ v \notin S
  BY <1>1, <1>2, <1>3, NewerIsAnOrder DEF NewerIn
<1>5. /\ IsFiniteSet(T) /\ Cardinality(S) = Place(bucket, v) /\ Cardinality(T) = Place(bucket, w)
      /\ Place(bucket, v) \in Nat /\ Place(bucket, w) \in Nat
  BY <1>1, <1>2, PlacesAreNumbers DEF Place
<1>6. Cardinality(S) <= Cardinality(T) /\ Cardinality(S) # Cardinality(T)
  BY <1>4, <1>5, FS_Subset
<1> QED
  BY <1>5, <1>6

LEMMA PlacesAreApart ==
  ASSUME NEW bucket, IsBucket(bucket), NEW v \in bucket, NEW w \in bucket,
         Place(bucket, v) = Place(bucket, w)
  PROVE  v = w
<1>1. Place(bucket, v) \in Nat
  BY PlacesAreNumbers
<1>2. ~Newer(v, w) /\ ~Newer(w, v)
  BY <1>1, PlacesFollowTheOrder
<1> QED
  BY <1>2, NewerIsAnOrder

LEMMA NextIsThere ==
  ASSUME NEW bucket, IsBucket(bucket), NEW k \in Nat,
         Cardinality(Newest(bucket, k)) = k, k < Cardinality(bucket)
  PROVE  \E v \in bucket : Place(bucket, v) = k /\ NewerIn(bucket, v) = Newest(bucket, k)
<1>1. PICK S : S = Newest(bucket, k)
  OBVIOUS
<1>2. S \subseteq bucket /\ Cardinality(S) = k
  BY <1>1 DEF Newest
<1>3. bucket \ S # {}
  <2>1. S # bucket
    BY <1>2
  <2> QED
    BY <1>2, <2>1
<1>4. PICK T : T = {Place(bucket, v) : v \in bucket \ S}
  OBVIOUS
<1>5. T \subseteq Nat /\ T # {}
  BY <1>3, <1>4, PlacesAreNumbers
<1>6. PICK x \in T : \A y \in T : x <= y
  BY <1>5, Least
<1>7. PICK v \in bucket \ S : Place(bucket, v) = x
  BY <1>4, <1>6
<1>8. \A w \in bucket \ S : Place(bucket, v) <= Place(bucket, w)
  BY <1>4, <1>6, <1>7
<1>9. NewerIn(bucket, v) \subseteq S
  <2> SUFFICES ASSUME NEW w \in bucket, Newer(w, v), w \notin S PROVE FALSE
    BY DEF NewerIn
  <2>1. Place(bucket, w) < Place(bucket, v)
    BY <1>7, PlacesFollowTheOrder
  <2>2. Place(bucket, w) \in Nat /\ Place(bucket, v) \in Nat
    BY <1>7, PlacesAreNumbers
  <2> QED
    BY <1>8, <2>1, <2>2
<1>10. S \subseteq NewerIn(bucket, v)
  <2> SUFFICES ASSUME NEW w \in S, ~Newer(w, v) PROVE FALSE
    BY <1>2 DEF NewerIn
  <2>1. w \in bucket /\ w # v /\ Place(bucket, w) < k
    BY <1>1, <1>7 DEF Newest
  <2>2. Newer(v, w)
    BY <1>7, <2>1, NewerIsAnOrder
  <2>3. Place(bucket, v) < Place(bucket, w)
    BY <1>7, <2>1, <2>2, PlacesFollowTheOrder
  <2>4. Place(bucket, v) \in Nat /\ Place(bucket, w) \in Nat
    BY <1>7, <2>1, PlacesAreNumbers
  <2> QED
    BY <1>1, <1>7, <2>1, <2>3, <2>4 DEF Newest
<1>11. NewerIn(bucket, v) = S
  BY <1>9, <1>10
<1> QED
  BY <1>1, <1>2, <1>7, <1>11 DEF Place

LEMMA OneMoreIsNewest ==
  ASSUME NEW bucket, IsBucket(bucket), NEW k \in Nat, NEW v \in bucket, Place(bucket, v) = k
  PROVE  /\ Newest(bucket, k + 1) = Newest(bucket, k) \cup {v}
         /\ v \notin Newest(bucket, k)
<1>1. \A w \in bucket : Place(bucket, w) \in Nat
  BY PlacesAreNumbers
<1>2. \A w \in bucket : Place(bucket, w) = k => w = v
  BY PlacesAreApart
<1>3. \A w \in bucket : Place(bucket, w) < k + 1 <=> Place(bucket, w) < k \/ w = v
  BY <1>1, <1>2
<1> QED
  BY <1>3 DEF Newest

LEMMA AsManyAreNewest ==
  ASSUME NEW bucket, IsBucket(bucket), NEW n \in 0..Cardinality(bucket)
  PROVE  Cardinality(Newest(bucket, n)) = n
<1>0. IsFiniteSet(bucket) /\ Cardinality(bucket) \in Nat
  BY FS_CardinalityType DEF IsBucket
<1> DEFINE T == {k \in 0..Cardinality(bucket) : Cardinality(Newest(bucket, k)) # k}
<1> SUFFICES ASSUME T # {} PROVE FALSE
  OBVIOUS
<1>1. T \subseteq Nat
  OBVIOUS
<1>2. PICK x \in T : \A y \in T : x <= y
  <2> HIDE DEF T
  <2> QED
    BY <1>1, Least
<1>3. Newest(bucket, 0) = {}
  BY PlacesAreNumbers DEF Newest
<1>4. x \in 1..Cardinality(bucket)
  BY <1>0, <1>3, FS_EmptySet
<1>5. x - 1 \in 0..Cardinality(bucket) /\ x - 1 \notin T /\ x - 1 \in Nat /\ x - 1 < Cardinality(bucket)
  BY <1>0, <1>2, <1>4
<1>6. PICK k \in Nat : k = x - 1
  BY <1>5
<1>7. Cardinality(Newest(bucket, k)) = k /\ k < Cardinality(bucket) /\ x = k + 1
  BY <1>4, <1>5, <1>6
<1>8. PICK v \in bucket : Place(bucket, v) = k
  BY <1>7, NextIsThere
<1>9. Newest(bucket, k + 1) = Newest(bucket, k) \cup {v} /\ v \notin Newest(bucket, k)
  BY <1>8, OneMoreIsNewest
<1>10. IsFiniteSet(Newest(bucket, k))
  <2>1. Newest(bucket, k) \in SUBSET bucket
    BY DEF Newest
  <2> QED
    BY <1>0, <2>1, FS_Subset
<1>11. Cardinality(Newest(bucket, k + 1)) = k + 1
  BY <1>7, <1>9, <1>10, FS_AddElement
<1> QED
  BY <1>2, <1>7, <1>11

LEMMA NthIsNext ==
  ASSUME NEW bucket, IsBucket(bucket), NEW k \in Nat, k < Cardinality(bucket),
         NEW v, v = Nth(bucket, k + 1)
  PROVE  /\ v \in bucket /\ NewerIn(bucket, v) = Newest(bucket, k)
         /\ Newest(bucket, k + 1) = Newest(bucket, k) \cup {v} /\ v \notin Newest(bucket, k)
<1>0. IsFiniteSet(bucket) /\ Cardinality(bucket) \in Nat
  BY FS_CardinalityType DEF IsBucket
<1>1. Cardinality(Newest(bucket, k)) = k
  BY <1>0, AsManyAreNewest
<1>2. PICK w \in bucket : Place(bucket, w) = k /\ NewerIn(bucket, w) = Newest(bucket, k)
  BY <1>1, NextIsThere
<1>3. v = CHOOSE u \in bucket : Place(bucket, u) = k
  BY DEF Nth, Place, NewerIn
<1>4. v \in bucket /\ Place(bucket, v) = k
  BY <1>2, <1>3
<1>5. v = w
  BY <1>2, <1>4, PlacesAreApart
<1> QED
  BY <1>2, <1>4, <1>5, OneMoreIsNewest

(* After k versions: those have gone that should; no more survive than are *)
(* not protected, and if fewer do, then whatever follows is one too many   *)
(* or, being older, too old.                                               *)
Free(S, referenced) == {v \in S : ~Protected(v, referenced)}
RankIn(bucket, v, referenced) == Cardinality(Free(NewerIn(bucket, v), referenced))
Goes(bucket, v, policy, referenced, now) ==
    /\ ~Protected(v, referenced) /\ RankIn(bucket, v, referenced) > 0
    /\ RankIn(bucket, v, referenced) >= policy.keepCount \/ TooOld(v, policy, now)
Planned(plan, bucket, k, policy, referenced, now) ==
    /\ plan \in [survivors : Nat, newestKept : BOOLEAN, prune : {plan.prune}]
    /\ plan.newestKept <=> Free(Newest(bucket, k), referenced) # {}
    /\ plan.prune = {v \in Newest(bucket, k) : Goes(bucket, v, policy, referenced, now)}
    /\ plan.survivors <= Cardinality(Free(Newest(bucket, k), referenced))
    /\ \/ plan.survivors = Cardinality(Free(Newest(bucket, k), referenced))
       \/ plan.survivors >= policy.keepCount
       \/ \E u \in Newest(bucket, k) : TooOld(u, policy, now)
IsPolicy(policy) == policy.keepCount \in Nat /\ policy.keepDays \in Nat

LEMMA NothingIsPlanned ==
  ASSUME NEW bucket, IsBucket(bucket), NEW policy, NEW referenced, NEW now
  PROVE  Planned(NothingSeen, bucket, 0, policy, referenced, now)
<1>1. Newest(bucket, 0) = {} /\ Free({}, referenced) = {} /\ Cardinality({}) = 0
  BY PlacesAreNumbers, FS_EmptySet DEF Newest, Free
<1> QED
  BY <1>1 DEF Planned, NothingSeen

LEMMA OneMoreIsPlanned ==
  ASSUME NEW bucket, IsBucket(bucket), NEW k \in Nat, k < Cardinality(bucket),
         NEW policy, IsPolicy(policy), NEW referenced, NEW now \in Nat,
         NEW plan, Planned(plan, bucket, k, policy, referenced, now)
  PROVE  Planned(Consider(plan, Nth(bucket, k + 1), policy, referenced, now),
                 bucket, k + 1, policy, referenced, now)
<1>1. PICK v : v = Nth(bucket, k + 1)
  OBVIOUS
<1>2. PICK S : S = Newest(bucket, k)
  OBVIOUS
<1>3. PICK U : U = Free(S, referenced)
  OBVIOUS
<1>4. PICK next : next = Consider(plan, v, policy, referenced, now)
  OBVIOUS
<1>5. /\ v \in bucket /\ NewerIn(bucket, v) = S
      /\ Newest(bucket, k + 1) = S \cup {v} /\ v \notin S
  BY <1>1, <1>2, NthIsNext
<1>6. S \subseteq bucket /\ IsFiniteSet(S) /\ IsFiniteSet(U) /\ v \notin U
  <2>1. S \in SUBSET bucket /\ IsFiniteSet(bucket)
    BY <1>2 DEF Newest, IsBucket
  <2>2. IsFiniteSet(S)
    BY <2>1, FS_Subset
  <2>3. U \in SUBSET S
    BY <1>3 DEF Free
  <2> QED
    BY <1>5, <2>1, <2>2, <2>3, FS_Subset
<1>7. PICK c \in Nat : c = Cardinality(U)
  BY <1>6, FS_CardinalityType
<1>8. RankIn(bucket, v, referenced) = c /\ (c = 0 <=> U = {})
  BY <1>3, <1>5, <1>6, <1>7, FS_EmptySet DEF RankIn
<1>9. /\ Free(S \cup {v}, referenced) = IF Protected(v, referenced) THEN U ELSE U \cup {v}
      /\ Cardinality(U \cup {v}) = c + 1
  <2>1. Cardinality(U \cup {v}) = c + 1
    BY <1>6, <1>7, FS_AddElement
  <2> QED
    BY <1>3, <2>1 DEF Free
<1>10. /\ plan \in [survivors : Nat, newestKept : BOOLEAN, prune : {plan.prune}]
       /\ plan.newestKept <=> U # {}
       /\ plan.prune = {w \in S : Goes(bucket, w, policy, referenced, now)}
       /\ plan.survivors <= c
       /\ \/ plan.survivors = c \/ plan.survivors >= policy.keepCount
          \/ \E u \in S : TooOld(u, policy, now)
  BY <1>2, <1>3, <1>7 DEF Planned
<1>11. {w \in S \cup {v} : Goes(bucket, w, policy, referenced, now)}
         = IF Goes(bucket, v, policy, referenced, now) THEN plan.prune \cup {v} ELSE plan.prune
  BY <1>10
<1>12. plan.survivors \in Nat /\ policy.keepCount \in Nat
  BY <1>10 DEF IsPolicy
<1>13. \A u \in S : TooOld(u, policy, now) => TooOld(v, policy, now)
  <2> SUFFICES ASSUME NEW u \in S, TooOld(u, policy, now) PROVE TooOld(v, policy, now)
    OBVIOUS
  <2>1. u \in bucket /\ Newer(u, v)
    BY <1>5, <1>6 DEF NewerIn
  <2>2. u.created \in Nat /\ v.created \in Nat /\ u.created >= v.created
    BY <1>5, <2>1 DEF IsBucket, Newer
  <2> QED
    BY <2>2 DEF TooOld, IsPolicy
<1>14. SUFFICES
         /\ next \in [survivors : Nat, newestKept : BOOLEAN, prune : {next.prune}]
         /\ next.newestKept <=> Free(S \cup {v}, referenced) # {}
         /\ next.prune = {w \in S \cup {v} : Goes(bucket, w, policy, referenced, now)}
         /\ next.survivors <= Cardinality(Free(S \cup {v}, referenced))
         /\ \/ next.survivors = Cardinality(Free(S \cup {v}, referenced))
            \/ next.survivors >= policy.keepCount
            \/ \E u \in S \cup {v} : TooOld(u, policy, now)
  BY <1>1, <1>4, <1>5 DEF Planned
<1>15. CASE Protected(v, referenced)
  <2>1. next = plan
    BY <1>4, <1>15 DEF Consider
  <2>2. ~Goes(bucket, v, policy, referenced, now)
    BY <1>15 DEF Goes
  <2> QED
    BY <1>7, <1>9, <1>10, <1>11, <1>15, <2>1, <2>2
<1>16. CASE ~Protected(v, referenced) /\ ~plan.newestKept
  <2>1. next = [plan EXCEPT !.newestKept = TRUE, !.survivors = @ + 1]
    BY <1>4, <1>16 DEF Consider
  <2>2. /\ next.newestKept = TRUE /\ next.survivors = plan.survivors + 1 /\ next.prune = plan.prune
        /\ next \in [survivors : Nat, newestKept : BOOLEAN, prune : {next.prune}]
    <3>1. plan.survivors + 1 \in Nat
      BY <1>12
    <3>2. next = [survivors |-> plan.survivors + 1, newestKept |-> TRUE, prune |-> plan.prune]
      BY <1>10, <2>1
    <3> QED
      BY <3>1, <3>2
  <2>3. c = 0 /\ plan.survivors = 0
    BY <1>8, <1>10, <1>12, <1>16
  <2>4. ~Goes(bucket, v, policy, referenced, now)
    BY <1>8, <2>3 DEF Goes
  <2>5. Free(S \cup {v}, referenced) # {} /\ Cardinality(Free(S \cup {v}, referenced)) = 1
    BY <1>9, <1>16, <2>3
  <2> QED
    BY <1>11, <2>2, <2>3, <2>4, <2>5
<1>17. CASE /\ ~Protected(v, referenced) /\ plan.newestKept
            /\ plan.survivors >= policy.keepCount \/ TooOld(v, policy, now)
  <2>1. next = [plan EXCEPT !.prune = @ \cup {v}]
    BY <1>4, <1>17 DEF Consider
  <2>2. /\ next.newestKept = plan.newestKept /\ next.survivors = plan.survivors
        /\ next.prune = plan.prune \cup {v}
        /\ next \in [survivors : Nat, newestKept : BOOLEAN, prune : {next.prune}]
    BY <1>10, <2>1
  <2>3. c > 0
    BY <1>8, <1>10, <1>17
  <2>4. c >= policy.keepCount \/ TooOld(v, policy, now)
    BY <1>10, <1>12, <1>17
  <2>5. Goes(bucket, v, policy, referenced, now)
    BY <1>8, <1>17, <2>3, <2>4 DEF Goes
  <2>6. Free(S \cup {v}, referenced) # {} /\ Cardinality(Free(S \cup {v}, referenced)) = c + 1
    BY <1>9, <1>17
  <2>10. next.survivors <= c + 1
    BY <1>10, <1>12, <2>2
  <2>7. next.newestKept
    BY <1>17, <2>2
  <2>8. next.survivors >= policy.keepCount \/ \E u \in S \cup {v} : TooOld(u, policy, now)
    BY <1>17, <2>2
  <2>9. next.prune = {w \in S \cup {v} : Goes(bucket, w, policy, referenced, now)}
    BY <1>11, <2>2, <2>5
  <2> QED
    BY <2>2, <2>6, <2>7, <2>8, <2>9, <2>10
<1>18. CASE /\ ~Protected(v, referenced) /\ plan.newestKept
            /\ ~(plan.survivors >= policy.keepCount \/ TooOld(v, policy, now))
  <2>1. next = [plan EXCEPT !.survivors = @ + 1]
    BY <1>4, <1>18 DEF Consider
  <2>2. /\ next.newestKept = plan.newestKept /\ next.survivors = plan.survivors + 1
        /\ next.prune = plan.prune
        /\ next \in [survivors : Nat, newestKept : BOOLEAN, prune : {next.prune}]
    BY <1>10, <2>1
  <2>3. plan.survivors = c
    BY <1>10, <1>13, <1>18
  <2>4. ~Goes(bucket, v, policy, referenced, now)
    BY <1>8, <1>18, <2>3 DEF Goes
  <2>5. /\ Free(S \cup {v}, referenced) # {} /\ Cardinality(Free(S \cup {v}, referenced)) = c + 1
    BY <1>9, <1>18
  <2>6. next.newestKept
    BY <1>18, <2>2
  <2>7. next.prune = {w \in S \cup {v} : Goes(bucket, w, policy, referenced, now)}
    BY <1>11, <2>2, <2>4
  <2>8. next.survivors = c + 1 /\ c + 1 <= c + 1
    BY <2>2, <2>3
  <2> QED
    BY <2>2, <2>5, <2>6, <2>7, <2>8
<1> QED
  BY <1>15, <1>16, <1>17, <1>18

\* the loop, as a function of how many versions it has seen
Turn(g, i, bucket, policy, referenced, now) ==
    IF i = 0 THEN NothingSeen
    ELSE Consider(g[i - 1], Nth(bucket, i), policy, referenced, now)
IsLoop(g, n, bucket, policy, referenced, now) ==
    g = [i \in 0..n |-> Turn(g, i, bucket, policy, referenced, now)]

LEMMA LoopsExist ==
  ASSUME NEW L \in Nat, NEW bucket, NEW policy, NEW referenced, NEW now
  PROVE  \E g : IsLoop(g, L, bucket, policy, referenced, now)
<1> DEFINE Is(n) == \E g : IsLoop(g, n, bucket, policy, referenced, now)
<1> DEFINE T == {n \in Nat : ~Is(n)}
<1>1. Is(0)
  <2> DEFINE g == [i \in 0..0 |-> NothingSeen]
  <2>1. g = [i \in 0..0 |-> Turn(g, i, bucket, policy, referenced, now)]
    BY DEF Turn
  <2>2. IsLoop(g, 0, bucket, policy, referenced, now)
    BY <2>1 DEF IsLoop
  <2> QED
    BY <2>2
<1>2. ASSUME NEW n \in Nat, Is(n) PROVE Is(n + 1)
  <2>1. PICK g : g = [i \in 0..n |-> Turn(g, i, bucket, policy, referenced, now)]
    BY <1>2 DEF IsLoop
  <2> DEFINE h == [i \in 0..(n + 1) |-> Turn(g, i, bucket, policy, referenced, now)]
  <2>2. ASSUME NEW i \in 0..(n + 1)
        PROVE  Turn(g, i, bucket, policy, referenced, now) = Turn(h, i, bucket, policy, referenced, now)
    <3>1. i # 0 => i - 1 \in 0..n /\ i - 1 \in 0..(n + 1)
      OBVIOUS
    <3>2. i # 0 => g[i - 1] = h[i - 1]
      BY <2>1, <3>1
    <3> QED
      BY <3>2 DEF Turn
  <2>3. h = [i \in 0..(n + 1) |-> Turn(h, i, bucket, policy, referenced, now)]
    BY <2>2
  <2>4. IsLoop(h, n + 1, bucket, policy, referenced, now)
    BY <2>3 DEF IsLoop
  <2> HIDE DEF h
  <2> QED
    BY <2>4
<1> HIDE DEF Is
<1>3. T = {}
  <2> SUFFICES ASSUME T # {} PROVE FALSE
    OBVIOUS
  <2>1. PICK x \in T : \A y \in T : x <= y
    BY Least
  <2>2. x # 0
    BY <1>1
  <2>3. x - 1 \in Nat /\ x - 1 \notin T
    BY <2>1, <2>2
  <2> QED
    BY <1>2, <2>3
<1>4. Is(L)
  BY <1>3
<1> QED
  BY <1>4 DEF Is

LEMMA BucketIsPlanned ==
  ASSUME NEW bucket, IsBucket(bucket), NEW policy, IsPolicy(policy), NEW referenced, NEW now \in Nat
  PROVE  PrunedOfPath(bucket, policy, referenced, now)
           = {v \in bucket : Goes(bucket, v, policy, referenced, now)}
<1>0. IsFiniteSet(bucket) /\ Cardinality(bucket) \in Nat
  BY FS_CardinalityType DEF IsBucket
<1>1. PICK L \in Nat : L = Cardinality(bucket)
  BY <1>0
<1>2. PICK f : f = CHOOSE g : IsLoop(g, L, bucket, policy, referenced, now)
  OBVIOUS
<1>3. PrunedOfPath(bucket, policy, referenced, now) = f[L].prune
  BY <1>1, <1>2, Zenon DEF PrunedOfPath, Turn, IsLoop
<1>4. f = [i \in 0..L |-> Turn(f, i, bucket, policy, referenced, now)]
  <2>1. \E g : IsLoop(g, L, bucket, policy, referenced, now)
    BY <1>1, LoopsExist, Zenon
  <2>2. IsLoop(f, L, bucket, policy, referenced, now)
    BY <1>2, <2>1, Zenon
  <2> QED
    BY <2>2 DEF IsLoop
<1>5. \A i \in 0..L : f[i] = Turn(f, i, bucket, policy, referenced, now)
  BY <1>4, Zenon
<1>6. f[0] = NothingSeen
  BY <1>5 DEF Turn
<1>7. \A k \in 0..L : k < L => f[k + 1] = Consider(f[k], Nth(bucket, k + 1), policy, referenced, now)
  <2> SUFFICES ASSUME NEW k \in 0..L, k < L
               PROVE  f[k + 1] = Consider(f[k], Nth(bucket, k + 1), policy, referenced, now)
    OBVIOUS
  <2>1. k + 1 \in 0..L /\ k + 1 # 0 /\ (k + 1) - 1 = k
    OBVIOUS
  <2> QED
    BY <1>5, <2>1 DEF Turn
<1>8. \A k \in 0..L : Planned(f[k], bucket, k, policy, referenced, now)
  <2> DEFINE T == {k \in 0..L : ~Planned(f[k], bucket, k, policy, referenced, now)}
  <2> SUFFICES ASSUME T # {} PROVE FALSE
    OBVIOUS
  <2>1. T \subseteq Nat
    OBVIOUS
  <2>2. PICK x \in T : \A y \in T : x <= y
    <3> HIDE DEF T
    <3> QED
      BY <2>1, Least
  <2>3. x # 0
    BY <1>6, NothingIsPlanned
  <2>4. x - 1 \in 0..L /\ x - 1 \notin T
    BY <2>2, <2>3
  <2>5. PICK k \in Nat : k = x - 1
    BY <2>4
  <2>6. k \in 0..L /\ k < L /\ x = k + 1 /\ Planned(f[k], bucket, k, policy, referenced, now)
    BY <2>3, <2>4, <2>5
  <2>7. Planned(f[k + 1], bucket, k + 1, policy, referenced, now)
    BY <1>1, <1>7, <2>6, OneMoreIsPlanned
  <2> QED
    BY <2>6, <2>7
<1>9. f[L].prune = {v \in Newest(bucket, L) : Goes(bucket, v, policy, referenced, now)}
  BY <1>8 DEF Planned
<1>10. Newest(bucket, L) = bucket
  <2>1. Newest(bucket, L) \in SUBSET bucket
    BY DEF Newest
  <2>2. Cardinality(Newest(bucket, L)) = L
    BY <1>1, AsManyAreNewest
  <2> QED
    BY <1>0, <1>1, <2>1, <2>2, FS_Subset
<1> QED
  BY <1>3, <1>9, <1>10

(* The loop of retention.ts removes what the rules at its head say: for    *)
(* any finite set of versions, any policy, whatever is pinned and whatever *)
(* a conflict refers to.                                                   *)
THEOREM LoopFollowsTheRules ==
  ASSUME NEW versions, IsBucket(versions), NEW policy, IsPolicy(policy),
         NEW referenced, NEW now \in Nat
  PROVE  PlanRetention(versions, policy, referenced, now)
           = DocumentedPlan(versions, policy, referenced, now)
<1> DEFINE OfPath(p) == {v \in versions : v.path = p}
<1>1. \A p : IsBucket(OfPath(p))
  <2> SUFFICES ASSUME NEW p PROVE IsBucket(OfPath(p))
    OBVIOUS
  <2>1. OfPath(p) \in SUBSET versions /\ IsFiniteSet(versions)
    BY DEF IsBucket
  <2>2. IsFiniteSet(OfPath(p))
    BY <2>1, FS_Subset
  <2> QED
    BY <2>1, <2>2 DEF IsBucket
<1>2. \A v \in versions :
        RankIn(OfPath(v.path), v, referenced) = Rank(v, versions, referenced)
  <2> SUFFICES ASSUME NEW v \in versions
               PROVE  Free(NewerIn(OfPath(v.path), v), referenced)
                        = {w \in versions : w.path = v.path /\ Newer(w, v) /\ ~Protected(w, referenced)}
    BY DEF RankIn, Rank
  <2> QED
    BY DEF Free, NewerIn
<1>3. \A v \in versions :
        Goes(OfPath(v.path), v, policy, referenced, now)
          <=> v \in DocumentedPlan(versions, policy, referenced, now)
  BY <1>2 DEF Goes, DocumentedPlan
<1>4. \A p : PrunedOfPath(OfPath(p), policy, referenced, now)
               = {v \in OfPath(p) : Goes(OfPath(p), v, policy, referenced, now)}
  <2> HIDE DEF OfPath
  <2> QED
    BY <1>1, BucketIsPlanned
<1>5. PlanRetention(versions, policy, referenced, now)
        = UNION {PrunedOfPath(OfPath(p), policy, referenced, now) : p \in {v.path : v \in versions}}
  BY DEF PlanRetention
<1>6. DocumentedPlan(versions, policy, referenced, now) \subseteq versions
  BY DEF DocumentedPlan
<1>7. \A v : v \in PlanRetention(versions, policy, referenced, now)
               <=> v \in DocumentedPlan(versions, policy, referenced, now)
  <2> SUFFICES ASSUME NEW v
               PROVE  v \in PlanRetention(versions, policy, referenced, now)
                        <=> v \in DocumentedPlan(versions, policy, referenced, now)
    OBVIOUS
  <2>1. ASSUME v \in PlanRetention(versions, policy, referenced, now)
        PROVE  v \in DocumentedPlan(versions, policy, referenced, now)
    <3>1. PICK p : v \in PrunedOfPath(OfPath(p), policy, referenced, now)
      <4> HIDE DEF OfPath
      <4> QED
        BY <1>5, <2>1, Zenon
    <3>2. v \in OfPath(p) /\ Goes(OfPath(p), v, policy, referenced, now)
      BY <1>4, <3>1
    <3>3. v \in versions /\ p = v.path
      BY <3>2
    <3> QED
      BY <1>3, <3>2, <3>3
  <2>2. ASSUME v \in DocumentedPlan(versions, policy, referenced, now)
        PROVE  v \in PlanRetention(versions, policy, referenced, now)
    <3>1. v \in versions /\ Goes(OfPath(v.path), v, policy, referenced, now)
      BY <1>3, <1>6, <2>2
    <3>2. v \in PrunedOfPath(OfPath(v.path), policy, referenced, now)
      BY <1>4, <3>1
    <3> QED
      BY <1>5, <3>1, <3>2
  <2> QED
    BY <2>1, <2>2
<1> QED
  BY <1>7

-----------------------------------------------------------------------------
(* The history holds finitely many rows, so they have an order.            *)
FiniteRows == IsFiniteSet(rows)

LEMMA RowsStayFinite == TypeOK /\ FiniteRows /\ [Next]_vars => FiniteRows'
<1> SUFFICES ASSUME FiniteRows, [Next]_vars PROVE IsFiniteSet(rows')
  BY DEF FiniteRows
<1>1. \A r : IsFiniteSet(rows \cup {r}) /\ IsFiniteSet(rows \ {r}) /\ IsFiniteSet((rows \ {r}) \cup {[r EXCEPT !.pinned = ~@]})
  <2> SUFFICES ASSUME NEW r PROVE IsFiniteSet(rows \cup {r}) /\ IsFiniteSet(rows \ {r}) /\ IsFiniteSet((rows \ {r}) \cup {[r EXCEPT !.pinned = ~@]})
    OBVIOUS
  <2>1. IsFiniteSet(rows \cup {r})
    BY FS_AddElement DEF FiniteRows
  <2>2. IsFiniteSet(rows \ {r})
    BY FS_RemoveElement DEF FiniteRows
  <2> QED
    BY <2>1, <2>2, FS_AddElement
<1>2. ASSUME NEW w \in Workers, NEW r \in rows, NEW job, DeleteRow(w, r, job) PROVE IsFiniteSet(rows')
  BY <1>1, <1>2 DEF DeleteRow
<1>3. ASSUME NEW w \in Workers, CaptureInsert(w) PROVE IsFiniteSet(rows')
  BY <1>1, <1>3 DEF CaptureInsert
<1>4. ASSUME NEW w \in Workers, NEW r \in rows, Delete(w, r) PROVE IsFiniteSet(rows')
  BY <1>2, <1>4 DEF Delete
<1>5. ASSUME NEW w \in Workers, NEW id, PruneNext(w, id) PROVE IsFiniteSet(rows')
  BY <1>2, <1>5 DEF PruneNext, FiniteRows
<1>6. ASSUME NEW r \in rows, SetPinned(r) PROVE IsFiniteSet(rows')
  BY <1>1, <1>6 DEF SetPinned
<1>7. CASE UNCHANGED rows
  BY <1>7 DEF FiniteRows
<1>8. ASSUME NEW w \in Workers,
             \/ \E p \in Paths : CaptureStart(w, p)
             \/ CaptureLocate(w) \/ CaptureCopy(w) \/ CaptureFails(w)
             \/ \E r \in rows, p \in Paths : RestoreStart(w, r, p)
             \/ RestoreExtract(w) \/ Unlink(w) \/ PruneStart(w)
      PROVE  UNCHANGED rows
  BY <1>8 DEF CaptureStart, CaptureLocate, CaptureCopy, CaptureFails, RestoreStart, RestoreExtract,
              Unlink, PruneStart
<1>9. ASSUME (\E p \in Paths : Save(p)) \/ Tick \/ Crash \/ UNCHANGED vars PROVE UNCHANGED rows
  BY <1>9 DEF Save, Tick, Crash, vars
<1> QED
  BY <1>3, <1>4, <1>5, <1>6, <1>7, <1>8, <1>9 DEF Next

LEMMA RowsAreFinite == Spec => []FiniteRows
<1>1. Init => FiniteRows
  BY FS_EmptySet DEF Init, FiniteRows
<1>2. TypeOK /\ FiniteRows /\ [Next]_vars => FiniteRows'
  BY RowsStayFinite
<1> QED
  BY <1>1, <1>2, VersionsAreTyped, PTL DEF Spec

(* What a prune pass would remove, in every state of the history, is what  *)
(* the rules at the head of retention.ts say.                              *)
THEOREM PlansFollow == Spec => []PlanFollowsThePolicy
<1>1. TypeOK /\ FiniteRows => PlanFollowsThePolicy
  <2> SUFFICES ASSUME TypeOK, FiniteRows, NEW referenced \in SUBSET Ids
               PROVE  PlanRetention(rows, Policy, referenced, clock)
                        = DocumentedPlan(rows, Policy, referenced, clock)
    BY DEF PlanFollowsThePolicy
  <2>1. IsBucket(rows)
    BY DEF IsBucket, TypeOK, FiniteRows
  <2>2. IsPolicy(Policy)
    BY RetentionAssumption DEF IsPolicy, Policy
  <2>3. clock \in Nat
    BY DEF TypeOK
  <2> QED
    BY <2>1, <2>2, <2>3, LoopFollowsTheRules
<1> QED
  BY <1>1, VersionsAreTyped, RowsAreFinite, PTL
=============================================================================
