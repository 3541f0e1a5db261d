------------------------------- MODULE Backup -------------------------------
(***************************************************************************)
(* The two copies that recovery/backup.ts makes: the settings as a         *)
(* document, without their secrets, and the database as files of which the *)
(* newest are kept.  They share no state and have a next-state relation    *)
(* each.                                                                   *)
(***************************************************************************)
EXTENDS Naturals, FiniteSets, Functions

CONSTANTS Sections, Unset, Keep,
          MaxEdits, MaxImports, MaxTime, MaxCuts   \* bounds

KeepIsSound == Keep \in Nat \ {0}

VARIABLES stored,      \* section -> the rows of it
          document,    \* the file an export has written
          importing,   \* what is left of an import, and what it has done
          report,      \* the answer of the last import, until something changes
          before,      \* the rows when it began
          edits, imports

VARIABLES files,       \* the directory of backups: name -> [whole, mtime]
          job,         \* the create() that runs
          good,        \* when create() last wrote a file whole
          cutOff,      \* since then a pass was ended, or could not delete
          clock, cuts

documentVars == <<stored, document, importing, report, before, edits, imports>>
copyVars == <<files, job, good, cutOff, clock, cuts>>

-----------------------------------------------------------------------------
(* A section has a key that is always there, one that need not be, and a   *)
(* secret.  A release reads the whole section as its defaults when one     *)
(* value of it is none it knows.                                           *)
Values == {"default", "other", "unknown"}
Rows(value, extra, secret) == [value |-> value, extra |-> extra, secret |-> secret]
Readable(rows) == rows.value # "unknown"
Get(rows) == IF Readable(rows) THEN [rows EXCEPT !.secret = "redacted"]
             ELSE Rows("default", Unset, "empty")
SetPlainly(rows, read) == read   \* for a mutant
Set(rows, read) == Rows(read.value, IF read.extra = Unset THEN rows.extra ELSE read.extra,
                        IF read.secret = "redacted" THEN rows.secret ELSE read.secret)

\* export(): the checksum is the sections it was made of
Document(sections) ==
    [version |-> 1, sections |-> sections, checksum |-> sections,
     faithful |-> \A s \in DOMAIN sections : sections[s].secret # "empty"]
NoImport == [left |-> {}, applied |-> {}, skipped |-> {}]

DocumentInit ==
    /\ stored \in [Sections -> {Rows("default", Unset, "old")}]
    /\ document = Unset /\ importing = Unset /\ report = Unset
    /\ before = stored
    /\ edits = 0 /\ imports = 0

Idle == importing = Unset   \* an import runs to its end before anything else does
Edit(s, rows) ==   \* a save, or a release that no longer knows what it finds
    /\ Idle /\ edits < MaxEdits /\ rows # stored[s] /\ (rows.extra = Unset => stored[s].extra = Unset)
    /\ stored' = [stored EXCEPT ![s] = rows]
    /\ report' = Unset /\ edits' = edits + 1
    /\ UNCHANGED <<document, importing, before, imports>>
Export ==   \* to a file beside the old one, which it then takes the place of
    /\ Idle
    /\ document' = Document([s \in Sections |-> Get(stored[s])])
    /\ report' = Unset
    /\ UNCHANGED <<stored, importing, before, edits, imports>>

(* Somebody else's document: written by hand, by an older release that had *)
(* a section more and a value this one has dropped, or by a newer one.     *)
Foreign ==
    /\ Idle /\ document # Unset /\ document.version = 1 /\ edits < MaxEdits
    /\ \E s \in Sections :
           LET sections == [document.sections EXCEPT ![s].value = "unknown"]
               older == [x \in Sections \cup {"gone"} |->
                            IF x = "gone" THEN sections[s] ELSE sections[x]] IN
           document' \in {[document EXCEPT !.sections[s].value = "other"],
                          [document EXCEPT !.sections = older, !.checksum = older],
                          [document EXCEPT !.version = 2]}
    /\ edits' = edits + 1 /\ report' = Unset
    /\ UNCHANGED <<stored, importing, before, imports>>

(* import(): the envelope, the checksum, then section by section.          *)
AcceptedAnyway(d) == d.version <= 1   \* for a mutant: the checksum is not compared
Accepted(d) == d.version <= 1 /\ d.checksum = d.sections
Import ==
    /\ Idle /\ document # Unset /\ imports < MaxImports
    /\ imports' = imports + 1 /\ before' = stored
    /\ IF Accepted(document)
       THEN importing' = [NoImport EXCEPT !.left = DOMAIN document.sections] /\ report' = Unset
       ELSE importing' = Unset /\ report' = NoImport
    /\ UNCHANGED <<stored, document, edits>>
Apply(s) ==
    /\ stored' = [stored EXCEPT ![s] = Set(@, document.sections[s])]
    /\ importing' = [importing EXCEPT !.left = @ \ {s}, !.applied = @ \cup {s}]
Skip(s) ==
    /\ importing' = [importing EXCEPT !.left = @ \ {s}, !.skipped = @ \cup {s}]
    /\ UNCHANGED stored
ImportSection ==
    /\ ~Idle
    /\ \E s \in importing.left :
           IF s \in Sections /\ Readable(document.sections[s])
           THEN Apply(s) \/ Skip(s)   \* set() may throw
           ELSE Skip(s)
    /\ UNCHANGED <<document, report, before, edits, imports>>
ImportEnds ==
    /\ ~Idle /\ importing.left = {}
    /\ report' = importing /\ importing' = Unset
    /\ UNCHANGED <<stored, document, before, edits, imports>>
KilledWhileImporting ==
    /\ ~Idle
    /\ importing' = Unset
    /\ UNCHANGED <<stored, document, report, before, edits, imports>>

DocumentNext ==
    \/ \E s \in Sections, value \in Values, extra \in {Unset, "extra"}, secret \in {"old", "new"} :
           Edit(s, Rows(value, extra, secret))
    \/ Export \/ Foreign \/ Import \/ ImportSection \/ ImportEnds \/ KilledWhileImporting

-----------------------------------------------------------------------------
Labels == {"auto", "manual"}
AtRest == [state |-> "rest", name |-> Unset, doomed |-> {}]
CopyInit ==
    /\ files = <<>> /\ job = AtRest
    /\ good = Unset /\ cutOff = FALSE
    /\ clock = 0 /\ cuts = 0

With(name, whole) ==
    [n \in DOMAIN files \cup {name} |->
        IF n = name THEN [whole |-> whole, mtime |-> clock] ELSE files[n]]
Without(names) == Restrict(files, DOMAIN files \ names)

(* create(): the file is there, and grows, before it is a backup.  Its     *)
(* name is the second it was begun in; no label begins twice in one.  It   *)
(* has no caller yet: one runs at a time, for the prune of one would take  *)
(* the unfinished file of another.                                         *)
Create(label) ==
    /\ job = AtRest /\ <<label, clock>> \notin DOMAIN files
    /\ job' = [AtRest EXCEPT !.state = "copying", !.name = <<label, clock>>]
    /\ files' = With(<<label, clock>>, FALSE)
    /\ UNCHANGED <<good, cutOff, clock, cuts>>
Copied ==
    /\ job.state = "copying" /\ job.name \in DOMAIN files
    /\ files' = With(job.name, TRUE)
    /\ good' = clock /\ cutOff' = FALSE
    /\ job' = [job EXCEPT !.state = "listing"]
    /\ UNCHANGED <<clock, cuts>>
CopyFails ==   \* the library takes its own file away, or the operator has
    /\ job.state = "copying"
    /\ files' = Without({job.name}) /\ job' = AtRest
    /\ \/ cuts < MaxCuts /\ cuts' = cuts + 1
       \/ job.name \notin DOMAIN files /\ cuts' = cuts
    /\ UNCHANGED <<good, cutOff, clock>>

(* list() puts the newest first, in any order within a second; prune()     *)
(* deletes those after the first Keep, one by one.                         *)
Oldest(kept) == \A n \in kept, o \in DOMAIN files \ kept : files[n].mtime <= files[o].mtime   \* for a mutant
Newest(kept) == \A n \in kept, o \in DOMAIN files \ kept : files[n].mtime >= files[o].mtime
ToKeep == {kept \in SUBSET DOMAIN files :
              /\ Cardinality(kept) = IF Cardinality(DOMAIN files) < Keep
                                     THEN Cardinality(DOMAIN files) ELSE Keep
              /\ Newest(kept)}
Listed ==
    /\ job.state = "listing"
    /\ \E kept \in ToKeep :
           job' = [job EXCEPT !.state = "pruning", !.doomed = DOMAIN files \ kept]
    /\ UNCHANGED <<files, good, cutOff, clock, cuts>>
Delete ==
    /\ job.state = "pruning"
    /\ \E name \in job.doomed :
           /\ job' = [job EXCEPT !.doomed = @ \ {name}]
           /\ \/ files' = Without({name}) /\ UNCHANGED <<cutOff, cuts>>
              \/ cuts < MaxCuts /\ cuts' = cuts + 1 /\ cutOff' = TRUE /\ UNCHANGED files
    /\ UNCHANGED <<good, clock>>
Created ==
    /\ job.state = "pruning" /\ job.doomed = {}
    /\ job' = AtRest
    /\ UNCHANGED <<files, good, cutOff, clock, cuts>>

Remove(name) ==   \* by the operator
    /\ cuts < MaxCuts /\ cuts' = cuts + 1
    /\ files' = Without({name})
    /\ good' = IF files[name].whole THEN Unset ELSE good
    /\ UNCHANGED <<job, cutOff, clock>>
Tick == clock < MaxTime /\ clock' = clock + 1 /\ UNCHANGED <<files, job, good, cutOff, cuts>>
Killed ==   \* and started again, some seconds later
    /\ clock < MaxTime /\ cuts < MaxCuts
    /\ job # AtRest /\ job' = AtRest
    /\ cutOff' = TRUE /\ clock' = clock + 1 /\ cuts' = cuts + 1
    /\ UNCHANGED <<files, good>>

CopiesNext ==
    \/ \E label \in Labels : Create(label)
    \/ Copied \/ CopyFails \/ Listed \/ Delete \/ Created
    \/ \E name \in DOMAIN files : Remove(name)
    \/ Tick \/ Killed

-----------------------------------------------------------------------------
BackupTypeOK ==
    /\ stored \in [Sections -> [value : Values, extra : {Unset, "extra"}, secret : {"old", "new", "empty"}]]
    /\ job.state \in {"rest", "copying", "listing", "pruning"}

(* An import says what it did: every section of the document is reported   *)
(* once, an applied one is in force as exported, the others are as they    *)
(* were, and a document that is refused has changed nothing.               *)
ImportsAreHonest ==
    report # Unset => \A s \in Sections :
        IF s \in report.applied
        THEN stored[s] = Set(before[s], document.sections[s]) /\ s \notin report.skipped
             /\ document.checksum[s] = document.sections[s]
        ELSE stored[s] = before[s]

(* No document carries a secret, and none that was exported while all of   *)
(* the settings could be read takes one away.                              *)
SecretsStay ==
    /\ document # Unset => \A s \in DOMAIN document.sections :
                               document.sections[s].secret \notin {"old", "new"}
    /\ (report # Unset \/ importing # Unset) /\ document.faithful =>
           \A s \in Sections : stored[s].secret = before[s].secret

(* Whatever fails or is killed, a whole backup no older than the last one  *)
(* written is there until the operator removes one, though files that are  *)
(* not whole take places of their own.                                     *)
LastBackupStays ==
    good # Unset => \E name \in DOMAIN files : files[name].whole /\ files[name].mtime >= good

(* When nothing runs and nothing was cut off, no more than Keep are left.  *)
DirectoryIsBounded ==
    job = AtRest /\ ~cutOff => Cardinality(DOMAIN files) <= Keep
=============================================================================
