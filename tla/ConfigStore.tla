----------------------------- MODULE ConfigStore -----------------------------
(***************************************************************************)
(* The configuration: rows of one table, one per leaf of a section, the    *)
(* schema each release reads them by, the migrations between releases, and *)
(* the forms of the web interface, each of which replaces a whole section. *)
(*                                                                         *)
(* Two sections are enough.  "network" has a field whose values a release  *)
(* renames (mode), one that needs another (lan, which is static only with  *)
(* a gateway) and one without a default (gateway).  "smb" has a secret.    *)
(* A row is a value, a secret is its plaintext: the envelope decides       *)
(* nothing here.                                                           *)
(***************************************************************************)
EXTENDS Integers, FiniteSets

CONSTANTS Windows,       \* the open pages, each with one form
          LastRelease,   \* releases are numbered from one
          NoRow, Sentinel,
          MaxEdits, MaxOpens, MaxStarts, MaxThrows, MaxSwitches   \* bounds

\* neither the absence of a value nor the stand-in for a secret is a value
Words == {"server", "bridge", "existing", "single", "dhcp", "static", "g", "w", "x", "", "secret"}
MarkersAreApart == NoRow # Sentinel /\ {NoRow, Sentinel} \cap Words = {}

VARIABLES
  release,   \* the one that is installed
  up,        \* "down", "migrating" or "up"
  schema,    \* user_version: the last migration that is in the database
  rows,      \* the table config
  form,      \* what each window shows
  control,   \* a switch beside a form: what it has read and is about to write
  told,      \* per section, what its subscribers last acted on
  deaf,      \* sections one of whose subscribers has thrown since
  rolledBack,   \* a release has run over a newer schema
  edits, opens, starts, throws, switches

store == <<release, up, schema, rows>>
pages == <<form, control>>
ears == <<told, deaf, throws>>
vars == <<store, pages, ears, rolledBack, edits, opens, starts, switches>>

Releases == 1..LastRelease
Sections == {"network", "smb"}
Fields == [network |-> {"mode", "lan", "gateway"}, smb |-> {"workgroup", "password"}]
AllFields == UNION {Fields[s] : s \in Sections}
Secrets == {"password"}
Nothing == [network |-> [f \in Fields.network |-> NoRow], smb |-> [f \in Fields.smb |-> NoRow]]

\* what release r accepts; the second renames the modes
Known(f, r) ==
    CASE f = "mode"      -> IF r = 1 THEN {"server", "bridge"} ELSE {"existing", "single"}
      [] f = "lan"       -> {"dhcp", "static"}
      [] f = "gateway"   -> {NoRow, "g"}
      [] f = "workgroup" -> {"w", "x"}
      [] f = "password"  -> {"", "secret", Sentinel}
Renamed(mode) == CASE mode = "server" -> "existing" [] mode = "bridge" -> "single" [] OTHER -> mode

Default(f, r) ==
    CASE f = "mode"      -> IF r = 1 THEN "server" ELSE "existing"
      [] f = "lan"       -> "dhcp"
      [] f = "gateway"   -> NoRow
      [] f = "workgroup" -> "w"
      [] f = "password"  -> ""
Defaults(s, r) == [f \in Fields[s] |-> Default(f, r)]

\* a static address needs a gateway
Satisfies(s, r, values) ==
    /\ \A f \in Fields[s] : values[f] \in Known(f, r)
    /\ s = "network" /\ values["lan"] = "static" => values["gateway"] # NoRow

-----------------------------------------------------------------------------
(* ConfigManager.                                                          *)
Stored(s, table) ==
    [f \in Fields[s] |-> CASE table[f] = NoRow -> Default(f, release)
                           [] table[f] # NoRow /\ f \in Secrets -> Sentinel
                           [] OTHER -> table[f]]
Readable(s, table) == Satisfies(s, release, Stored(s, table))
Get(s, table) == IF Readable(s, table) THEN Stored(s, table) ELSE Defaults(s, release)

MaterialisedByUpsert == [f \in AllFields |-> Default(f, release)]
\* a row for every default that has none; never over one that is there
Materialised ==
    [f \in AllFields |-> IF rows[f] = NoRow THEN Default(f, release) ELSE rows[f]]

\* a key that is not sent keeps its row, and so does a secret sent as read
Keeps(values, f) == values[f] = NoRow \/ (f \in Secrets /\ values[f] = Sentinel)
ReplacedBlindly(s, values) ==
    [f \in AllFields |-> IF f \in Fields[s] /\ values[f] # NoRow THEN values[f] ELSE rows[f]]
Replaced(s, values) ==
    [f \in AllFields |-> IF f \in Fields[s] /\ ~Keeps(values, f) THEN values[f] ELSE rows[f]]
ChangedKeysInView(s, values) == {f \in Fields[s] \ Secrets : ~Keeps(values, f) /\ values[f] # rows[f]}
\* a secret that is sent counts as a change whatever it was
ChangedKeys(s, values) ==
    {f \in Fields[s] : ~Keeps(values, f) /\ (f \in Secrets \/ values[f] # rows[f])}

\* what the parts of the service run on
InForce(s, table) == [f \in Fields[s] |-> IF f \in Secrets THEN table[f] ELSE Get(s, table)[f]]

\* a subscriber that throws has not acted, and the change stands
Emit(s, table) ==
    \/ /\ told' = [told EXCEPT ![s] = InForce(s, table)]
       /\ deaf' = deaf \ {s}
       /\ UNCHANGED throws
    \/ /\ throws < MaxThrows
       /\ throws' = throws + 1
       /\ deaf' = deaf \union {s}
       /\ UNCHANGED told

\* input the schema refuses changes nothing
Set(s, values) ==
    /\ Satisfies(s, release, values)
    /\ rows' = Replaced(s, values)
    /\ IF ChangedKeys(s, values) = {} THEN UNCHANGED ears ELSE Emit(s, rows')

-----------------------------------------------------------------------------
(* A view is a section as it was read, what has been edited in it, and,    *)
(* which the page does not know, the fields written since it was read and  *)
(* whether the schema refused the section then.                            *)
Closed == [section |-> "none", values |-> <<>>, edited |-> {}, behind |-> {}, fell |-> FALSE]
View(s, table) == [section |-> s, values |-> Get(s, table), edited |-> {}, behind |-> {},
                   fell |-> ~Readable(s, table)]
Written == {f \in AllFields : rows'[f] # rows[f]}
Overtaken(view) ==
    IF view = Closed THEN Closed ELSE [view EXCEPT !.behind = @ \union (Written \cap Fields[view.section])]

Init ==
    /\ release \in Releases
    /\ up = "down" /\ schema = 0
    /\ rows = [f \in AllFields |-> NoRow]
    /\ form = [w \in Windows |-> Closed] /\ control = Closed
    /\ told = Nothing /\ deaf = {}
    /\ rolledBack = FALSE
    /\ edits = 0 /\ opens = 0 /\ starts = 0 /\ throws = 0 /\ switches = 0

(* The start of the service and its end.                                   *)
\* a schema from the future is reported and left as it is
Start ==
    /\ up = "down" /\ starts < MaxStarts
    /\ starts' = starts + 1
    /\ up' = "migrating"
    /\ rolledBack' = (rolledBack \/ schema > release)
    /\ UNCHANGED <<release, schema, rows, pages, ears, edits, opens, switches>>

\* the version is put down first, in a transaction of its own
MigrateFileLoosely ==
    /\ schema' = schema + 1
    /\ rows' \in {rows, IF schema' = 2 THEN [rows EXCEPT !["mode"] = Renamed(@)] ELSE rows}
\* one transaction: the statements of the file and the version it leaves
MigrateFile ==
    /\ schema' = schema + 1
    /\ rows' = IF schema' = 2 THEN [rows EXCEPT !["mode"] = Renamed(@)] ELSE rows

Migrate ==
    /\ up = "migrating" /\ schema < release
    /\ MigrateFile
    /\ form' = [w \in Windows |-> Overtaken(form[w])]
    /\ UNCHANGED <<release, up, control, ears, rolledBack, edits, opens, starts, switches>>

\* the rest of the start: the defaults, then everything that reads its section
ComeUp ==
    /\ up = "migrating" /\ schema >= release
    /\ up' = "up"
    /\ rows' = Materialised
    /\ form' = [w \in Windows |-> Overtaken(form[w])]
    /\ told' = [s \in Sections |-> InForce(s, rows')]
    /\ deaf' = {}
    /\ UNCHANGED <<release, schema, control, throws, rolledBack, edits, opens, starts, switches>>

\* a kill, a stop, or a migration that fails; what is in flight is answered by nobody
GoDown ==
    /\ up # "down"
    /\ up' = "down"
    /\ told' = Nothing /\ deaf' = {}
    /\ control' = Closed
    /\ UNCHANGED <<release, schema, rows, form, throws, rolledBack, edits, opens, starts, switches>>

\* an update, or a rollback: the database stays
SwitchRelease ==
    /\ up = "down" /\ switches < MaxSwitches
    /\ switches' = switches + 1
    /\ release' \in Releases \ {release}
    /\ UNCHANGED <<up, schema, rows, pages, ears, rolledBack, edits, opens, starts>>

-----------------------------------------------------------------------------
(* The pages.  A form is filled when it is opened and shows that until it  *)
(* is saved; it goes out whole.                                            *)
Open(w, s) ==
    /\ up = "up" /\ opens < MaxOpens /\ form[w] = Closed
    /\ opens' = opens + 1
    /\ form' = [form EXCEPT ![w] = View(s, rows)]
    /\ UNCHANGED <<store, control, ears, rolledBack, edits, starts, switches>>

Edit(w, f) ==
    /\ form[w] # Closed /\ edits < MaxEdits
    /\ f \in Fields[form[w].section] \ {"mode"}
    /\ \E v \in Known(f, release) \ {form[w].values[f], Sentinel} :
         form' = [form EXCEPT ![w].values[f] = v, ![w].edited = @ \union {f}]
    /\ edits' = edits + 1
    /\ UNCHANGED <<store, control, ears, rolledBack, opens, starts, switches>>

\* the answer of a save is what the form shows from then on
Save(w) ==
    /\ up = "up" /\ form[w] # Closed
    /\ LET s == form[w].section IN
         /\ Set(s, form[w].values)
         /\ form' = [v \in Windows |-> IF v = w THEN View(s, rows') ELSE Overtaken(form[v])]
    /\ control' = Overtaken(control)
    /\ UNCHANGED <<release, up, schema, rolledBack, edits, opens, starts, switches>>

Leave(w) ==
    /\ form[w] # Closed
    /\ form' = [form EXCEPT ![w] = Closed]
    /\ UNCHANGED <<store, control, ears, rolledBack, edits, opens, starts, switches>>

\* the mode is changed beside the form of the interfaces, over a fresh copy
ReadToSwitch(mode) ==
    /\ up = "up" /\ edits < MaxEdits /\ control = Closed
    /\ \E w \in Windows : form[w].section = "network"
    /\ mode \in Known("mode", release) \ {Get("network", rows)["mode"]}
    /\ edits' = edits + 1
    /\ control' = [View("network", rows) EXCEPT !.values["mode"] = mode, !.edited = {"mode"}]
    /\ UNCHANGED <<store, form, ears, rolledBack, opens, starts, switches>>
WriteSwitch ==
    /\ up = "up" /\ control # Closed
    /\ Set("network", control.values)
    /\ form' = [w \in Windows |-> Overtaken(form[w])]
    /\ control' = Closed
    /\ UNCHANGED <<release, up, schema, rolledBack, edits, opens, starts, switches>>

Next ==
    \/ Start \/ Migrate \/ ComeUp \/ GoDown \/ SwitchRelease \/ WriteSwitch
    \/ \E w \in Windows :
         \/ \E s \in Sections : Open(w, s)
         \/ \E f \in AllFields : Edit(w, f)
         \/ Save(w) \/ Leave(w)
    \/ \E r \in Releases : \E mode \in Known("mode", r) : ReadToSwitch(mode)

Spec == Init /\ [][Next]_vars

-----------------------------------------------------------------------------
ConfigTypeOK ==
    /\ release \in Releases /\ schema \in 0..LastRelease
    /\ \A f \in AllFields : rows[f] \in ((UNION {Known(f, r) : r \in Releases}) \union {NoRow}) \ {Sentinel}
    /\ \A w \in Windows : form[w] # Closed =>
         /\ DOMAIN form[w].values = Fields[form[w].section]
         /\ \A f \in Fields[form[w].section] \cap Secrets : f \notin form[w].edited =>
              form[w].values[f] = Sentinel

(* Unless a release has run over a newer schema, what is stored satisfies  *)
(* the schema of the release that runs, so that no section falls back to   *)
(* its defaults, wherever the service was killed or its release changed.   *)
NothingFallsBack == (up = "up" /\ ~rolledBack) => \A s \in Sections : Readable(s, rows)

(* The parts of the service run on what is stored, a secret included,      *)
(* unless one of them threw when it was told.                              *)
SubscribersAreCurrent == up = "up" => \A s \in Sections \ deaf : told[s] = InForce(s, rows)

(* A stored value changes by a migration, or by a save it was edited for.  *)
(* What else a save can change is what was written since its view was read *)
(* and what the schema refused to show it.                                 *)
Saves(view, after) == view # Closed /\ after # view
Changes(view, f) == f \in view.edited \/ f \in view.behind \/ view.fell
EditsStand ==
    \A f \in AllFields : (rows[f] # NoRow /\ rows'[f] # rows[f]) =>
        \/ schema' # schema
        \/ \E w \in Windows : Saves(form[w], form'[w]) /\ Changes(form[w], f)
        \/ Saves(control, control') /\ Changes(control, f)

(* With one page open and one release, nothing changes but what was edited *)
(* on that page when it was saved.                                         *)
OnePageKeepsItsEdits ==
    [][\A f \in AllFields : (rows[f] # NoRow /\ rows'[f] # rows[f]) =>
        \/ \E w \in Windows : Saves(form[w], form'[w]) /\ f \in form[w].edited
        \/ control # Closed /\ control' = Closed /\ f \in control.edited]_vars
=============================================================================
