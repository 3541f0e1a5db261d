---------------------------- MODULE HistoryPages ----------------------------
(***************************************************************************)
(* How an operator gets a program back: the list of versions with its      *)
(* restore dialog (frontend/pages/Versions.tsx), the timeline beside the   *)
(* file browser (FilesBrowserPage.tsx, VersionTimeline.tsx), and the       *)
(* routes they call (web/routes/versions.ts), while the engine overwrites  *)
(* files and captures what it overwrites.                                  *)
(*                                                                         *)
(* Neither page polls: each acts on the rows it was last given.  A row's   *)
(* id is one more than the largest, so the id of a deleted newest row is   *)
(* given out again.  VersionStore has the awaits inside a capture and a    *)
(* restore; here each is one step.                                         *)
(***************************************************************************)
EXTENDS FiniteSets, Naturals

CONSTANTS Paths, Contents, None,
          MaxWrites, MaxLoads, MaxClicks   \* bounds

VARIABLES
    cache,    \* [Paths -> content or None]
    history,  \* the rows of file_versions
    list,     \* the rows that the version page shows
    confirm,  \* the version its dialog names, and the path to restore it to
    picked,   \* the file selected in the browser
    shown,    \* the rows in the timeline beside it
    asked,    \* the file whose rows the timeline waits for, or None
    restored, \* the version the timeline has restored: its guard restoreId
    spent

historyVars == <<cache, history, list, confirm, picked, shown, asked, restored, spent>>

Bound == [writes |-> MaxWrites, loads |-> MaxLoads, clicks |-> MaxClicks]
Spend(b) == spent[b] < Bound[b] /\ spent' = [spent EXCEPT ![b] = @ + 1]

NextVersion == IF history = {} THEN 1
               ELSE 1 + CHOOSE i \in {r.id : r \in history} : \A r \in history : r.id <= i
Row(p, origin) == [id |-> NextVersion, path |-> p, content |-> cache[p],
                   origin |-> origin, pinned |-> FALSE]
Of(p) == {r \in history : r.path = p}
Version(id) == {r \in history : r.id = id}

(* The newest entry of each path is taken for the file as it stands.       *)
Current(v) == \A r \in list : r.path = v.path => r.id <= v.id

Nothing == [version |-> None, path |-> None]

Init ==
    /\ cache \in [Paths -> Contents]
    /\ history = {} /\ list = {} /\ shown = {}
    /\ confirm = Nothing
    /\ picked = None /\ asked = None /\ restored = None
    /\ spent = [b \in DOMAIN Bound |-> 0]

-----------------------------------------------------------------------------
(* A pull: what it is about to overwrite is captured, then overwritten.    *)
Pull(p) ==
    /\ Spend("writes") /\ cache[p] # None
    /\ \E c \in Contents \ {cache[p]} : cache' = [cache EXCEPT ![p] = c]
    /\ history' = history \cup {Row(p, "server")}
    /\ UNCHANGED <<list, confirm, picked, shown, asked, restored>>

(* A deletion that came from the other side is captured too.               *)
PullDeletion(p) ==
    /\ Spend("writes") /\ cache[p] # None
    /\ cache' = [cache EXCEPT ![p] = None]
    /\ history' = history \cup {Row(p, "server")}
    /\ UNCHANGED <<list, confirm, picked, shown, asked, restored>>

(* POST /versions/:id/restore: what stands at the target is captured first.*)
RestoreBlind(v, target) == cache' = [cache EXCEPT ![target] = v.content] /\ UNCHANGED history
Restore(v, target) ==
    /\ cache' = [cache EXCEPT ![target] = v.content]
    /\ history' = IF cache[target] = None THEN history
                  ELSE history \cup {Row(target, "restore")}

-----------------------------------------------------------------------------
(* The version page.  A load replaces the rows; the dialog keeps its own.  *)
Load ==
    /\ Spend("loads")
    /\ list' = history
    /\ UNCHANGED <<cache, history, confirm, picked, shown, asked, restored>>

Ask(v) ==
    /\ confirm = Nothing /\ ~Current(v)
    /\ \E target \in Paths : confirm' = [version |-> v, path |-> target]
    /\ UNCHANGED <<cache, history, list, picked, shown, asked, restored, spent>>

Cancel ==
    /\ confirm # Nothing /\ confirm' = Nothing
    /\ UNCHANGED <<cache, history, list, picked, shown, asked, restored, spent>>

(* Mutant: the row is looked up again where the dialog was opened. *)
ConfirmNewest ==
    /\ confirm # Nothing
    /\ \E v \in Of(confirm.version.path) :
         /\ \A r \in Of(v.path) : r.id <= v.id
         /\ Restore(v, confirm.path)
    /\ confirm' = Nothing
    /\ list' = history' /\ Spend("clicks")
    /\ UNCHANGED <<picked, shown, asked, restored>>

(* The request names an id; a row that is gone is refused and the dialog   *)
(* stays.  What is restored is what that id stands for now.                *)
Confirm ==
    /\ confirm # Nothing
    /\ \E v \in Version(confirm.version.id) : Restore(v, confirm.path)
    /\ confirm' = Nothing
    /\ list' = history' /\ Spend("clicks")
    /\ UNCHANGED <<picked, shown, asked, restored>>

(* Mutant: the route asks nothing of the row. *)
DeletePinned(v) ==
    /\ Spend("clicks")
    /\ history' = history \ Version(v.id) /\ list' = history'
    /\ UNCHANGED <<cache, confirm, picked, shown, asked, restored>>

(* The button of a pinned row is off, and the route asks the row itself.   *)
Delete(v) ==
    /\ ~v.pinned /\ \A r \in Version(v.id) : ~r.pinned
    /\ Spend("clicks")
    /\ history' = history \ Version(v.id) /\ list' = history'
    /\ UNCHANGED <<cache, confirm, picked, shown, asked, restored>>

(* The pin asks for the opposite of what the page shows, whatever it is.   *)
Pin(v) ==
    /\ Version(v.id) # {} /\ Spend("clicks")
    /\ history' = {IF r.id = v.id THEN [r EXCEPT !.pinned = ~v.pinned] ELSE r : r \in history}
    /\ list' = history'
    /\ UNCHANGED <<cache, confirm, picked, shown, asked, restored>>

-----------------------------------------------------------------------------
(* The browser.  Selecting a file keeps the component, and so the rows of  *)
(* the file before it until the answer comes.                              *)
Pick(p) ==
    /\ Spend("loads") /\ p # picked
    /\ picked' = p /\ asked' = p
    /\ UNCHANGED <<cache, history, list, confirm, shown, restored>>

(* Mutant: the answer of any request is shown. *)
AnswerAnyFile ==
    /\ asked # None
    /\ \E p \in Paths : shown' = Of(p)
    /\ asked' = None
    /\ UNCHANGED <<cache, history, list, confirm, picked, restored, spent>>

(* The answer to a file that was left is dropped: the effect was cancelled.*)
Answer ==
    /\ asked # None
    /\ shown' = Of(asked) /\ asked' = None
    /\ UNCHANGED <<cache, history, list, confirm, picked, restored, spent>>

(* The question names the selected file; the request names the row, and    *)
(* goes to the row's own path.  One restore per visit: restoreId stays.    *)
RestoreFromTimeline(v) ==
    /\ restored = None
    /\ \E now \in Version(v.id) : Restore(now, now.path)
    /\ restored' = v.id /\ asked' = picked
    /\ UNCHANGED <<list, confirm, picked, shown, spent>>

Next ==
    \/ \E p \in Paths : Pull(p) \/ PullDeletion(p) \/ Pick(p)
    \/ Load \/ Confirm \/ Cancel \/ Answer
    \/ \E v \in list : Ask(v) \/ Delete(v) \/ Pin(v)
    \/ \E v \in shown : RestoreFromTimeline(v)

Spec == Init /\ [][Next]_historyVars

-----------------------------------------------------------------------------
HistoryTypeOK ==
    /\ cache \in [Paths -> Contents \cup {None}]
    /\ \A r, s \in history : r.id = s.id => r = s
    /\ confirm # Nothing => confirm.path \in Paths
    /\ picked = None => shown = {} /\ restored = None

(* A restore puts the content that the question named where it was named,  *)
(* but for two ways: the id is another row's by now, or the timeline still *)
(* shows the rows of the file selected before.                             *)
Reused(v) == \E r \in Version(v.id) : r.path # v.path \/ r.content # v.content
Confirmed == confirm # Nothing /\ confirm' = Nothing /\ spent' # spent
NamedIsRestored ==
    /\ Confirmed => cache'[confirm.path] = confirm.version.content \/ Reused(confirm.version)
    /\ restored' # restored =>
         \E v \in shown : /\ restored' = v.id
                         /\ \/ cache'[picked] = v.content \/ Reused(v)
                            \/ v.path # picked /\ asked = picked

(* And it can be taken back: what it overwrote is a version now.           *)
CanBeUndone ==
    (Confirmed \/ restored' # restored) =>
        \A p \in Paths : cache[p] # None /\ cache'[p] # cache[p]
            => \E r \in history' : r.path = p /\ r.content = cache[p]

(* A pinned version leaves the table only after it was unpinned.           *)
PinsHold == \A r \in history : r.pinned => \E s \in history' : s.id = r.id

(* All three, of every step.                                               *)
RestoresAreSafe == NamedIsRestored /\ CanBeUndone /\ PinsHold
=============================================================================
