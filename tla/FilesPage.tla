------------------------------- MODULE FilesPage -------------------------------
(***************************************************************************)
(* The file browser: the list, the preview and the download of a file of   *)
(* the cache (web/routes/files.ts, FilesBrowserPage.tsx), while machines   *)
(* write, the bridge keeps its index, and the operator clicks on.          *)
(*                                                                         *)
(* A request names a row of the index, and the row a path.  A file is      *)
(* looked at before it is opened: what it is then may be something else.   *)
(***************************************************************************)
EXTENDS Naturals, FiniteSets, FiniteSetsExt

CONSTANTS Absent,        \* no file, no row, nothing chosen
          Paths,
          MaxWrites, MaxRequests, MaxLists   \* bounds

VARIABLES cache,         \* what is in the cache under a path
          index,         \* the row of a path: its id, and the content it was synced with
          filter,        \* the path the list is of; Absent for all of them
          asked,         \* the filters of the lists that are on their way, oldest first
          list,          \* the rows on the page, and the filter they were asked for
          selected, previewed,
          requests,      \* previews and downloads on their way
          preview,       \* what the preview says
          saved,         \* the last file the browser has saved
          writes, sent, lists

filesVars == <<cache, index, filter, asked, list, selected, previewed, requests, preview, saved,
               writes, sent, lists>>

Size == [short |-> 1, long |-> 2, binary |-> 1]
Contents == DOMAIN Size
PreviewMax == 1
Ids == 1..Cardinality(Paths)

Rows(f) == {[id |-> index[p].id, path |-> p] : p \in {x \in Paths : index[x] # Absent /\ f \in {Absent, x}}}
\* the rowid SQLite gives: one more than the last
NextId == 1 + Max({0} \cup {index[p].id : p \in {x \in Paths : index[x] # Absent}})

FilesInit ==
    /\ cache = [p \in Paths |-> Absent] /\ index = cache
    /\ filter = Absent /\ asked = {} /\ list = [rows |-> {}, filter |-> Absent, failed |-> FALSE]
    /\ selected = Absent /\ previewed = Absent /\ requests = {}
    /\ preview = Absent /\ saved = Absent
    /\ writes = 0 /\ sent = 0 /\ lists = 0

-----------------------------------------------------------------------------
\* a request that has looked at a file that is then another
Raced(p) == {[r EXCEPT !.raced = @ \/ (r.step = "open" /\ r.path = p)] : r \in requests}
Write(p) ==
    /\ writes < MaxWrites /\ writes' = writes + 1
    /\ \E content \in (Contents \cup {Absent}) \ {cache[p]} : cache' = [cache EXCEPT ![p] = content]
    /\ requests' = Raced(p)
    /\ UNCHANGED <<index, filter, asked, list, selected, previewed, preview, saved, sent, lists>>
Sync(p) ==
    /\ index' = [index EXCEPT ![p] =
                   CASE cache[p] = Absent -> Absent
                     [] cache[p] # Absent /\ @ = Absent -> [id |-> NextId, known |-> cache[p]]
                     [] OTHER -> [@ EXCEPT !.known = cache[p]]]
    /\ UNCHANGED <<cache, filter, asked, list, selected, previewed, requests, preview, saved,
                   writes, sent, lists>>

-----------------------------------------------------------------------------
(* GET /files, asked for by the page whenever its filter changes.          *)
Filter(f) ==
    /\ lists < MaxLists /\ lists' = lists + 1
    /\ f # filter /\ filter' = f
    /\ asked' = {[a EXCEPT !.current = FALSE] : a \in asked} \cup
                {[filter |-> f, current |-> TRUE, number |-> lists]}
    /\ UNCHANGED <<cache, index, list, selected, previewed, requests, preview, saved, writes, sent>>
ListedOutOfTurn(a) ==
    /\ asked' = asked \ {a} /\ list' = [rows |-> Rows(a.filter), filter |-> a.filter, failed |-> FALSE]
    /\ UNCHANGED <<cache, index, filter, selected, previewed, requests, preview, saved,
                   writes, sent, lists>>
\* an answer that was cancelled is thrown away
Listed(a) ==
    /\ asked' = asked \ {a}
    /\ list' = IF a.current THEN [rows |-> Rows(a.filter), filter |-> a.filter, failed |-> FALSE]
               ELSE list
    /\ UNCHANGED <<cache, index, filter, selected, previewed, requests, preview, saved,
                   writes, sent, lists>>
\* the rows of the filter before stay on the page
ListFails(a) ==
    /\ asked' = asked \ {a} /\ list' = [list EXCEPT !.failed = @ \/ a.current]
    /\ UNCHANGED <<cache, index, filter, selected, previewed, requests, preview, saved,
                   writes, sent, lists>>

Cancelled == {[r EXCEPT !.current = @ /\ r.kind # "preview"] : r \in requests}
Select(row) ==
    /\ row \in list.rows /\ row # selected /\ selected' = row
    /\ previewed' = Absent /\ preview' = Absent /\ requests' = Cancelled
    /\ UNCHANGED <<cache, index, filter, asked, list, saved, writes, sent, lists>>

Request(kind) == [kind |-> kind, file |-> selected, step |-> "asked", path |-> Absent, size |-> 0,
                  raced |-> FALSE, current |-> TRUE, number |-> sent]
Preview ==
    /\ selected # Absent /\ previewed # selected /\ sent < MaxRequests /\ sent' = sent + 1
    /\ previewed' = selected /\ preview' = Absent
    /\ requests' = Cancelled \cup {Request("preview")}
    /\ UNCHANGED <<cache, index, filter, asked, list, selected, saved, writes, lists>>
Download ==
    /\ selected # Absent /\ sent < MaxRequests /\ sent' = sent + 1
    /\ requests' = requests \cup {Request("download")}
    /\ UNCHANGED <<cache, index, filter, asked, list, selected, previewed, preview, saved,
                   writes, lists>>

-----------------------------------------------------------------------------
(* resolveIndexedFile: the row, its path, and the size of what is there.   *)
Known(id) == {p \in Paths : index[p] # Absent /\ index[p].id = id}
Found(r) == {p \in Known(r.file.id) : cache[p] # Absent}
SizeOfRow(p) == Size[index[p].known]
SizeOf(p) == Size[cache[p]]
Fails(r) ==
    /\ requests' = requests \ {r}
    /\ preview' = IF r.kind = "preview" /\ r.current THEN [of |-> "refused"] ELSE preview
    /\ UNCHANGED <<cache, index, filter, asked, list, selected, previewed, saved, writes, sent, lists>>
Resolve(r) ==
    /\ r.step = "asked" /\ Found(r) # {}
    /\ \E p \in Found(r) :
         requests' = (requests \ {r}) \cup
           {[r EXCEPT !.step = "open", !.path = p, !.size = SizeOf(p), !.raced = p # r.file.path]}
    /\ UNCHANGED <<cache, index, filter, asked, list, selected, previewed, preview, saved,
                   writes, sent, lists>>
NotFound(r) == r.step = "asked" /\ Found(r) = {} /\ Fails(r)

\* as much of a file as fits
Read(content, size) == [of |-> content, whole |-> Size[content] <= size]
Smaller(a, b) == IF a <= b THEN a ELSE b
ShowToAll(r, answer) == preview' = answer
Show(r, answer) == preview' = IF r.current THEN answer ELSE preview
PreviewRead(r) ==
    /\ r.kind = "preview" /\ r.step = "open" /\ cache[r.path] # Absent
    /\ requests' = requests \ {r}
    /\ LET buffer == Smaller(r.size, PreviewMax)
           read == Smaller(Size[cache[r.path]], buffer) IN
         IF cache[r.path] = "binary" THEN Show(r, [of |-> "refused"])
         ELSE Show(r, [of |-> cache[r.path], whole |-> Read(cache[r.path], buffer).whole,
                       truncated |-> r.size > read, file |-> r.file, raced |-> r.raced])
    /\ UNCHANGED <<cache, index, filter, asked, list, selected, previewed, saved, writes, sent, lists>>
PreviewGone(r) == r.kind = "preview" /\ r.step = "open" /\ cache[r.path] = Absent /\ Fails(r)

(* The length is said before the file is opened: of one that has grown the *)
(* browser takes that much, and of one that has shrunk nothing.            *)
DownloadRead(r) ==
    /\ r.kind = "download" /\ r.step = "open" /\ cache[r.path] # Absent
    /\ requests' = requests \ {r}
    /\ saved' = IF Size[cache[r.path]] < r.size THEN saved
                ELSE [name |-> r.file.path, got |-> Read(cache[r.path], r.size), raced |-> r.raced,
                      there |-> cache[r.file.path]]
    /\ UNCHANGED <<cache, index, filter, asked, list, selected, previewed, preview, writes, sent, lists>>
\* nothing listens to the error of the stream: it ends the process, and every request with it
DownloadGone(r) ==
    /\ r.kind = "download" /\ r.step = "open" /\ cache[r.path] = Absent
    /\ requests' = {} /\ asked' = {} /\ list' = [list EXCEPT !.failed = @ \/ asked # {}]
    /\ preview' = IF \E q \in requests : q.kind = "preview" /\ q.current
                    THEN [of |-> "refused"] ELSE preview
    /\ UNCHANGED <<cache, index, filter, selected, previewed, saved, writes, sent, lists>>

FilesNext ==
    \/ \E p \in Paths : Write(p) \/ Sync(p)
    \/ \E f \in Paths \cup {Absent} : Filter(f)
    \/ \E a \in asked : Listed(a) \/ ListFails(a)
    \/ \E row \in list.rows : Select(row)
    \/ Preview \/ Download
    \/ \E r \in requests : Resolve(r) \/ NotFound(r) \/ PreviewRead(r) \/ PreviewGone(r)
                           \/ DownloadRead(r) \/ DownloadGone(r)
FilesSpec == FilesInit /\ [][FilesNext]_filesVars

-----------------------------------------------------------------------------
FilesTypeOK ==
    /\ cache \in [Paths -> Contents \cup {Absent}] /\ filter \in Paths \cup {Absent}
    /\ list.rows \subseteq [id : Ids, path : Paths] /\ sent \in 0..MaxRequests

(* What is saved under the name of a program is all of that program, but   *)
(* for a row that has become another's and a file that changed in between. *)
SavedIsWhole ==
    saved # Absent /\ ~saved.raced => saved.got = [of |-> saved.there, whole |-> TRUE]

(* The text under the name of a file is that file's, and says so when it   *)
(* is not all of it.                                                       *)
PreviewIsOfTheFile ==
    preview # Absent /\ preview.of # "refused" =>
      /\ preview.file = previewed /\ previewed = selected
      /\ ~preview.raced => preview.truncated = ~preview.whole

(* The list is of the filter that is set, or its answer is on the way, or  *)
(* failed: a late answer to an earlier one never takes its place.          *)
ListIsOfTheFilter ==
    \/ \E a \in asked : a.current /\ a.filter = filter
    \/ list.filter = filter \/ list.failed

FilesAreTrue == SavedIsWhole /\ PreviewIsOfTheFile /\ ListIsOfTheFilter
=============================================================================
