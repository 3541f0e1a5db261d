------------------------------ MODULE Logging -------------------------------
(***************************************************************************)
(* Where a line of the log goes (logging/logger.ts, rotating-file-sink.ts, *)
(* sqlite-sink.ts), and the page that shows it (web/routes/logs.ts,        *)
(* frontend/hooks/useLogs.ts).  The writes are synchronous, so what can    *)
(* come between the renames of a rotation is the end of the process, or a  *)
(* disk that refuses, which ends it too: the sink hands the error to a     *)
(* stream nobody listens to.                                               *)
(*                                                                         *)
(* A line is its number.  file[0] is the live file and file[n] its n-th    *)
(* generation.  Nothing publishes a "log" event: what the page gets is the *)
(* replay that every connection begins with, and what it asks for itself.  *)
(***************************************************************************)
EXTENDS Naturals, Sequences, SequencesExt

CONSTANTS MaxFiles, PerFile,
          ListLimit, ReplayLimit,       \* rows in an answer, and in a replay
          Torn,                         \* the lines whose context was cut to fit its column
          Sync,                         \* the lines that come from the sync subsystem
          MaxLines, MaxEnds, MaxClicks  \* bounds


VARIABLES
    running, next,  \* the service, and the number of the next line
    file, live,     \* the generations; where the open file is, or none
    shift,          \* the generation a rotation is about to move, or none
    wrote,          \* history: the lines that reached the live file
    rows,           \* log_entries, oldest first
    conn, feed,     \* the page's stream and what is on its way in it
    dropped,        \* it was cut off, and the page will ask for the list
    asked,          \* the lists it waits for: of "this" connection, or an "earlier" one
    paused, filter, \* the page's buttons
    page,           \* what it shows, newest first
    offered,        \* history: the newest rows that it was last given
    uses

logVars == <<running, next, file, live, shift, wrote, rows, conn, feed, dropped, asked,
             paused, filter, page, offered, uses>>
sinkVars == <<running, next, file, live, shift, wrote, rows>>
viewVars == <<conn, feed, dropped, asked, paused, filter, page, offered>>

NoGeneration == MaxFiles + 1
Bound == [ends |-> MaxEnds, clicks |-> MaxClicks]
Spend(b) == uses[b] < Bound[b] /\ uses' = [uses EXCEPT ![b] = @ + 1]

Init ==
    /\ running = TRUE /\ next = 1
    /\ file = [n \in 0..MaxFiles |-> <<>>] /\ live = 0 /\ shift = NoGeneration /\ wrote = <<>>
    /\ rows = <<>>
    /\ conn = "waiting" /\ feed = <<>> /\ dropped = FALSE /\ asked = {}
    /\ paused = FALSE /\ filter = "any" /\ page = <<>> /\ offered = {}
    /\ uses = [b \in DOMAIN Bound |-> 0]

-----------------------------------------------------------------------------
(* The table drops what the database refuses, and cuts a long context.     *)
Ingested(line) == {rows, Append(rows, line)}

(* One line through the sinks in turn: the file, then the table.           *)
Write ==
    /\ running /\ shift = NoGeneration /\ next <= MaxLines
    /\ Len(file[0]) < PerFile
    /\ file' = [file EXCEPT ![0] = Append(@, next)]
    /\ wrote' = Append(wrote, next)
    /\ rows' \in Ingested(next)
    /\ next' = next + 1
    /\ UNCHANGED <<running, live, shift, viewVars, uses>>

(* A full file is rotated before the write: closed, the oldest generation  *)
(* removed, then the others moved, the oldest first.                       *)
Rotate ==
    /\ running /\ shift = NoGeneration /\ next <= MaxLines
    /\ Len(file[0]) >= PerFile
    /\ live' = NoGeneration
    /\ file' = [file EXCEPT ![MaxFiles] = <<>>]
    /\ shift' = MaxFiles - 1
    /\ UNCHANGED <<running, next, wrote, rows, viewVars, uses>>

Moved(n) == [file EXCEPT ![n + 1] = file[n], ![n] = <<>>]

(* Mutant: the newest generation is moved first. *)
ShiftUp ==
    /\ running /\ shift # NoGeneration
    /\ LET n == MaxFiles - 1 - shift
       IN  file' = IF file[n] = <<>> THEN file ELSE Moved(n)
    /\ shift' = IF shift = 0 THEN NoGeneration ELSE shift - 1
    /\ live' = IF shift = 0 THEN 0 ELSE live
    /\ UNCHANGED <<running, next, wrote, rows, viewVars, uses>>

(* A generation that is not there leaves the one above it alone.           *)
Shift ==
    /\ running /\ shift # NoGeneration
    /\ file' = IF file[shift] = <<>> THEN file ELSE Moved(shift)
    /\ shift' = IF shift = 0 THEN NoGeneration ELSE shift - 1
    /\ live' = IF shift = 0 THEN 0 ELSE live
    /\ UNCHANGED <<running, next, wrote, rows, viewVars, uses>>

(* The process ends, or the disk refuses a rename or a write.  Its streams *)
(* end with it.                                                            *)
End ==
    /\ running /\ Spend("ends")
    /\ running' = FALSE /\ live' = NoGeneration /\ shift' = NoGeneration
    /\ conn' = IF conn = "open" THEN "waiting" ELSE conn
    /\ dropped' = (dropped \/ conn = "open")
    /\ feed' = <<>> /\ asked' = {}
    /\ UNCHANGED <<next, file, wrote, rows, paused, filter, page, offered>>

(* The sink opens what is there, and counts from its size.                 *)
Restart ==
    /\ ~running
    /\ running' = TRUE /\ live' = 0
    /\ UNCHANGED <<next, file, shift, wrote, rows, viewVars, uses>>

-----------------------------------------------------------------------------
(* A row whose context cannot be parsed throws in the route: the rows after*)
(* it are not sent, and a list that holds it is not answered.              *)
Picked(s, S) ==
    LET of[n \in 0..Len(s)] ==
            IF n = 0 THEN <<>> ELSE IF s[n] \in S THEN Append(of[n - 1], s[n]) ELSE of[n - 1]
    IN of[Len(s)]
Filtered(f) == Picked(rows, IF f = "sync" THEN Sync ELSE Range(rows))
Latest(limit) == LET all == Filtered(filter)
                 IN  SubSeq(all, IF Len(all) > limit THEN Len(all) - limit + 1 ELSE 1, Len(all))
Readable(list) == {i \in 0..Len(list) : \A j \in 1..i : list[j] \notin Torn}
Whole(list) == Len(list) \in Readable(list)
Replay == LET window == Latest(ReplayLimit)
          IN  SubSeq(window, 1, CHOOSE i \in Readable(window) : \A j \in Readable(window) : j <= i)

Connect ==
    /\ running /\ conn = "waiting"
    /\ conn' = "open"
    /\ feed' = Replay
    /\ offered' = IF Whole(Latest(ReplayLimit)) THEN Range(Latest(ListLimit)) ELSE {}
    /\ asked' = (IF dropped THEN asked \cup {"this"} ELSE asked) /\ dropped' = FALSE
    /\ UNCHANGED <<sinkVars, paused, filter, page, uses>>

(* An entry that arrives at a paused page is not kept.                     *)
Receive ==
    /\ conn = "open" /\ feed # <<>>
    /\ feed' = Tail(feed)
    /\ page' = IF paused THEN page ELSE <<Head(feed)>> \o page
    /\ UNCHANGED <<sinkVars, conn, dropped, asked, paused, filter, offered, uses>>

Outlived == IF asked = {} THEN {} ELSE {"earlier"}

(* onerror: the browser reconnects by itself.  A route that threw ends the *)
(* connection once it has sent what it could.                              *)
Drop ==
    /\ conn = "open" /\ (Whole(Latest(ReplayLimit)) \/ feed = <<>>) /\ Spend("ends")
    /\ conn' = "waiting" /\ dropped' = TRUE /\ feed' = <<>> /\ asked' = Outlived
    /\ UNCHANGED <<sinkVars, paused, filter, page, offered>>

Answer ==
    /\ "this" \in asked /\ asked' = asked \ {"this"}
    /\ IF running /\ Whole(Latest(ListLimit))
         THEN page' = Reverse(Latest(ListLimit)) /\ offered' = Range(Latest(ListLimit))
         ELSE UNCHANGED <<page, offered>>
    /\ UNCHANGED <<sinkVars, conn, feed, dropped, paused, filter, uses>>

(* Nothing drops the answer to a question of an earlier connection: what   *)
(* was stored then, under the filter of then, replaces the list.           *)
LateAnswer ==
    /\ "earlier" \in asked /\ asked' = asked \ {"earlier"}
    /\ \E f \in {"any", "sync"} : \E n \in 0..Len(Filtered(f)) :
         page' = Reverse(SubSeq(Filtered(f), 1, n))
    /\ offered' = {}
    /\ UNCHANGED <<sinkVars, conn, feed, dropped, paused, filter, uses>>

(* Mutant: the effect does not depend on paused. *)
TogglePauseOnly ==
    /\ conn # "off" /\ Spend("clicks")
    /\ paused' = ~paused
    /\ UNCHANGED <<sinkVars, conn, feed, dropped, asked, filter, page, offered>>

(* The stream is closed and opened again, so that its handler sees paused. *)
TogglePause ==
    /\ conn # "off" /\ Spend("clicks")
    /\ paused' = ~paused
    /\ conn' = "waiting" /\ feed' = <<>> /\ asked' = Outlived
    /\ UNCHANGED <<sinkVars, dropped, filter, page, offered>>

ToggleLive ==
    /\ Spend("clicks")
    /\ conn' = IF conn = "off" THEN "waiting" ELSE "off"
    /\ feed' = <<>> /\ asked' = Outlived /\ paused' = FALSE
    /\ UNCHANGED <<sinkVars, dropped, filter, page, offered>>

(* A change of the filter opens another stream; what is listed stays.      *)
ChangeFilter ==
    /\ Spend("clicks")
    /\ filter' = IF filter = "any" THEN "sync" ELSE "any"
    /\ conn' = IF conn = "off" THEN "off" ELSE "waiting"
    /\ feed' = <<>> /\ asked' = Outlived
    /\ UNCHANGED <<sinkVars, dropped, paused, page, offered>>

Next ==
    \/ Write \/ Rotate \/ Shift \/ End \/ Restart
    \/ Connect \/ Receive \/ Drop \/ Answer \/ LateAnswer
    \/ TogglePause \/ ToggleLive \/ ChangeFilter

Spec == Init /\ [][Next]_logVars

-----------------------------------------------------------------------------
\* what the constants are asked for: a list is shorter than a replay
BoundsAreSound ==
    /\ MaxFiles \in Nat \ {0} /\ PerFile \in Nat \ {0}
    /\ ListLimit \in Nat /\ ReplayLimit \in Nat /\ ListLimit <= ReplayLimit

LoggingTypeOK ==
    /\ live \in {0, NoGeneration} /\ (running /\ shift = NoGeneration <=> live = 0)
    /\ \A n \in 0..MaxFiles : Len(file[n]) <= PerFile
    /\ conn # "open" => feed = <<>>

(* What the files hold, read from the oldest generation to the live one,   *)
(* is the end of what was written: in order, without a hole.  A rotation   *)
(* that is cut off costs one generation and no more.                       *)
FilesHoldTheEnd ==
    LET kept == FlattenSeq([n \in 1..(MaxFiles + 1) |-> file[MaxFiles + 1 - n]])
    IN  /\ IsSuffix(kept, wrote)
        /\ \/ kept = wrote
           \/ Len(kept) + PerFile * uses["ends"] >= PerFile * MaxFiles

(* A page that is not paused shows the newest rows it was last given, by   *)
(* the replay of its connection or by an answer: over cuts, pauses and     *)
(* filters, until an answer comes that is older than the connection.       *)
PageShowsItsRows ==
    conn = "open" /\ feed = <<>> /\ ~paused
        => offered \subseteq Range(page)

LogsAreKept == FilesHoldTheEnd /\ PageShowsItsRows
=============================================================================
