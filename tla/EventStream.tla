----------------------------- MODULE EventStream -----------------------------
(***************************************************************************)
(* How an open page learns that a table has changed: the event bus of the  *)
(* process, the streams it is read through, and the hooks of the pages.    *)
(*                                                                         *)
(* A page lists one table (the locks), which is a number here: how often   *)
(* it changed.  An event says that it did, never what it holds, and the    *)
(* page asks for the table again.  A page either asks on events alone, and *)
(* takes every answer, or asks at an interval too, and drops the answer to *)
(* all but its last question.                                              *)
(***************************************************************************)
EXTENDS Integers, Sequences, FiniteSets, SequencesExt

CONSTANTS Pages, BufferSize, MaxStreams,
          MaxEvents, MaxDrops, MaxRestarts, MaxMounts, MaxFailures, MaxAsks   \* bounds

VARIABLES
  table,
  published,   \* the kinds of all events there were; an index into it is a serial
  nextId, buffer,
  ghosts,      \* streams whose client has gone, which the server has not noticed
  page, pipe,  \* per page: what it holds, and the events on their way to it
  polling,     \* the pages that ask at an interval, which never change
  asks,        \* per page: its questions, in order, each with its answer
  drops, restarts, mounts, failures

bus == <<published, nextId, buffer>>
bounds == <<drops, restarts, mounts, failures>>
vars == <<table, bus, ghosts, page, pipe, polling, asks, bounds>>

NoId == 0
Unread == -1
\* what follows shown the page does not know: the serials it was told, the one it
\* was opened at, the process its last id is from, and whether the bus or an answer
\* has failed it
Off == [state |-> "off", lastId |-> NoId, shown |-> 0,
        heard |-> {}, since |-> 0, epoch |-> 0, gap |-> FALSE, behind |-> FALSE]

Mounted(p) == page[p].state # "off"
Open(p) == page[p].state = "open"
Streams == Cardinality({p \in Pages : Open(p)}) + ghosts
Serials(events) == {events[i].serial : i \in DOMAIN events}
\* what a page must have been told by now
Due(p) == {s \in DOMAIN published : published[s] = "lock" /\ s > page[p].since}

-----------------------------------------------------------------------------
(* EventBus.                                                               *)
\* what of a sequence is in a set, in its order
Picked(s, S) ==
    LET of[n \in 0..Len(s)] ==
            IF n = 0 THEN <<>> ELSE IF s[n] \in S THEN Append(of[n - 1], s[n]) ELSE of[n - 1]
    IN of[Len(s)]
Locks == {e \in Range(buffer) : e.kind = "lock"}
ReplayInclusive(lastId) == Picked(buffer, {e \in Locks : lastId = NoId \/ e.id >= lastId})
ReplayOfNothing(lastId) ==
    IF lastId = NoId THEN <<>> ELSE Picked(buffer, {e \in Locks : e.id > lastId})
\* the whole buffer for a stream that names no last event
Replay(lastId) == Picked(buffer, {e \in Locks : lastId = NoId \/ e.id > lastId})

Buffered(event) ==
    LET longer == Append(buffer, event) IN
      IF Len(longer) > BufferSize THEN Tail(longer) ELSE longer

Publish(kind) ==
    LET event == [id |-> nextId, kind |-> kind, serial |-> Len(published) + 1] IN
      /\ Len(published) < MaxEvents
      /\ published' = Append(published, kind)
      /\ nextId' = nextId + 1
      /\ buffer' = Buffered(event)
      /\ pipe' = [p \in Pages |-> IF Open(p) /\ kind = "lock" THEN Append(pipe[p], event) ELSE pipe[p]]

Change ==
    /\ Publish("lock")
    /\ table' = table + 1
    /\ UNCHANGED <<polling, ghosts, page, asks, bounds>>
\* a heartbeat, or news of something else
PublishOther ==
    /\ Publish("other")
    /\ UNCHANGED <<polling, table, ghosts, page, asks, bounds>>

\* the process ends, and with it the buffer, the ids and every stream
Restart ==
    /\ restarts < MaxRestarts
    /\ restarts' = restarts + 1
    /\ nextId' = 1 /\ buffer' = <<>> /\ ghosts' = 0
    /\ page' = [p \in Pages |-> [page[p] EXCEPT !.state = IF Open(p) THEN "connecting" ELSE @,
                                                !.behind = @ \/ asks[p] # <<>>]]
    /\ pipe' = [p \in Pages |-> <<>>]
    /\ asks' = [p \in Pages |-> <<>>]
    /\ UNCHANGED <<polling, table, published, drops, mounts, failures>>

-----------------------------------------------------------------------------
(* The hooks.                                                              *)
\* a page that polls gives up the question before
Asked(p) == IF p \in polling THEN <<Unread>> ELSE Append(asks[p], Unread)
CanAsk(p) == p \in polling \/ Len(asks[p]) < MaxAsks

Mount(p) ==
    /\ ~Mounted(p) /\ mounts < MaxMounts
    /\ mounts' = mounts + 1
    /\ page' = [page EXCEPT ![p] = [Off EXCEPT !.state = "connecting", !.since = Len(published)]]
    /\ asks' = [asks EXCEPT ![p] = <<Unread>>]
    /\ UNCHANGED <<polling, table, bus, ghosts, pipe, drops, restarts, failures>>

\* too many streams is an answer the browser does not try again after
Connect(p) ==
    /\ page[p].state = "connecting"
    /\ IF Streams >= MaxStreams
       THEN /\ page' = [page EXCEPT ![p].state = "refused"]
            /\ UNCHANGED pipe
       ELSE LET e == restarts
                lost == Due(p) \ (page[p].heard \union Serials(buffer)) IN
            /\ page' = [page EXCEPT ![p].state = "open", ![p].epoch = e,
                          ![p].gap = @ \/ lost # {} \/ (page[p].lastId # NoId /\ page[p].epoch # e)]
            /\ pipe' = [pipe EXCEPT ![p] = Replay(page[p].lastId)]
    /\ UNCHANGED <<polling, table, bus, ghosts, asks, bounds>>

\* the page remembers the id, and asks
Receive(p) ==
    /\ Open(p) /\ pipe[p] # <<>> /\ CanAsk(p)
    /\ page' = [page EXCEPT ![p].lastId = Head(pipe[p]).id, ![p].behind = FALSE,
                            ![p].heard = @ \union {Head(pipe[p]).serial}]
    /\ pipe' = [pipe EXCEPT ![p] = Tail(@)]
    /\ asks' = [asks EXCEPT ![p] = Asked(p)]
    /\ UNCHANGED <<polling, table, bus, ghosts, bounds>>

\* the browser comes back by itself; the server finds out now or later
Drop(p) ==
    /\ Open(p) /\ drops < MaxDrops
    /\ drops' = drops + 1
    /\ page' = [page EXCEPT ![p].state = "connecting"]
    /\ pipe' = [pipe EXCEPT ![p] = <<>>]
    /\ ghosts' \in {ghosts, ghosts + 1}
    /\ UNCHANGED <<polling, table, bus, asks, restarts, mounts, failures>>
Notice ==
    /\ ghosts > 0
    /\ ghosts' = ghosts - 1
    /\ UNCHANGED <<polling, table, bus, page, pipe, asks, bounds>>

Unmount(p) ==
    /\ Mounted(p)
    /\ page' = [page EXCEPT ![p] = Off]
    /\ pipe' = [pipe EXCEPT ![p] = <<>>]
    /\ asks' = [asks EXCEPT ![p] = <<>>]
    /\ UNCHANGED <<polling, table, bus, ghosts, bounds>>

PollWhileStreaming(p) ==
    /\ Open(p) /\ p \in polling
    /\ page' = [page EXCEPT ![p].behind = FALSE]
    /\ asks' = [asks EXCEPT ![p] = <<Unread>>]
    /\ UNCHANGED <<polling, table, bus, ghosts, pipe, bounds>>
Poll(p) ==
    /\ Mounted(p) /\ p \in polling
    /\ page' = [page EXCEPT ![p].behind = FALSE]
    /\ asks' = [asks EXCEPT ![p] = <<Unread>>]
    /\ UNCHANGED <<polling, table, bus, ghosts, pipe, bounds>>

-----------------------------------------------------------------------------
(* Questions and answers; two of one page travel on two connections.       *)
Serve(p, i) ==
    /\ i \in DOMAIN asks[p] /\ asks[p][i] = Unread
    /\ asks' = [asks EXCEPT ![p][i] = table]
    /\ UNCHANGED <<polling, table, bus, ghosts, page, pipe, bounds>>

Answered(p, i) == i \in DOMAIN asks[p] /\ asks[p][i] # Unread
Arrive(p, i) ==
    /\ Answered(p, i)
    /\ page' = [page EXCEPT ![p].shown = asks[p][i], ![p].behind = @ \/ asks[p][i] < page[p].shown]
    /\ asks' = [asks EXCEPT ![p] = RemoveAt(@, i)]
    /\ UNCHANGED <<polling, table, bus, ghosts, pipe, bounds>>
\* an error is shown beside the table, which stays
Fail(p, i) ==
    /\ i \in DOMAIN asks[p] /\ failures < MaxFailures
    /\ failures' = failures + 1
    /\ page' = [page EXCEPT ![p].behind = TRUE]
    /\ asks' = [asks EXCEPT ![p] = RemoveAt(@, i)]
    /\ UNCHANGED <<polling, table, bus, ghosts, pipe, drops, restarts, mounts>>

-----------------------------------------------------------------------------
Init ==
    /\ table = 0 /\ published = <<>> /\ nextId = 1 /\ buffer = <<>> /\ ghosts = 0
    /\ page = [p \in Pages |-> Off] /\ pipe = [p \in Pages |-> <<>>] /\ asks = [p \in Pages |-> <<>>]
    /\ polling \in SUBSET Pages
    /\ drops = 0 /\ restarts = 0 /\ mounts = 0 /\ failures = 0

Next ==
    \/ Change \/ PublishOther \/ Restart \/ Notice
    \/ \E p \in Pages :
         \/ Mount(p) \/ Connect(p) \/ Receive(p) \/ Drop(p) \/ Unmount(p) \/ Poll(p)
         \/ \E i \in 1..MaxAsks : Serve(p, i) \/ Arrive(p, i) \/ Fail(p, i)

(* A page that polls goes on asking, and answers come back within the      *)
(* interval again and again: the next question would cancel them.          *)
Asking(p) == Poll(p)
Answering(p) == p \in polling /\ \E i \in 1..MaxAsks : Arrive(p, i)
Serving(p) == p \in polling /\ \E i \in 1..MaxAsks : Serve(p, i)
Spec ==
    /\ Init /\ [][Next]_vars
    /\ \A p \in Pages : WF_vars(Asking(p)) /\ SF_vars(Serving(p)) /\ SF_vars(Answering(p))

-----------------------------------------------------------------------------
\* what the constants are asked for
BoundsAreSound ==
    /\ IsFiniteSet(Pages) /\ BufferSize \in Nat /\ MaxStreams \in Nat /\ MaxAsks \in Nat \ {0}
    /\ MaxEvents \in Nat

StreamTypeOK ==
    /\ table \in 0..MaxEvents /\ Len(buffer) <= BufferSize /\ Streams <= MaxStreams
    /\ \A p \in Pages : page[p].shown <= table /\ Len(asks[p]) <= MaxAsks
    /\ \A p \in Pages : ~Open(p) => pipe[p] = <<>>

(* A stream that was dropped is resumed without a gap and without a        *)
(* repetition, as long as one process serves it and the buffer holds what  *)
(* it missed: what a page was told and what is on its way to it are all    *)
(* the changes since it was opened, in their order.                        *)
ResumesWithoutAGap ==
    \A p \in Pages : Open(p) =>
      /\ ~page[p].gap => Due(p) \subseteq page[p].heard \union Serials(pipe[p])
      /\ \A i \in DOMAIN pipe[p] :
           /\ \A s \in page[p].heard : s < pipe[p][i].serial
           /\ \A j \in 1..i - 1 : pipe[p][j].serial < pipe[p][i].serial

(* Once a page has been told everything and its questions are answered, it *)
(* shows the table as it is, unless its last question failed or an older   *)
(* answer came in after a newer one.                                       *)
QuietPageIsCurrent ==
    \A p \in Pages :
      (Open(p) /\ pipe[p] = <<>> /\ asks[p] = <<>> /\ ~page[p].gap /\ ~page[p].behind)
        => page[p].shown = table

(* A page that polls shows the table in the end, whatever became of its    *)
(* stream.                                                                 *)
PollersCatchUp == \A p \in polling : Mounted(p) => page[p].shown = table
=============================================================================
