------------------------------ MODULE AuditFeed ------------------------------
(***************************************************************************)
(* How the bridge learns what the machines have open: the lines full_audit *)
(* writes, the ingest that queues them and its consumer, and what          *)
(* smbstatus answers every so often (audit-syslog.ts, samba-service.ts,    *)
(* machine-lock-source.ts).  What becomes of a lock that is asked for here *)
(* is module Locks.                                                        *)
(*                                                                         *)
(* A line is a datagram that may be lost.  The consumer is synchronous, so *)
(* a drain empties the queue; and so is the helper that runs smbstatus, so *)
(* between its answer and the use of it only the machines move.            *)
(***************************************************************************)
EXTENDS Naturals, Sequences, FiniteSets, SequencesExt

CONSTANTS Machines, Files,
          Piped, Spaced,     \* the files with a "|", and with a blank, in their names
          Half, Word,        \* what is left of such a name when it is cut there
          MaxWire, MaxQueue, Burst,   \* of the socket and the ingest
          MaxOpens, MaxTroubles   \* bounds: files opened, and all that goes wrong together

\* what is cut off a name names no file here, and what the bridge writes no machine
NamesAreApart ==
    /\ Half \notin Files /\ Word \notin Files /\ Piped \subseteq Files /\ Spaced \subseteq Files
    /\ "nobody" \notin Machines /\ "operator" \notin Machines
    /\ Burst \in Nat /\ MaxQueue \in Nat \ {0}

VARIABLES
    handles,            \* what the machines have open
    wire, queue,        \* lines on their way to the ingest, and events in it
    tokens, listening,  \* of its rate limiter; its socket could be bound
    answer,             \* of smbstatus, until it is used
    locked,             \* by whom, by name
    doubt,              \* history: files the feed may have told wrongly about
    spentOn

auditVars == <<handles, wire, queue, tokens, listening, answer, locked, doubt, spentOn>>
ingestVars == <<wire, queue, tokens, listening>>

Names == Files \cup {Half, Word}
Modes == {"r", "w"}
Handles == [machine : Machines, file : Files, mode : Modes]
Nobody == "nobody"
Operator == "operator"
NothingOpen == [n \in Names |-> {}]
NoAnswer == [state |-> "none", open |-> NothingOpen]
Failed == [state |-> "failed", open |-> NothingOpen]
Read(open) == [state |-> "read", open |-> open]

Bound == [opens |-> MaxOpens, troubles |-> MaxTroubles]
SpendOn(b) == spentOn[b] < Bound[b] /\ spentOn' = [spentOn EXCEPT ![b] = @ + 1]

On(f) == {h \in handles : h.file = f}
Written(f) == \E h \in On(f) : h.mode = "w"
ByMachine(name) == locked[name] \in Machines
About(lines) == (UNION {{e.path, e.new} : e \in {lines[i] : i \in DOMAIN lines}}) \cap Files

Line(op, m, path, mode) == [op |-> op, machine |-> m, path |-> path, new |-> path, mode |-> mode]
Noise == [op |-> "noise", machine |-> Nobody, path |-> Half, new |-> Half, mode |-> "r"]

AuditStart ==
    /\ handles = {} /\ wire = <<>> /\ queue = <<>> /\ tokens = Burst
    /\ listening = TRUE /\ answer = NoAnswer
    /\ locked = [n \in Names |-> Nobody] /\ doubt = {}
AuditInit == AuditStart /\ spentOn = [b \in DOMAIN Bound |-> 0]

-----------------------------------------------------------------------------
(* The machines.  The parser puts a name with a "|" together again, except *)
(* the first of the two a rename has: its second half is taken for a part  *)
(* of the new name, which then is no file of the share.                    *)
CutAlways(op, f) == IF f \in Piped THEN Half ELSE f
Parsed(op, f) == IF op = "rename" /\ f \in Piped THEN Half ELSE f
Renaming(m, f, g) ==
    [Line("rename", m, Parsed("rename", f), "w") EXCEPT !.new = IF f \in Piped THEN Half ELSE g]

Audited(line, doubtful) ==
    IF listening /\ Len(wire) < MaxWire
    THEN wire' = Append(wire, line) /\ doubt' = doubt \cup doubtful
    ELSE doubt' = doubt \cup doubtful \cup About(<<line>>) /\ UNCHANGED wire

Opens(m, f, mode) ==
    LET handle == [machine |-> m, file |-> f, mode |-> mode] IN
      /\ handle \notin handles /\ SpendOn("opens")
      /\ handles' = handles \cup {handle}
      /\ Audited(Line("open", m, Parsed("open", f), mode), IF On(f) = {} THEN {} ELSE {f})
      /\ UNCHANGED <<queue, tokens, listening, answer, locked>>

Closes(h) ==
    /\ handles' = handles \ {h}
    /\ Audited(Line("close", h.machine, Parsed("close", h.file), h.mode),
               IF On(h.file) = {h} THEN {} ELSE {h.file})
    /\ UNCHANGED <<queue, tokens, listening, answer, locked, spentOn>>

\* a file that a machine writes goes by another name, to which the lock does not follow
Renames(h, g) ==
    /\ h.mode = "w" /\ On(h.file) = {h} /\ On(g) = {} /\ SpendOn("troubles")
    /\ handles' = {[h EXCEPT !.file = g]} \cup (handles \ {h})
    /\ Audited(Renaming(h.machine, h.file, g), {h.file, g})
    /\ UNCHANGED <<queue, tokens, listening, answer, locked>>

\* a datagram that the ingest never reads
Lost(i) ==
    /\ SpendOn("troubles")
    /\ wire' = RemoveAt(wire, i) /\ doubt' = doubt \cup About(<<wire[i]>>)
    /\ UNCHANGED <<handles, queue, tokens, listening, answer, locked>>

\* something else that logs to the facility
OtherLine ==
    /\ listening /\ Len(wire) < MaxWire /\ SpendOn("troubles")
    /\ wire' = Append(wire, Noise)
    /\ UNCHANGED <<handles, queue, tokens, listening, answer, locked, doubt>>

-----------------------------------------------------------------------------
(* ingestLine: the limiter is asked before the line is looked at; a queue  *)
(* that is full loses its oldest event.                                    *)
Ingest ==
    /\ answer = NoAnswer /\ wire # <<>>
    /\ wire' = Tail(wire)
    /\ tokens' = IF tokens = 0 THEN 0 ELSE tokens - 1
    /\ LET line == Head(wire)
           full == Len(queue) >= MaxQueue
       IN \/ tokens = 0 /\ doubt' = doubt \cup About(<<line>>) /\ UNCHANGED queue
          \/ tokens > 0 /\ line.op = "noise" /\ UNCHANGED <<queue, doubt>>
          \/ /\ tokens > 0 /\ line.op # "noise"
             /\ queue' = Append(IF full THEN Tail(queue) ELSE queue, line)
             /\ doubt' = IF full THEN doubt \cup About(<<Head(queue)>>) ELSE doubt
    /\ UNCHANGED <<handles, listening, answer, locked, spentOn>>

Refill ==
    /\ tokens < Burst /\ tokens' = tokens + 1
    /\ UNCHANGED <<handles, wire, queue, listening, answer, locked, doubt, spentOn>>

Take(locks, name, m) == IF locks[name] = Nobody THEN [locks EXCEPT ![name] = m] ELSE locks
\* a machine gives up its own lock only
Give(locks, name, m) == IF locks[name] = m THEN [locks EXCEPT ![name] = Nobody] ELSE locks

(* MachineLockSource.handleEvent: to open for reading is no lock, but to   *)
(* close gives the machine's lock up whatever it was opened for.           *)
HandledOpens(locks, e) == IF e.op = "open" /\ e.mode = "w" THEN Take(locks, e.path, e.machine) ELSE locks
Handled(locks, e) ==
    IF e.op = "open" THEN IF e.mode = "w" THEN Take(locks, e.path, e.machine) ELSE locks
    ELSE Give(Give(locks, e.path, e.machine), e.new, e.machine)

DrainsNewestFirst == FoldLeft(Handled, locked, Reverse(queue))
Drained ==
    LET after[k \in 0..Len(queue)] ==
            IF k = 0 THEN locked ELSE Handled(after[k - 1], queue[k])
    IN  after[Len(queue)]
Drain ==
    /\ answer = NoAnswer /\ queue # <<>>
    /\ locked' = Drained /\ queue' = <<>>
    /\ UNCHANGED <<handles, wire, tokens, listening, answer, doubt, spentOn>>

-----------------------------------------------------------------------------
(* SambaService.statusOrNull.  The text is split at blanks, and says which *)
(* opens only read; in the JSON an access mask never reads as RDONLY.      *)
FirstWord(f) == IF f \in Spaced THEN Word ELSE f
InJson == [n \in Names |-> {h.machine : h \in {g \in handles : g.file = n}}]
InText == [n \in Names |->
             {h.machine : h \in {g \in handles : FirstWord(g.file) = n /\ g.mode = "w"}}]

\* what an answer settles: no line about it is on its way, and whoever has it locked
\* has it open, or nobody has
Settled(open) ==
    {f \in Files \ (About(wire) \cup About(queue)) :
       ByMachine(f) => locked[f] \in open[f] \/ open[f] = {}}
Ask ==
    /\ answer = NoAnswer
    /\ \/ answer' = Read(InJson) /\ doubt' = doubt \ Settled(InJson) /\ UNCHANGED spentOn
       \/ /\ SpendOn("troubles")
          /\ \/ answer' = Read(InText) /\ doubt' = (doubt \ Settled(InText)) \cup Spaced
             \/ answer' = Failed /\ UNCHANGED doubt
    /\ UNCHANGED <<handles, wire, queue, tokens, listening, locked>>
AskJson == Ask /\ answer' = Read(InJson)

(* MachineLockSource.reconcile: takes what is open and not locked, gives   *)
(* up what a machine has locked and is not open.  The last open of a name  *)
(* that the answer lists is who has it.                                    *)
\* mutant: reconciliation only releases
SettledReleases(who) ==
    [n \in Names |-> IF ByMachine(n) /\ answer.open[n] = {} THEN Nobody ELSE locked[n]]
SettledBy(who) ==
    [n \in Names |->
       IF locked[n] = Nobody /\ answer.open[n] # {} THEN who[n]
       ELSE IF ByMachine(n) /\ answer.open[n] = {} THEN Nobody ELSE locked[n]]
Reconcile ==
    /\ answer # NoAnswer /\ answer' = NoAnswer
    /\ \/ answer = Failed /\ UNCHANGED locked
       \/ /\ answer # Failed
          /\ \E who \in [Names -> Machines] :
               /\ \A n \in Names : answer.open[n] # {} => who[n] \in answer.open[n]
               /\ locked' = SettledBy(who)
    /\ UNCHANGED <<handles, wire, queue, tokens, listening, doubt, spentOn>>

-----------------------------------------------------------------------------
OperatorTurns(f) ==
    /\ answer = NoAnswer /\ SpendOn("troubles")
    /\ locked' = [locked EXCEPT ![f] = IF @ = Nobody THEN Operator ELSE Nobody]
    /\ doubt' = IF locked[f] = Nobody THEN doubt ELSE doubt \cup {f}
    /\ UNCHANGED <<handles, wire, queue, tokens, listening, answer>>

\* the service goes down and comes back; the locks are in the database
Restart ==
    /\ SpendOn("troubles")
    /\ wire' = <<>> /\ queue' = <<>> /\ tokens' = Burst /\ answer' = NoAnswer
    /\ listening' \in BOOLEAN
    /\ doubt' = Files
    /\ UNCHANGED <<handles, locked>>

AuditNext ==
    \/ \E m \in Machines, f \in Files, mode \in Modes : Opens(m, f, mode)
    \/ \E h \in handles : Closes(h) \/ \E g \in Files \ {h.file} : Renames(h, g)
    \/ \E i \in DOMAIN wire : Lost(i)
    \/ OtherLine \/ Ingest \/ Refill \/ Drain \/ Ask \/ Reconcile
    \/ \E f \in Files : OperatorTurns(f)
    \/ Restart

\* the service reads what reaches it, and asks again and again; one day it gets JSON
Works == Ingest \/ Drain \/ Reconcile
AuditSpec == AuditInit /\ [][AuditNext]_auditVars /\ WF_auditVars(Works) /\ SF_auditVars(AskJson)

-----------------------------------------------------------------------------
AuditTypeOK ==
    /\ handles \subseteq Handles
    /\ locked \in [Names -> Machines \cup {Nobody, Operator}]
    /\ tokens \in 0..Burst /\ Len(queue) <= MaxQueue /\ doubt \subseteq Files

(* Once what the machines did has been read, a file one of them writes is  *)
(* locked and what a machine has locked is open, unless a line about it    *)
(* was lost, it was opened twice at a time or renamed, or an operator      *)
(* unlocked it: then the next answer of smbstatus puts it right.           *)
FeedIsRight ==
    wire = <<>> /\ queue = <<>> /\ answer = NoAnswer =>
      \A f \in Files \ doubt :
        /\ Written(f) => locked[f] # Nobody
        /\ ByMachine(f) => On(f) # {}

(* However many lines are lost, what is written ends up locked and no name *)
(* stays locked by a machine that has nothing open under it.               *)
Agreed ==
    /\ \A f \in Files : Written(f) => locked[f] # Nobody
    /\ \A n \in Names : ByMachine(n) => \E h \in handles : h.file = n
LocksAgreeInTheEnd == <>[]Agreed
=============================================================================
