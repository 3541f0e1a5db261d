----------------------------- MODULE SambaConfig -----------------------------
(***************************************************************************)
(* The share table, the smb.conf rendered from it, the Samba accounts its  *)
(* shares call for, and what smbd holds its established sessions to.       *)
(* samba-config-manager.ts, smb-conf.ts, share-store.ts and the handlers   *)
(* of web/routes/shares.ts that write the table.                           *)
(*                                                                         *)
(* smbd reads a share's section when a client connects to it: a session    *)
(* keeps what it connected under until smbd restarts or it connects again. *)
(* A call of the privileged helper may be refused.                         *)
(***************************************************************************)
EXTENDS Naturals, FiniteSets

CONSTANTS Shares,       \* rows the table may hold
          Place,        \* where each share comes in a list by name
          Users,        \* machine users, as account names
          Legacy,       \* the account an older build made for each share
          NoUser, NoRow, NoFile,
          Twins,        \* pairs of shares whose names differ in case only
          MaxEdits,     \* bound: edits by the operator
          MaxRefusals,  \* bound: reconciliations the helper refuses part of
          MaxRestarts   \* bound: ends of the process

VARIABLES row,       \* the shares table
          accounts,  \* the Samba accounts that exist
          file,      \* smb.conf: the sections it has
          written,   \* SambaConfigManager.lastWritten
          session,   \* what a machine's session on a share is held to
          behind,    \* shares whose sessions something has left behind
          owed,      \* the file could not be written when it should have been
          edits, refusals, restarts

sambaVars == <<row, accounts, file, written, session, behind, owed,
               edits, refusals, restarts>>

Rows == [enabled : BOOLEAN, guest : BOOLEAN, user : Users \cup {NoUser},
         password : BOOLEAN, readOnly : BOOLEAN, failover : BOOLEAN]
Sections == [ro : BOOLEAN, user : Users \cup {NoUser}]

Accounts == Users \cup {Legacy[s] : s \in Shares}

NewRow == [enabled |-> TRUE, guest |-> TRUE, user |-> NoUser, password |-> FALSE,
           readOnly |-> FALSE, failover |-> FALSE]

ASSUME TableAssumption ==
    /\ Place \in [Shares -> Nat]
    /\ \A s, t \in Shares : s # t => Place[s] # Place[t]
    /\ NoUser \notin Accounts
    /\ NoRow \notin Sections
    /\ NoFile \notin [Shares -> Sections \cup {NoRow}]

-----------------------------------------------------------------------------
Exported(r) == r # NoRow /\ r.enabled /\ (r.guest \/ r.user # NoUser)

Section(r) ==
    IF Exported(r) THEN [ro |-> r.readOnly \/ r.failover,
                         user |-> IF r.guest THEN NoUser ELSE r.user]
    ELSE NoRow

Render(rows) == [s \in Shares |-> Section(rows[s])]

(* renderSmbConf throws when two sections would have one name.             *)
Clash(rows) == \E pair \in Twins : \A s \in pair : Exported(rows[s])

(* reconcileAccounts: a share asks for the account it names, or removes it, *)
(* and removes the one an older build made for it; of an account it names   *)
(* without a password it says nothing.                                      *)
Asks(r, a) == r # NoRow /\ r.user = a /\ r.enabled /\ ~r.guest /\ r.password
Drops(s, r, a) ==
    /\ r # NoRow
    /\ IF r.user = a THEN ~r.enabled \/ r.guest ELSE Legacy[s] = a

Speak(rows, a) == {s \in Shares : Asks(rows[s], a) \/ Drops(s, rows[s], a)}
(* In the order of the list: the last one to speak of an account decides.  *)
Decides(rows, a) == {s \in Speak(rows, a) : \A t \in Speak(rows, a) : Place[t] <= Place[s]}

AccountsAfter(rows, had) ==
    { a \in Accounts : IF Speak(rows, a) = {} THEN a \in had
                       ELSE \E s \in Decides(rows, a) : Asks(rows[s], a) }

(* Some of those calls, or of dropAccount's, are refused: each share, and  *)
(* each removal, is tried on its own.                                      *)
AccountsLeft(rows, had, dropped) ==
    LET asked   == {a \in Accounts : \E s \in Shares : Asks(rows[s], a)}
        removed == {a \in Accounts : \E s \in Shares : Drops(s, rows[s], a)}
    IN  {(had \ (dropped \cup removed)) \cup more :
            more \in SUBSET ((had \cap (dropped \cup removed)) \cup asked)}

NoRefusal == [accounts |-> FALSE, write |-> FALSE, restart |-> FALSE]
Refusals == [accounts : BOOLEAN, write : BOOLEAN, restart : BOOLEAN]

MayRefuse(refused) ==
    IF refused = NoRefusal THEN UNCHANGED refusals
    ELSE refusals < MaxRefusals /\ refusals' = refusals + 1

(* dropAccount, where the handler calls it, and reconcileAccounts.         *)
Reconciled(rows, dropped, refused) ==
    IF refused.accounts THEN accounts' \in AccountsLeft(rows, accounts, dropped)
    ELSE accounts' = AccountsAfter(rows, accounts \ dropped)

\* mutants: what was written is remembered before the helper answers; smbd is reloaded
WriteTrustsTheHelper(rows, dropped, last, refused, restart) ==
    LET content == Render(rows)
        new     == ~Clash(rows) /\ content # last
        again   == new /\ restart /\ ~refused.restart
    IN  /\ MayRefuse(refused)
        /\ Reconciled(rows, dropped, refused)
        /\ file' = IF new /\ ~refused.write THEN content ELSE file
        /\ written' = IF new THEN content ELSE last
        /\ owed' = (written' # content)
        /\ session' = IF again THEN content ELSE session
        /\ behind' = IF again THEN {}
                     ELSE behind \cup {s \in Shares : content[s] # session[s]}
WriteReloads(rows, dropped, last, refused, restart) ==
    LET content == Render(rows)
        new     == ~Clash(rows) /\ content # last /\ ~refused.write
        again   == new /\ restart /\ ~refused.restart
    IN  /\ MayRefuse(refused)
        /\ Reconciled(rows, dropped, refused)
        /\ file' = IF new THEN content ELSE file
        /\ written' = IF new THEN content ELSE last
        /\ owed' = (written' # content)
        /\ session' = session
        /\ behind' = IF again THEN {} ELSE behind

(* SambaConfigManager.reconcile over the table as it now is, and the       *)
(* restart of smbd by the callers that ask for one when the file changed.  *)
Write(rows, dropped, last, refused, restart) ==
    LET content == Render(rows)
        new     == ~Clash(rows) /\ content # last /\ ~refused.write
        again   == new /\ restart /\ ~refused.restart
    IN  /\ MayRefuse(refused)
        /\ Reconciled(rows, dropped, refused)
        /\ file' = IF new THEN content ELSE file
        /\ written' = IF new THEN content ELSE last
        /\ owed' = (written' # content)
        /\ session' = IF again THEN content ELSE session
        /\ behind' = IF again THEN {}
                     ELSE behind \cup {s \in Shares :
                            /\ content[s] # session[s]
                            /\ ~restart \/ refused.restart \/ owed'}

Reconcile(rows, dropped, refused, restart) == Write(rows, dropped, written, refused, restart)

\* the service has been started over these rows, and machines are connected
SambaStart(rows) ==
    /\ row = rows
    /\ accounts = AccountsAfter(rows, {})
    /\ file = Render(rows) /\ written = file /\ session = file
    /\ behind = {} /\ owed = FALSE

SambaInit ==
    /\ SambaStart([s \in Shares |-> NewRow])
    /\ edits = 0 /\ refusals = 0 /\ restarts = 0

-----------------------------------------------------------------------------
(* The handlers that write the table.  None of them restarts smbd.         *)

Patched(r) ==
    {[r EXCEPT !.enabled = ~@], [r EXCEPT !.guest = ~@], [r EXCEPT !.readOnly = ~@]}
      \cup {new \in Rows : \A f \in DOMAIN r \ {"user", "password"} : new[f] = r[f]}

FirstRows ==
    {NewRow} \cup [enabled : {TRUE}, guest : {FALSE}, user : Users \cup {NoUser},
                   password : BOOLEAN, readOnly : {FALSE}, failover : {FALSE}]

\* mutant: only what an older build made is dropped
OwnedBefore(s) == {Legacy[s]}

(* dropAccount: the share's account, and the one of an older build.        *)
Owned(s) == {Legacy[s]} \cup ({row[s].user} \ {NoUser})

EditRow(s, new, dropped) ==
    /\ edits < MaxEdits
    /\ edits' = edits + 1
    /\ row' = [row EXCEPT ![s] = new]
    /\ \E refused \in Refusals : Reconcile(row', dropped, refused, FALSE)
    /\ UNCHANGED restarts

(* PATCH: a machine user no longer named loses its account first.          *)
UpdateShare(s) ==
    /\ row[s] # NoRow
    /\ \E new \in Patched(row[s]) \ {row[s]} :
         EditRow(s, new, IF row[s].user \in {NoUser, new.user} THEN {} ELSE Owned(s))

DeleteShare(s) ==
    /\ row[s] # NoRow
    /\ EditRow(s, NoRow, Owned(s))

CreateShare(s) ==
    /\ row[s] = NoRow
    /\ \E new \in FirstRows : EditRow(s, new, {})

(* A machine connects to a share, for the first time or again.             *)
Connect(s) ==
    /\ session[s] # file[s]
    /\ session' = [session EXCEPT ![s] = file[s]]
    /\ behind' = IF owed THEN behind ELSE behind \ {s}
    /\ UNCHANGED <<row, accounts, file, written, owed, edits, refusals, restarts>>

(* The process ends and starts: nothing is remembered as written, and the  *)
(* start renders the file and restarts smbd (server.ts).                   *)
Boot ==
    /\ restarts < MaxRestarts
    /\ restarts' = restarts + 1
    /\ \E refused \in Refusals : Write(row, {}, NoFile, refused, TRUE)
    /\ UNCHANGED <<row, edits>>

-----------------------------------------------------------------------------
SambaTypeOK ==
    /\ row \in [Shares -> Rows \cup {NoRow}]
    /\ accounts \subseteq Accounts
    /\ file \in [Shares -> Sections \cup {NoRow}]
    /\ written \in [Shares -> Sections \cup {NoRow}] \cup {NoFile}
    /\ session \in [Shares -> Sections \cup {NoRow}]
    /\ behind \subseteq Shares
    /\ owed \in BOOLEAN
    /\ edits \in 0..MaxEdits /\ refusals \in 0..MaxRefusals /\ restarts \in 0..MaxRestarts
=============================================================================
