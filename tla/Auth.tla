--------------------------------- MODULE Auth ---------------------------------
(***************************************************************************)
(* The administrator's password, the sessions opened with it, the wizard   *)
(* that sets it first, and the tabs of one browser, which share a cookie   *)
(* and keep a token of their own.                                          *)
(*                                                                         *)
(* A password is the number of times one has been set; hashing one and     *)
(* comparing one are awaited, and so the requests of two tabs interleave   *)
(* there.  A session is its row, which outlives the process.               *)
(***************************************************************************)
EXTENDS Naturals, FiniteSets

CONSTANTS None, Tabs,
          IdleTime, LifeTime, LoginWindow, MaxFailures,     \* the settings
          MaxTime, MaxPasswords, MaxSessions, MaxEnds                  \* bounds

VARIABLES
  password, given,   \* the stored one, None at first; how many have been thought of
  opened,            \* how many sessions have been
  completed,         \* setup.completed
  sessions,          \* id -> row, None when there is none
  clock, failures,   \* the attempts of the address: a count and when it began
  jar, tabs, jobs,   \* the cookie; what a tab shows; its request in flight
  cut,               \* a process ended between the new password and the revocation
  ends

vars == <<password, given, opened, completed, sessions, clock, failures, jar, tabs, jobs, cut, ends>>
server == <<password, given, opened, completed, sessions, failures, cut>>

Ids == 1..MaxSessions
NoFailures == [count |-> 0, since |-> 0]
Away == [page |-> "away", token |-> None]
Job(kind, word, good) == [kind |-> kind, word |-> word, good |-> good]

Init ==
    /\ password = None /\ given = 0 /\ opened = 0 /\ completed = FALSE
    /\ sessions = [i \in Ids |-> None] /\ clock = 0 /\ failures = NoFailures
    /\ jar = None /\ tabs = [t \in Tabs |-> Away] /\ jobs = [t \in Tabs |-> None]
    /\ cut = FALSE /\ ends = 0

Show(t, page, token) == tabs' = [tabs EXCEPT ![t] = [page |-> page, token |-> token]]
Send(t, job) == jobs' = [jobs EXCEPT ![t] = job]
Free(t) == jobs[t] = None

-----------------------------------------------------------------------------
(* A session is good until it has been idle, or has lived, for too long;   *)
(* it is moved on or deleted by the request that asks.                     *)
ValidIdleOnly(id) ==
    id # None /\ sessions[id] # None /\ clock <= sessions[id].seen + IdleTime
Valid(id) ==
    /\ id # None /\ sessions[id] # None
    /\ clock <= sessions[id].seen + IdleTime /\ clock <= sessions[id].dies
Validated(id) ==
    IF id = None \/ sessions[id] = None THEN sessions
    ELSE [sessions EXCEPT ![id] = IF Valid(id) THEN [@ EXCEPT !.seen = clock] ELSE None]

Revoked == [i \in Ids |-> None]

SetPasswordOnly(word) == password' = word /\ cut' = cut /\ UNCHANGED sessions
SetPassword(word) == password' = word /\ sessions' = Revoked /\ cut' = FALSE

MatchesDummy(word) == password = None \/ word = password
\* no comparison with nothing stored, or with anything but what is stored now
Matches(word) == password # None /\ word = password

-----------------------------------------------------------------------------
(* setup.status and auth.session are read when the page is loaded.  A      *)
(* status that cannot be read counts as completed.                         *)
Load(t) ==
    /\ Free(t)
    /\ sessions' = Validated(jar)
    /\ \/ ~completed /\ Show(t, "wizard", IF Valid(jar) THEN jar ELSE None)
       \/ IF Valid(jar) THEN Show(t, "app", jar) ELSE Show(t, "login", None)
    /\ UNCHANGED <<opened, password, given, completed, clock, failures, jar, jobs, cut, ends>>

\* the public half of the wizard, refused once it has been completed
SubmitPassword(t) ==
    /\ Free(t) /\ tabs[t].page = "wizard" /\ ~completed /\ given < MaxPasswords
    /\ given' = given + 1
    /\ Send(t, Job("setup", given', TRUE))
    /\ UNCHANGED <<opened, password, completed, sessions, clock, failures, jar, tabs, cut, ends>>

StoreFirst(t) ==
    /\ jobs[t] # None /\ jobs[t].kind = "setup"
    /\ SetPassword(jobs[t].word)
    /\ Send(t, Job("stored", jobs[t].word, TRUE))
    /\ UNCHANGED <<opened, given, completed, clock, failures, jar, tabs, ends>>

Limited == clock - failures.since <= LoginWindow /\ failures.count >= MaxFailures

\* the hash is read, and the comparison awaited
StartLogin(t, word) ==
    /\ IF Limited THEN Send(t, None) ELSE Send(t, Job("login", word, Matches(word)))
    /\ UNCHANGED <<server, clock, jar, tabs, ends>>

SignIn(t) ==
    \/ \E word \in 0..given : Free(t) /\ tabs[t].page = "login" /\ StartLogin(t, word)
    \/ jobs[t] # None /\ jobs[t].kind = "stored" /\ StartLogin(t, jobs[t].word)

FinishLogin(t) ==
    /\ jobs[t] # None /\ jobs[t].kind = "login" /\ Send(t, None)
    /\ IF jobs[t].good
       THEN /\ opened < MaxSessions /\ opened' = opened + 1
            /\ sessions' = [sessions EXCEPT ![opened'] =
                 [under |-> jobs[t].word, raced |-> jobs[t].word # password,
                  seen |-> clock, dies |-> clock + LifeTime]]
            /\ jar' = opened' /\ failures' = NoFailures
            /\ Show(t, IF tabs[t].page = "wizard" THEN "finish" ELSE "app", opened')
       ELSE /\ failures' = IF clock - failures.since > LoginWindow \/ failures.count = 0
                           THEN [count |-> 1, since |-> clock]
                           ELSE [failures EXCEPT !.count = IF @ < MaxFailures THEN @ + 1 ELSE @]
            /\ UNCHANGED <<sessions, opened, jar, tabs>>
    /\ UNCHANGED <<password, given, completed, clock, cut, ends>>

-----------------------------------------------------------------------------
\* what needs a session; what changes anything needs its token as well
Complete(t) ==
    /\ Free(t) /\ tabs[t].page = "finish"
    /\ sessions' = Validated(jar)
    /\ IF Valid(jar) /\ ~completed
       THEN completed' = TRUE /\ Show(t, "app", tabs[t].token)
       ELSE UNCHANGED <<completed, tabs>>
    /\ UNCHANGED <<opened, password, given, clock, failures, jar, jobs, cut, ends>>

StartChange(t, word) ==
    /\ Free(t) /\ tabs[t].page = "app" /\ given < MaxPasswords
    /\ sessions' = Validated(jar)
    /\ IF Valid(jar) /\ tabs[t].token = jar
       THEN Send(t, Job("compare", word, Matches(word)))
       ELSE UNCHANGED jobs
    /\ UNCHANGED <<opened, password, given, completed, clock, failures, jar, tabs, cut, ends>>
FinishCompare(t) ==
    /\ jobs[t] # None /\ jobs[t].kind = "compare"
    /\ IF jobs[t].good /\ given < MaxPasswords
       THEN given' = given + 1 /\ Send(t, Job("change", given', TRUE))
       ELSE Send(t, None) /\ UNCHANGED given
    /\ UNCHANGED <<opened, password, completed, sessions, clock, failures, jar, tabs, cut, ends>>
\* it revokes the session that asked, too
FinishChange(t) ==
    /\ jobs[t] # None /\ jobs[t].kind = "change"
    /\ SetPassword(jobs[t].word) /\ Send(t, None)
    /\ UNCHANGED <<opened, given, completed, clock, failures, jar, tabs, ends>>

\* the page is left whatever the answer; the cookie only goes with a good one
Logout(t) ==
    /\ Free(t) /\ tabs[t].page = "app"
    /\ IF Valid(jar)
       THEN sessions' = [sessions EXCEPT ![jar] = None] /\ jar' = None
       ELSE sessions' = Validated(jar) /\ UNCHANGED jar
    /\ Show(t, "login", None)
    /\ UNCHANGED <<opened, password, given, completed, clock, failures, jobs, cut, ends>>

\* any other request of a page; the page stays as it is when it is refused
Ask(t) ==
    /\ Free(t) /\ tabs[t].page \in {"app", "finish"} /\ jar # None
    /\ sessions' = Validated(jar)
    /\ UNCHANGED <<opened, password, given, completed, clock, failures, jar, tabs, jobs, cut, ends>>

Tick ==
    /\ clock < MaxTime /\ clock' = clock + 1
    /\ UNCHANGED <<server, jar, tabs, jobs, ends>>

\* two statements, each on the disk when it returns; what was in memory is gone
End ==
    /\ ends < MaxEnds /\ ends' = ends + 1
    /\ jobs' = [t \in Tabs |-> None] /\ failures' = NoFailures
    /\ \/ UNCHANGED <<password, cut>>
       \/ \E t \in Tabs :
            /\ jobs[t] # None /\ jobs[t].kind \in {"setup", "change"}
            /\ password' = jobs[t].word /\ cut' = TRUE
    /\ UNCHANGED <<opened, given, completed, sessions, clock, jar, tabs>>

Next ==
    \/ Tick \/ End
    \/ \E t \in Tabs :
         \/ Load(t) \/ SubmitPassword(t) \/ StoreFirst(t) \/ SignIn(t) \/ FinishLogin(t)
         \/ Complete(t) \/ FinishCompare(t) \/ FinishChange(t) \/ Logout(t) \/ Ask(t)
         \/ \E word \in 0..given : StartChange(t, word)

Spec == Init /\ [][Next]_vars

-----------------------------------------------------------------------------
Rows == [under : Nat, raced : BOOLEAN, seen : Nat, dies : Nat]
Requests == [kind : {"setup", "stored", "login", "compare", "change"}, word : Nat, good : BOOLEAN]

\* what the constants are asked for: a marker is none of what it marks the absence of
SettingIsSound ==
    /\ LifeTime \in Nat /\ MaxSessions \in Nat
    /\ None \notin Rows /\ None \notin Requests /\ None \notin Nat

AuthTypeOK ==
    /\ password \in {None} \union 1..given /\ jar \in Ids \union {None}
    /\ \A t \in Tabs : tabs[t].page \in {"away", "wizard", "login", "finish", "app"}

(* A session that is let in was opened under the password that is in force *)
(* (auth.ts:357, "every other session must stop working immediately"),     *)
(* unless its password was being compared while the change was stored, or  *)
(* the process ended between the new hash and the revocation.              *)
SessionsAreCurrent ==
    \A i \in Ids : sessions[i] # None =>
        sessions[i].under = password \/ sessions[i].raced \/ cut

(* No use keeps a session beyond its absolute end.                         *)
SessionsDie == \A i \in Ids : sessions[i] # None => sessions[i].seen <= sessions[i].dies

(* The wizard is closed only over a password that somebody has signed in   *)
(* with; while none is stored, nobody is in.                               *)
SetupEndsKnown ==
    /\ completed => password # None
    /\ password = None => \A i \in Ids : sessions[i] = None

SignInIsSafe == SessionsAreCurrent /\ SessionsDie /\ SetupEndsKnown
=============================================================================
