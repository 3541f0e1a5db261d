-------------------------------- MODULE Helper --------------------------------
(***************************************************************************)
(* The privileged helper: one request on its standard input, validated,    *)
(* carried out as a short program of file operations and commands, put on  *)
(* record and answered.  privileged/main.ts, verbs.ts, handlers.ts, exec.ts *)
(* and client.ts.                                                          *)
(*                                                                         *)
(* A program is a sequence of steps.  Each may fail; a failure ends the    *)
(* program unless the step tolerates it, and a step marked last runs on    *)
(* the way out in any case (a finally).  The helper may be killed between  *)
(* any two steps.  What a step does to the appliance is Effect.            *)
(***************************************************************************)
EXTENDS Naturals, Sequences

CONSTANTS NoRequest, None,
          MaxRequests,   \* bound: requests
          MaxMishaps     \* bound: steps that fail though they could succeed, and kills

VARIABLES sys,       \* the appliance, as far as the verbs reach
          request, program, at,
          thrown,    \* an error is on its way out
          log,       \* CommandLog.entries of the request under way
          record,    \* the audit record written last
          killed,    \* what a kill left behind may still lie about
          requests, failures, kills

vars == <<sys, request, program, at, thrown, log, record, killed,
          requests, failures, kills>>

Contents == {"old", "good", "bad"}   \* bad: what testparm or nft would reject
Accounts == {"absent", "ours", "foreign"}
Units == {"self-update", "os-update"}
Profiles == {"wired", "tnc", "revert"}

FirstSys ==
    [creds |-> FALSE, mounted |-> FALSE,
     smb |-> "old", smbRuns |-> "old", smbBackup |-> None,
     dnsmasq |-> None, dhcpd |-> FALSE,
     nft |-> "old", nftLoaded |-> "old", mayForward |-> FALSE, forward |-> FALSE,
     candidate |-> None,
     cert |-> "old", key |-> "old",
     account |-> "absent", login |-> FALSE,
     current |-> "old", units |-> {},
     profile |-> [p \in Profiles |-> IF p = "wired" THEN "old" ELSE None],
     active |-> "wired", armed |-> FALSE, hostname |-> "old"]

-----------------------------------------------------------------------------
(* Requests, as validateRequest lets them through, and those it refuses.   *)
Request(verb, content, flag) ==
    [verb |-> verb, content |-> content, flag |-> flag, sound |-> TRUE]

Requests ==
    { Request("mount-share", "good", FALSE),
      Request("reload-samba", "good", TRUE),
      Request("service-restart", "good", FALSE),
      Request("self-update", "good", FALSE), Request("os-update", "good", FALSE),
      [Request("mount-share", "good", FALSE) EXCEPT !.sound = FALSE] }
    \cup [verb : {"unmount-share", "write-dnsmasq-config", "set-samba-user"},
          content : {"good"}, flag : BOOLEAN, sound : {TRUE}]
    \cup [verb : {"write-samba-config", "install-cert", "apply-update"},
          content : {"good", "bad"}, flag : {FALSE}, sound : {TRUE}]
    \cup [verb : {"write-nft-ruleset"}, content : {"good", "bad"}, flag : BOOLEAN, sound : {TRUE}]
    \cup [verb : {"apply-network"}, content : {"good"}, flag : BOOLEAN, sound : {TRUE}]

Must(op) == [op |-> op, tolerant |-> FALSE, last |-> FALSE]
Try(op)  == [op |-> op, tolerant |-> TRUE, last |-> FALSE]
Last(op) == [op |-> op, tolerant |-> FALSE, last |-> TRUE]
Throw    == Must("throw")
If(condition, step) == IF condition THEN <<step>> ELSE <<>>

MountShare == <<Must("write-credentials"), Must("mount"), Last("shred-credentials")>>
UnmountShare(force) ==
    IF force THEN <<Try("umount"), Must("detach")>> ELSE <<Must("umount")>>
ReloadSamba == <<Must("restart-smbd")>>
\* mutant: the file is in place before testparm has seen it
WriteSambaConfigUnseen ==
    <<Must("write-candidate"), Must("back-up-smb.conf"), Must("rename-smb.conf"),
      Must("testparm"), Last("drop-candidate"), Try("reload-smbd")>>
WriteSambaConfig ==
    <<Must("write-candidate"), Must("testparm"), Must("back-up-smb.conf"),
      Must("rename-smb.conf"), Last("drop-candidate"), Try("reload-smbd")>>
WriteDnsmasqConfig(enabled) ==
    IF enabled THEN <<Must("write-dnsmasq"), Try("enable-dnsmasq"), Must("restart-dnsmasq")>>
    ELSE <<Must("remove-dnsmasq"), Try("stop-dnsmasq"), Try("disable-dnsmasq")>>
\* mutant: routing first
WriteNftRulesetLate ==
    <<Must("write-candidate"), Must("nft-c"), Must("rename-nft"), Last("drop-candidate"),
      Must("ip_forward"), Must("nft-f")>>
WriteNftRuleset ==
    <<Must("write-candidate"), Must("nft-c"), Must("rename-nft"), Last("drop-candidate"),
      Must("nft-f"), Must("ip_forward")>>
InstallCert == <<Must("write-cert"), Must("write-key"), Must("write-chain")>>
ApplyUpdate == <<Must("verify-release"), Must("link-current"), Must("restart-service")>>
StartUnit == <<Must("systemd-run")>>
ServiceRestart == <<Must("systemctl")>>
ApplyNetwork(revert) ==
    <<Must("show-device")>>
      \o If(sys.active = None, Must("add-profile"))
      \o <<Try("stop-timer"), Try("delete-clone")>>
      \o If(revert, Try("clone-profile"))
      \o <<Must("modify-profile"), Must("profile-up"), Must("set-hostname")>>
      \o If(revert, Must("arm-timer"))
\* accountOwnership is asked once, before anything is done
SetSambaUser(remove) ==
    IF sys.account = "foreign" THEN <<Throw>>
    ELSE IF remove
         THEN IF sys.account = "absent" THEN <<>> ELSE <<Try("smbpasswd-x"), Try("userdel")>>
         ELSE <<Must("useradd"), Try("usermod"), Must("smbpasswd-a"), Try("smbpasswd-e")>>

(* execute()                                                               *)
Program(r) ==
    CASE r.verb = "mount-share"          -> MountShare
      [] r.verb = "unmount-share"        -> UnmountShare(r.flag)
      [] r.verb = "reload-samba"         -> ReloadSamba
      [] r.verb = "write-samba-config"   -> WriteSambaConfig
      [] r.verb = "write-dnsmasq-config" -> WriteDnsmasqConfig(r.flag)
      [] r.verb = "write-nft-ruleset"    -> WriteNftRuleset
      [] r.verb = "install-cert"         -> InstallCert
      [] r.verb = "apply-update"         -> ApplyUpdate
      [] r.verb = "set-samba-user"       -> SetSambaUser(r.flag)
      [] r.verb = "apply-network"        -> ApplyNetwork(r.flag)
      [] r.verb \in Units                -> StartUnit
      [] r.verb = "service-restart"      -> ServiceRestart

-----------------------------------------------------------------------------
(* What the tools accept.                                                  *)
Connection == log.connection   \* the profile apply-network read at its start, or adds

Accepts(op, r) ==
    CASE op = "throw"                  -> FALSE
      [] op \in {"testparm", "nft-c", "verify-release"} -> r.content # "bad"
      [] op = "systemd-run"            -> r.verb \notin sys.units
      [] op = "restart-dnsmasq"        -> sys.dnsmasq # None
      [] op \in {"clone-profile", "modify-profile", "profile-up"}
                                       -> sys.profile[Connection] # None
      [] op = "delete-clone"           -> sys.profile["revert"] # None
      [] op = "umount"                 -> sys.mounted
      [] OTHER                         -> TRUE

(* The step is passed over: umount -l after a umount that worked.          *)
Skipped(op) == op = "detach" /\ ~sys.mounted

Effect(op, r) ==
    CASE op = "write-credentials" -> [sys EXCEPT !.creds = TRUE]
      [] op = "shred-credentials" -> [sys EXCEPT !.creds = FALSE]
      [] op = "mount"             -> [sys EXCEPT !.mounted = TRUE]
      [] op \in {"umount", "detach"} -> [sys EXCEPT !.mounted = FALSE]
      [] op = "write-candidate"   -> [sys EXCEPT !.candidate = r.content]
      [] op = "drop-candidate"    -> [sys EXCEPT !.candidate = None]
      [] op = "back-up-smb.conf"  -> [sys EXCEPT !.smbBackup = sys.smb]
      [] op = "rename-smb.conf"   -> [sys EXCEPT !.smb = r.content]
      [] op \in {"reload-smbd", "restart-smbd"} -> [sys EXCEPT !.smbRuns = sys.smb]
      [] op = "write-dnsmasq"     -> [sys EXCEPT !.dnsmasq = r.content]
      [] op = "remove-dnsmasq"    -> [sys EXCEPT !.dnsmasq = None]
      [] op = "restart-dnsmasq"   -> [sys EXCEPT !.dhcpd = TRUE]
      [] op = "stop-dnsmasq"      -> [sys EXCEPT !.dhcpd = FALSE]
      [] op = "rename-nft"        -> [sys EXCEPT !.nft = r.content]
      [] op = "nft-f"             -> [sys EXCEPT !.nftLoaded = sys.nft, !.mayForward = r.flag]
      [] op = "ip_forward"        -> [sys EXCEPT !.forward = r.flag]
      [] op = "write-cert"        -> [sys EXCEPT !.cert = r.content]
      [] op = "write-key"         -> [sys EXCEPT !.key = r.content]
      [] op = "link-current"      -> [sys EXCEPT !.current = r.content]
      [] op = "systemd-run"       -> [sys EXCEPT !.units = @ \cup {r.verb}]
      [] op = "useradd"           -> [sys EXCEPT !.account = IF @ = "absent" THEN "ours" ELSE @]
      [] op = "smbpasswd-a"       -> [sys EXCEPT !.login = TRUE]
      [] op = "smbpasswd-x"       -> [sys EXCEPT !.login = FALSE]
      [] op = "userdel"           -> [sys EXCEPT !.account = "absent"]
      [] op = "stop-timer"        -> [sys EXCEPT !.armed = FALSE]
      \* a device whose profile is deleted comes up on one of the others
      [] op = "delete-clone"      -> [sys EXCEPT !.profile["revert"] = None,
                                                 !.active = IF @ = "revert" THEN "wired" ELSE @]
      [] op = "add-profile"       -> [sys EXCEPT !.profile["tnc"] = "old"]
      [] op = "clone-profile"     -> [sys EXCEPT !.profile["revert"] = sys.profile[Connection]]
      [] op = "modify-profile"    -> [sys EXCEPT !.profile[Connection] = r.content]
      [] op = "profile-up"        -> [sys EXCEPT !.active = Connection]
      [] op = "set-hostname"      -> [sys EXCEPT !.hostname = r.content]
      [] op = "arm-timer"         -> [sys EXCEPT !.armed = TRUE]
      [] OTHER                    -> sys

-----------------------------------------------------------------------------
NoLog == [commands |-> 0, connection |-> "wired"]

Init ==
    /\ \E account \in Accounts, forward \in BOOLEAN, active \in {"wired", None} :
         sys = [FirstSys EXCEPT !.account = account, !.login = account = "ours",
                                !.forward = forward, !.mayForward = forward,
                                !.active = active]
    /\ request = NoRequest /\ program = <<>> /\ at = 1 /\ thrown = FALSE
    /\ log = NoLog
    /\ record = [outcome |-> "none", commands |-> 0]
    /\ killed = FALSE
    /\ requests = 0 /\ failures = 0 /\ kills = 0

(* runHelper: a request that does not pass validation is on record as      *)
(* denied, and nothing is carried out.                                     *)
Invoke(r) ==
    /\ request = NoRequest
    /\ requests < MaxRequests /\ requests' = requests + 1
    /\ IF r.sound
       THEN /\ request' = r /\ program' = Program(r)
            /\ UNCHANGED record
       ELSE /\ record' = [outcome |-> "denied", commands |-> 0]
            /\ UNCHANGED <<request, program>>
    /\ at' = 1 /\ thrown' = FALSE /\ log' = [NoLog EXCEPT !.connection = IF sys.active = None THEN "tnc" ELSE sys.active]
    /\ UNCHANGED <<sys, killed, failures, kills>>

Running == request # NoRequest
Over == at > Len(program)
Step == program[at]

Logged == [log EXCEPT !.commands = @ + 1]

StepSucceeds ==
    /\ Running /\ ~Over
    /\ Accepts(Step.op, request)
    /\ at' = IF thrown THEN Len(program) + 1 ELSE at + 1
    /\ IF Skipped(Step.op) THEN UNCHANGED <<sys, log>>
       ELSE sys' = Effect(Step.op, request) /\ log' = Logged
    /\ UNCHANGED <<request, program, thrown, record, killed, requests, failures, kills>>

\* where an error that is thrown at a step goes: to a finally ahead, or out
WayOut ==
    LET ahead == {i \in at + 1..Len(program) : program[i].last}
    IN  IF thrown \/ ahead = {} THEN Len(program) + 1
        ELSE CHOOSE i \in ahead : \A j \in ahead : i <= j

StepFails ==
    /\ Running /\ ~Over /\ ~Skipped(Step.op)
    /\ IF Accepts(Step.op, request)
       THEN failures + kills < MaxMishaps /\ failures' = failures + 1
       ELSE UNCHANGED failures
    /\ log' = Logged
    /\ IF Step.tolerant THEN at' = at + 1 /\ UNCHANGED thrown
       ELSE at' = WayOut /\ thrown' = TRUE
    /\ UNCHANGED <<sys, request, program, record, killed, requests, kills>>

(* The answer, and the audit record: one of a failure names no command.    *)
Answer ==
    /\ Running /\ Over
    /\ record' = IF thrown THEN [outcome |-> "failed", commands |-> 0]
                 ELSE [outcome |-> "ok", commands |-> log.commands]
    /\ request' = NoRequest /\ program' = <<>> /\ at' = 1 /\ thrown' = FALSE /\ log' = NoLog
    /\ UNCHANGED <<sys, killed, requests, failures, kills>>

(* The deadline of exec.ts or of the client, or the power.                 *)
Kill ==
    /\ Running /\ failures + kills < MaxMishaps /\ kills' = kills + 1
    /\ request' = NoRequest /\ program' = <<>> /\ at' = 1 /\ thrown' = FALSE /\ log' = NoLog
    /\ killed' = TRUE
    /\ UNCHANGED <<sys, record, requests, failures>>

(* The revert timer of apply-network goes off.                             *)
TimerFires ==
    /\ sys.armed
    /\ sys' = [sys EXCEPT !.armed = FALSE,
                          !.active = IF sys.profile["revert"] = None THEN @ ELSE "revert"]
    /\ UNCHANGED <<request, program, at, thrown, log, record, killed, requests, failures, kills>>

UnitEnds ==
    /\ \E u \in sys.units : sys' = [sys EXCEPT !.units = @ \ {u}]
    /\ UNCHANGED <<request, program, at, thrown, log, record, killed,
                   requests, failures, kills>>

Next == \/ \E r \in Requests : Invoke(r)
        \/ StepSucceeds \/ StepFails \/ Answer \/ Kill \/ TimerFires \/ UnitEnds

Spec == Init /\ [][Next]_vars

-----------------------------------------------------------------------------
TypeOK ==
    /\ Running => request.sound
    /\ at \in 1..(Len(program) + 1) /\ thrown \in BOOLEAN
    /\ sys.account \in Accounts /\ sys.units \subseteq Units
    /\ sys.active \in Profiles \cup {None}
    /\ record.outcome \in {"none", "ok", "failed", "denied"}
    /\ killed \in BOOLEAN

(* Nothing that a tool or a digest would reject is ever in force: smbd and *)
(* the firewall never hold it, nor does the release link.                  *)
OnlyWhatPassed == "bad" \notin {sys.smb, sys.smbRuns, sys.nft, sys.nftLoaded, sys.current}

(* A request that came back, well or badly, left no password and no        *)
(* candidate file behind.                                                  *)
NothingLeftBehind ==
    (~Running /\ ~killed) => (~sys.creds \/ failures > 0) /\ (sys.candidate = None \/ failures > 0)

(* An account the bridge did not make gets no password and is not removed. *)
ForeignIsLeftAlone == sys.account = "foreign" => ~sys.login

(* Whatever fails or dies in the middle of a request: what is in force has *)
(* been checked, secrets do not outlive it, other people's accounts stay.  *)
HelperIsCareful == OnlyWhatPassed /\ NothingLeftBehind /\ ForeignIsLeftAlone

(* Routing is switched on only under rules that were written for it.       *)
RulesBeforeRoutes == [][(~sys.forward /\ sys'.forward) => sys.mayForward]_vars

(* "the pre-change profile is cloned first" (handlers.ts, applyNetwork): a *)
(* change that asks for a rollback never deletes the profile in use.       *)
PreChangeProfileIsKept ==
    [][(Running /\ request.verb = "apply-network" /\ request.flag /\ sys.active # None)
         => sys'.profile[sys.active] # None]_vars
=============================================================================
