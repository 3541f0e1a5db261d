-------------------------- MODULE Appliance_proofs --------------------------
(***************************************************************************)
(* Proofs about the parts that there is one of on an appliance: the        *)
(* privileged helper, the schedules, the updates, the certificate of the   *)
(* interface, signing in, the network, the limit of writes, the test of a  *)
(* connection, the file browser, the addresses of the machine side, the    *)
(* settings and their pages, the pages of the history and of a file, and   *)
(* the copies of the database; each for any number of requests, failures   *)
(* and ends of the process, and for any constants that its assumption      *)
(* allows; and what follows for the specification that the run checks.     *)
(***************************************************************************)
EXTENDS MCAppliance, TLAPS, SequenceTheorems, FiniteSetTheorems, WellFoundedInduction

-----------------------------------------------------------------------------
(* The helper.  Its programs keep rules that can be seen without running   *)
(* them (Sane): a step that puts something in force comes after one that   *)
(* checks it; what writes a secret or a candidate has one step ahead that  *)
(* removes it on the way out; routing comes after the rules.  What holds   *)
(* while a program runs follows from the rules, whichever step fails.      *)

Puts   == {"rename-smb.conf", "rename-nft", "link-current"}
Checks == {"testparm", "nft-c", "verify-release"}
Ordinary ==
    {"mount", "umount", "detach", "back-up-smb.conf", "reload-smbd", "restart-smbd",
     "write-dnsmasq", "enable-dnsmasq", "restart-dnsmasq", "remove-dnsmasq", "stop-dnsmasq",
     "disable-dnsmasq", "write-cert", "write-key", "write-chain", "restart-service",
     "systemd-run", "systemctl", "show-device", "add-profile", "stop-timer", "delete-clone",
     "clone-profile", "modify-profile", "profile-up", "set-hostname", "arm-timer", "throw",
     "smbpasswd-x", "userdel", "useradd", "usermod", "smbpasswd-e", "shred-credentials",
     "drop-candidate"}
Ops == Ordinary \cup Checks \cup Puts
         \cup {"nft-f", "ip_forward", "write-credentials", "write-candidate", "smbpasswd-a"}
Steps == [op : Ops, tolerant : BOOLEAN, last : BOOLEAN]
Plain == [op : Ordinary, tolerant : BOOLEAN, last : {FALSE}]
Removes(p, i, op) == p[i].op = op /\ p[i].last

Sane(p) ==
    /\ p \in Seq(Steps)
    /\ \A i \in 1..Len(p) : p[i].op \in Checks \cup {"nft-f"} => ~p[i].tolerant
    /\ \A i \in 1..Len(p) : p[i].last => ~p[i].tolerant
    /\ \A i, j \in 1..Len(p) : p[i].last /\ p[j].last => i = j
    /\ \A i \in 1..Len(p) : p[i].op \in Puts =>
          ~p[i].last /\ \E j \in 1..Len(p) : j < i /\ p[j].op \in Checks
    /\ \A i \in 1..Len(p) : p[i].op = "ip_forward" =>
          ~p[i].last /\ \E j \in 1..Len(p) : j < i /\ p[j].op = "nft-f"
    /\ \A i \in 1..Len(p) : p[i].op = "write-credentials" =>
          \E j \in 1..Len(p) : i < j /\ Removes(p, j, "shred-credentials")
    /\ \A i \in 1..Len(p) : p[i].op = "write-candidate" =>
          \E j \in 1..Len(p) : i < j /\ Removes(p, j, "drop-candidate")
Spares(p) == \A i \in 1..Len(p) : p[i].op # "smbpasswd-a"

IsMust(s, op) == s \in Steps /\ s.op = op /\ s.tolerant = FALSE /\ s.last = FALSE
IsTry(s, op)  == s \in Steps /\ s.op = op /\ s.tolerant = TRUE /\ s.last = FALSE
IsLast(s, op) == s \in Steps /\ s.op = op /\ s.tolerant = FALSE /\ s.last = TRUE

LEMMA StepParts ==
    ASSUME NEW op \in Ops
    PROVE  /\ IsMust(Help!Must(op), op) /\ IsTry(Help!Try(op), op)
           /\ IsLast(Help!Last(op), op)
           /\ op \in Ordinary => Help!Must(op) \in Plain /\ Help!Try(op) \in Plain
BY DEF Help!Must, Help!Try, Help!Last, Steps, Plain, IsMust, IsTry, IsLast

LEMMA PlainIsSane == ASSUME NEW p \in Seq(Plain) PROVE Sane(p) /\ Spares(p)
<1>1. \A i \in 1..Len(p) : p[i] \in Plain
  OBVIOUS
<1>2. \A i \in 1..Len(p) : p[i].op \in Ordinary /\ ~p[i].last
  BY <1>1 DEF Plain
<1>3. p \in Seq(Steps)
  <2>1. Plain \subseteq Steps
    BY DEF Plain, Steps, Ops
  <2> QED
    BY <2>1
<1> QED
  BY <1>2, <1>3, ZenonT(60) DEF Sane, Spares, Ordinary, Checks, Puts

LEMMA Tuples ==
    ASSUME NEW S, NEW a \in S, NEW b \in S, NEW c \in S
    PROVE  /\ <<>> \in Seq(S) /\ <<a>> \in Seq(S) /\ <<a, b>> \in Seq(S)
           /\ <<a, b, c>> \in Seq(S)
OBVIOUS
LEMMA Joined ==
    ASSUME NEW S, NEW s \in Seq(S), NEW t \in Seq(S)
    PROVE  s \o t \in Seq(S)
OBVIOUS

LEMMA MountLike ==
    ASSUME NEW a, IsMust(a, "write-credentials"),
           NEW b, IsMust(b, "mount"),
           NEW c, IsLast(c, "shred-credentials")
    PROVE  Sane(<<a, b, c>>) /\ Spares(<<a, b, c>>)
<1> DEFINE p == <<a, b, c>>
<1>1. p \in Seq(Steps) /\ Len(p) = 3 /\ p[1] = a /\ p[2] = b /\ p[3] = c
  BY DEF IsMust, IsTry, IsLast
<1>2. \A i \in 1..3 : i = 1 \/ i = 2 \/ i = 3
  OBVIOUS
<1>3. 3 \in 1..3 /\ 1 < 3
  OBVIOUS
<1> HIDE DEF p
<1>4. Sane(p) /\ Spares(p)
  BY <1>1, <1>2, <1>3 DEF IsMust, IsTry, IsLast, Sane, Spares, Removes, Checks, Puts
<1> QED
  BY <1>4 DEF p

LEMMA SambaLike ==
    ASSUME NEW a, IsMust(a, "write-candidate"),
           NEW b, IsMust(b, "testparm"),
           NEW c, IsMust(c, "back-up-smb.conf"),
           NEW d, IsMust(d, "rename-smb.conf"),
           NEW e, IsLast(e, "drop-candidate"),
           NEW f, IsTry(f, "reload-smbd")
    PROVE  Sane(<<a, b, c, d, e, f>>) /\ Spares(<<a, b, c, d, e, f>>)
<1> DEFINE p == <<a, b, c, d, e, f>>
<1>1. /\ p \in Seq(Steps) /\ Len(p) = 6
      /\ p[1] = a /\ p[2] = b /\ p[3] = c /\ p[4] = d /\ p[5] = e /\ p[6] = f
  BY DEF IsMust, IsTry, IsLast
<1>2. \A i \in 1..6 : i = 1 \/ i = 2 \/ i = 3 \/ i = 4 \/ i = 5 \/ i = 6
  OBVIOUS
<1>3. 2 \in 1..6 /\ 5 \in 1..6 /\ 2 < 4 /\ 1 < 5
  OBVIOUS
<1> HIDE DEF p
<1>4. Sane(p) /\ Spares(p)
  BY <1>1, <1>2, <1>3 DEF IsMust, IsTry, IsLast, Sane, Spares, Removes, Checks, Puts
<1> QED
  BY <1>4 DEF p

LEMMA RulesLike ==
    ASSUME NEW a, IsMust(a, "write-candidate"),
           NEW b, IsMust(b, "nft-c"),
           NEW c, IsMust(c, "rename-nft"),
           NEW d, IsLast(d, "drop-candidate"),
           NEW e, IsMust(e, "nft-f"),
           NEW f, IsMust(f, "ip_forward")
    PROVE  Sane(<<a, b, c, d, e, f>>) /\ Spares(<<a, b, c, d, e, f>>)
<1> DEFINE p == <<a, b, c, d, e, f>>
<1>1. /\ p \in Seq(Steps) /\ Len(p) = 6
      /\ p[1] = a /\ p[2] = b /\ p[3] = c /\ p[4] = d /\ p[5] = e /\ p[6] = f
  BY DEF IsMust, IsTry, IsLast
<1>2. \A i \in 1..6 : i = 1 \/ i = 2 \/ i = 3 \/ i = 4 \/ i = 5 \/ i = 6
  OBVIOUS
<1>3. 2 \in 1..6 /\ 4 \in 1..6 /\ 5 \in 1..6 /\ 2 < 3 /\ 1 < 4 /\ 5 < 6
  OBVIOUS
<1> HIDE DEF p
<1>4. Sane(p) /\ Spares(p)
  BY <1>1, <1>2, <1>3 DEF IsMust, IsTry, IsLast, Sane, Spares, Removes, Checks, Puts
<1> QED
  BY <1>4 DEF p

LEMMA UpdateLike ==
    ASSUME NEW a, IsMust(a, "verify-release"),
           NEW b, IsMust(b, "link-current"),
           NEW c, IsMust(c, "restart-service")
    PROVE  Sane(<<a, b, c>>) /\ Spares(<<a, b, c>>)
<1> DEFINE p == <<a, b, c>>
<1>1. p \in Seq(Steps) /\ Len(p) = 3 /\ p[1] = a /\ p[2] = b /\ p[3] = c
  BY DEF IsMust, IsTry, IsLast
<1>2. \A i \in 1..3 : i = 1 \/ i = 2 \/ i = 3
  OBVIOUS
<1>3. 1 \in 1..3 /\ 1 < 2
  OBVIOUS
<1> HIDE DEF p
<1>4. Sane(p) /\ Spares(p)
  BY <1>1, <1>2, <1>3 DEF IsMust, IsTry, IsLast, Sane, Spares, Removes, Checks, Puts
<1> QED
  BY <1>4 DEF p

LEMMA UserLike ==
    ASSUME NEW a \in Plain, NEW b \in Plain, NEW d \in Plain,
           NEW c, IsMust(c, "smbpasswd-a")
    PROVE  Sane(<<a, b, c, d>>)
<1> DEFINE p == <<a, b, c, d>>
<1>1. Plain \subseteq Steps
  BY DEF Plain, Steps, Ops
<1>2. p \in Seq(Steps) /\ Len(p) = 4 /\ p[1] = a /\ p[2] = b /\ p[3] = c /\ p[4] = d
  BY <1>1 DEF IsMust, IsTry, IsLast
<1>3. \A i \in 1..4 : i = 1 \/ i = 2 \/ i = 3 \/ i = 4
  OBVIOUS
<1>4. \A s \in Plain : s.op \in Ordinary /\ ~s.last
  BY DEF Plain
<1> HIDE DEF p
<1>5. \A i \in 1..4 : /\ ~p[i].last /\ p[i].op \notin Checks \cup Puts
                      /\ p[i].op \notin {"nft-f", "ip_forward", "write-credentials",
                                         "write-candidate"}
  BY <1>2, <1>3, <1>4 DEF IsMust, IsTry, IsLast, Ordinary, Checks, Puts
<1>6. Sane(p)
  BY <1>2, <1>5 DEF Sane
<1> QED
  BY <1>6 DEF p

LEMMA RequestParts ==
    ASSUME NEW r \in Help!Requests
    PROVE  r.verb \in {"mount-share", "write-samba-config", "write-nft-ruleset", "apply-update",
                       "set-samba-user", "unmount-share", "reload-samba",
                       "write-dnsmasq-config", "install-cert", "self-update", "os-update",
                       "service-restart", "apply-network"}
<1>1. /\ Help!Request("mount-share", "good", FALSE).verb = "mount-share"
      /\ Help!Request("reload-samba", "good", TRUE).verb = "reload-samba"
      /\ Help!Request("service-restart", "good", FALSE).verb = "service-restart"
      /\ Help!Request("self-update", "good", FALSE).verb = "self-update"
      /\ Help!Request("os-update", "good", FALSE).verb = "os-update"
      /\ [Help!Request("mount-share", "good", FALSE) EXCEPT !.sound = FALSE].verb = "mount-share"
  BY DEF Help!Request
<1> QED
  BY <1>1 DEF Help!Requests

(* What execute() makes of a request, in any state of the appliance.       *)
LEMMA ProgramsAreSane ==
    ASSUME NEW r \in Help!Requests
    PROVE  /\ Sane(Help!Program(r))
           /\ sys.account = "foreign" => Spares(Help!Program(r))
<1> USE DEF Help!Program, Help!Units
<1>0. /\ Ordinary \subseteq Ops
      /\ {"write-credentials", "write-candidate", "testparm", "rename-smb.conf", "nft-c",
          "rename-nft", "nft-f", "ip_forward", "verify-release", "link-current",
          "smbpasswd-a"} \subseteq Ops
      /\ {"mount", "umount", "detach", "back-up-smb.conf", "reload-smbd", "restart-smbd",
          "write-dnsmasq", "enable-dnsmasq", "restart-dnsmasq", "remove-dnsmasq",
          "stop-dnsmasq", "disable-dnsmasq", "write-cert", "write-key", "write-chain",
          "restart-service", "systemd-run", "systemctl", "show-device", "add-profile",
          "stop-timer", "delete-clone", "clone-profile", "modify-profile", "profile-up",
          "set-hostname", "arm-timer", "throw", "smbpasswd-x", "userdel", "useradd",
          "usermod", "smbpasswd-e", "shred-credentials", "drop-candidate"} \subseteq Ordinary
  BY DEF Ops, Checks, Puts, Ordinary
<1>1. CASE r.verb = "mount-share"
  BY <1>0, <1>1, StepParts, MountLike DEF Help!MountShare
<1>2. CASE r.verb = "write-samba-config"
  BY <1>0, <1>2, StepParts, SambaLike DEF Help!WriteSambaConfig
<1>3. CASE r.verb = "write-nft-ruleset"
  BY <1>0, <1>3, StepParts, RulesLike DEF Help!WriteNftRuleset
<1>4. CASE r.verb = "apply-update"
  BY <1>0, <1>4, StepParts, UpdateLike DEF Help!ApplyUpdate
<1>5. CASE r.verb = "set-samba-user"
  <2>1. CASE sys.account = "foreign"
    <3>1. <<Help!Throw>> \in Seq(Plain)
      BY <1>0, StepParts, Tuples DEF Help!Throw
    <3> QED
      BY <1>5, <2>1, <3>1, PlainIsSane DEF Help!SetSambaUser
  <2>2. CASE sys.account # "foreign" /\ r.flag
    <3>1. /\ <<>> \in Seq(Plain)
          /\ <<Help!Try("smbpasswd-x"), Help!Try("userdel")>> \in Seq(Plain)
      BY <1>0, StepParts, Tuples
    <3> QED
      BY <1>5, <2>2, <3>1, PlainIsSane DEF Help!SetSambaUser
  <2>3. CASE sys.account # "foreign" /\ ~r.flag
    BY <1>0, <1>5, <2>3, StepParts, UserLike DEF Help!SetSambaUser
  <2> QED
    BY <2>1, <2>2, <2>3
<1>6. CASE r.verb \in {"unmount-share", "reload-samba", "write-dnsmasq-config", "install-cert",
                       "self-update", "os-update", "service-restart"}
  <2>1. Help!Program(r) \in Seq(Plain)
    BY <1>0, <1>6, StepParts, Tuples
       DEF Help!UnmountShare, Help!ReloadSamba, Help!WriteDnsmasqConfig, Help!InstallCert,
           Help!StartUnit, Help!ServiceRestart
  <2> QED
    BY <2>1, PlainIsSane
<1>7. CASE r.verb = "apply-network"
  <2>1. \A condition, step : step \in Plain => Help!If(condition, step) \in Seq(Plain)
    BY Tuples DEF Help!If
  <2>2. /\ <<Help!Must("show-device")>> \in Seq(Plain)
        /\ <<Help!Try("stop-timer"), Help!Try("delete-clone")>> \in Seq(Plain)
        /\ <<Help!Must("modify-profile"), Help!Must("profile-up"),
             Help!Must("set-hostname")>> \in Seq(Plain)
        /\ Help!If(sys.active = None, Help!Must("add-profile")) \in Seq(Plain)
        /\ Help!If(r.flag, Help!Try("clone-profile")) \in Seq(Plain)
        /\ Help!If(r.flag, Help!Must("arm-timer")) \in Seq(Plain)
    BY <1>0, <2>1, StepParts, Tuples
  <2>3. Help!ApplyNetwork(r.flag) \in Seq(Plain)
    BY <2>2, Joined DEF Help!ApplyNetwork
  <2> QED
    BY <1>7, <2>3, PlainIsSane
<1> QED
  BY <1>1, <1>2, <1>3, <1>4, <1>5, <1>6, <1>7, RequestParts

Fields == {"creds", "mounted", "smb", "smbRuns", "smbBackup", "dnsmasq", "dhcpd", "nft",
           "nftLoaded", "mayForward", "forward", "candidate", "cert", "key", "account",
           "login", "current", "units", "profile", "active", "armed", "hostname"}

(* What a step changes of what is watched.                                 *)
LEMMA Effects ==
    ASSUME NEW op \in Ops, NEW r, DOMAIN sys = Fields,
           NEW s, s = Help!Effect(op, r)
    PROVE  /\ DOMAIN s = Fields
           /\ s.creds => sys.creds \/ op = "write-credentials"
           /\ op = "shred-credentials" => ~s.creds
           /\ s.candidate # None => sys.candidate # None \/ op = "write-candidate"
           /\ op = "drop-candidate" => s.candidate = None
           /\ "bad" \in {s.smb, s.smbRuns, s.nft, s.nftLoaded, s.current} =>
                 \/ "bad" \in {sys.smb, sys.smbRuns, sys.nft, sys.nftLoaded, sys.current}
                 \/ op \in Puts /\ r.content = "bad"
           /\ s.account = "foreign" => sys.account = "foreign"
           /\ s.login => sys.login \/ op = "smbpasswd-a"
           /\ op # "nft-f" => s.mayForward = sys.mayForward
           /\ op = "nft-f" => s.mayForward = r.flag
           /\ s.forward => sys.forward \/ (op = "ip_forward" /\ r.flag)
<1>1. CASE op \in {"write-credentials", "shred-credentials"}
  BY <1>1, ZenonT(60) DEF Help!Effect, Fields, Puts
<1>2. CASE op \in {"write-candidate", "drop-candidate"}
  BY <1>2, ZenonT(60) DEF Help!Effect, Fields, Puts
<1>3. CASE op \in {"rename-smb.conf", "reload-smbd", "restart-smbd"}
  BY <1>3, ZenonT(60) DEF Help!Effect, Fields, Puts
<1>4. CASE op \in {"rename-nft", "nft-f", "ip_forward"}
  BY <1>4, ZenonT(60) DEF Help!Effect, Fields, Puts
<1>5. CASE op = "link-current"
  BY <1>5 DEF Help!Effect, Fields, Puts
<1>6. CASE op \in {"useradd", "smbpasswd-a", "smbpasswd-x", "userdel"}
  BY <1>6, ZenonT(60) DEF Help!Effect, Fields, Puts
<1>7. CASE op \in {"mount", "umount", "detach", "back-up-smb.conf", "write-dnsmasq",
                   "remove-dnsmasq", "restart-dnsmasq", "stop-dnsmasq", "write-cert",
                   "write-key", "systemd-run"}
  BY <1>7, ZenonT(60) DEF Help!Effect, Fields, Puts
<1>8. CASE op \in {"stop-timer", "delete-clone", "add-profile", "clone-profile",
                   "modify-profile", "profile-up", "set-hostname", "arm-timer"}
  BY <1>8, ZenonT(60) DEF Help!Effect, Fields, Puts
<1>9. CASE op \in Checks \cup {"enable-dnsmasq", "disable-dnsmasq", "write-chain",
                               "restart-service", "systemctl", "show-device", "throw",
                               "usermod", "smbpasswd-e"}
  BY <1>9, ZenonT(60) DEF Help!Effect, Fields, Puts, Checks
<1> QED
  BY <1>1, <1>2, <1>3, <1>4, <1>5, <1>6, <1>7, <1>8, <1>9 DEF Ops, Ordinary, Puts

Ahead(op) == \E j \in 1..Len(program) : at <= j /\ Removes(program, j, op)

HelperTypes ==
    /\ DOMAIN sys = Fields
    /\ at \in Nat \ {0} /\ thrown \in BOOLEAN /\ killed \in BOOLEAN /\ failures \in Nat
HelperRuns ==
    Help!Running =>
        /\ request \in Help!Requests /\ Sane(program)
        /\ thrown => at > Len(program) \/ program[at].last
        /\ sys.account = "foreign" => Spares(program)
        /\ ~thrown => \A j \in 1..Len(program) : j < at =>
              /\ program[j].op \in Checks => request.content # "bad"
              /\ program[j].op = "nft-f" => sys.mayForward = request.flag
HelperCleans ==
    killed \/ failures > 0 \/
        /\ sys.creds => Help!Running /\ Ahead("shred-credentials")
        /\ sys.candidate # None => Help!Running /\ Ahead("drop-candidate")
HelperInv == /\ HelperTypes /\ HelperRuns /\ HelperCleans
             /\ Help!OnlyWhatPassed /\ Help!ForeignIsLeftAlone

LEMMA HelperInit == Help!Init => HelperInv
<1> SUFFICES ASSUME Help!Init PROVE HelperInv
  OBVIOUS
<1>1. PICK account \in Help!Accounts, forward \in BOOLEAN, active \in {"wired", None} :
        sys = [Help!FirstSys EXCEPT !.account = account, !.login = account = "ours",
                                    !.forward = forward, !.mayForward = forward,
                                    !.active = active]
  BY DEF Help!Init
<1>2. /\ DOMAIN sys = Fields /\ ~sys.creds /\ sys.candidate = None
      /\ sys.smb = "old" /\ sys.smbRuns = "old" /\ sys.nft = "old" /\ sys.nftLoaded = "old"
      /\ sys.current = "old" /\ (sys.account = "foreign" => ~sys.login)
  BY <1>1 DEF Help!FirstSys, Fields
<1> QED
  <2>0. request = NoRequest /\ at = 1 /\ thrown = FALSE /\ killed = FALSE /\ failures = 0
    BY DEF Help!Init
  <2>1. HelperTypes
    <3>1. thrown \in BOOLEAN /\ killed \in BOOLEAN
      BY <2>0
    <3>2. at \in Nat \ {0} /\ failures \in Nat
      BY <2>0
    <3> QED
      BY <1>2, <3>1, <3>2 DEF HelperTypes
  <2>3. HelperRuns
    BY <2>0 DEF HelperRuns, Help!Running
  <2>2. HelperCleans /\ Help!OnlyWhatPassed /\ Help!ForeignIsLeftAlone
    BY <1>2 DEF HelperCleans, Help!OnlyWhatPassed, Help!ForeignIsLeftAlone
  <2> QED
    BY <2>1, <2>2, <2>3 DEF HelperInv

(* A step that succeeds does to what is watched what its name says.        *)
LEMMA StepEffects ==
    ASSUME HelperInv, Help!StepSucceeds, NEW op, op = program[at].op
    PROVE  /\ at \in 1..Len(program) /\ program[at] \in Steps
           /\ DOMAIN sys' = Fields
           /\ sys'.creds => sys.creds \/ op = "write-credentials"
           /\ op = "shred-credentials" => ~sys'.creds
           /\ sys'.candidate # None => sys.candidate # None \/ op = "write-candidate"
           /\ op = "drop-candidate" => sys'.candidate = None
           /\ "bad" \in {sys'.smb, sys'.smbRuns, sys'.nft, sys'.nftLoaded, sys'.current} =>
                 \/ "bad" \in {sys.smb, sys.smbRuns, sys.nft, sys.nftLoaded, sys.current}
                 \/ op \in Puts /\ request.content = "bad"
           /\ sys'.account = "foreign" => sys.account = "foreign"
           /\ sys'.login => sys.login \/ op = "smbpasswd-a"
           /\ op # "nft-f" => sys'.mayForward = sys.mayForward
           /\ op = "nft-f" => sys'.mayForward = request.flag
           /\ sys'.forward => sys.forward \/ (op = "ip_forward" /\ request.flag)
<1>1. /\ at \in Nat \ {0} /\ DOMAIN sys = Fields /\ program \in Seq(Steps)
      /\ ~(at > Len(program))
  BY DEF HelperInv, HelperTypes, HelperRuns, Help!StepSucceeds, Help!Over, Sane
<1>2. at \in 1..Len(program)
  BY <1>1
<1>3. program[at] \in Steps /\ op \in Ops
  <2>1. program[at] \in Steps
    BY <1>1, <1>2
  <2> QED
    BY <2>1 DEF Steps
<1>4. CASE Help!Skipped(op)
  <2>1. sys' = sys /\ op = "detach"
    BY <1>4 DEF Help!StepSucceeds, Help!Skipped, Help!Step
  <2> QED
    BY <1>1, <1>2, <1>3, <2>1
<1>5. CASE ~Help!Skipped(op)
  <2>1. sys' = Help!Effect(op, request)
    BY <1>5 DEF Help!StepSucceeds, Help!Step
  <2> QED
    BY <1>1, <1>2, <1>3, <2>1, Effects
<1> QED
  BY <1>4, <1>5

LEMMA HelperSucceeds == HelperInv /\ Help!StepSucceeds => HelperInv'
<1> SUFFICES ASSUME HelperInv, Help!StepSucceeds PROVE HelperInv'
  OBVIOUS
<1> DEFINE n == Len(program)
           op == program[at].op
<1>1. /\ at \in 1..n /\ program[at] \in Steps /\ n \in Nat
      /\ request \in Help!Requests /\ Sane(program) /\ request # NoRequest
      /\ UNCHANGED <<request, program, thrown, killed, failures>>
      /\ at' = IF thrown THEN n + 1 ELSE at + 1
      /\ Help!Accepts(op, request)
      /\ thrown \in BOOLEAN /\ killed \in BOOLEAN /\ failures \in Nat
  <2>1. at \in 1..n /\ program[at] \in Steps
    BY StepEffects
  <2>2. /\ request # NoRequest /\ UNCHANGED <<request, program, thrown, killed, failures>>
        /\ at' = IF thrown THEN n + 1 ELSE at + 1
        /\ Help!Accepts(op, request)
    BY DEF Help!StepSucceeds, Help!Running, Help!Step
  <2>3. request \in Help!Requests /\ Sane(program)
    BY <2>2 DEF HelperInv, HelperRuns, Help!Running
  <2>4. n \in Nat
    BY <2>3 DEF Sane
  <2>5. thrown \in BOOLEAN /\ killed \in BOOLEAN /\ failures \in Nat
    BY DEF HelperInv, HelperTypes
  <2> QED
    BY <2>1, <2>2, <2>3, <2>4, <2>5
<1>2. thrown => program[at].last
  BY <1>1 DEF HelperInv, HelperRuns, Help!Running
<1>3. op \in Puts => ~thrown /\ request.content # "bad"
  BY <1>1, <1>2 DEF Sane, HelperInv, HelperRuns, Help!Running
<1>4. op \in Checks => request.content # "bad"
  BY <1>1 DEF Help!Accepts, Checks
<1>5. HelperTypes'
  BY <1>1, StepEffects DEF HelperTypes
<1>6. HelperRuns'
  <2>1. thrown' => at' > Len(program')
    BY <1>1
  <2>2. sys'.account = "foreign" => Spares(program')
    BY <1>1, StepEffects DEF HelperInv, HelperRuns, Help!Running
  <2>3. ASSUME ~thrown', NEW j \in 1..n, j < at'
        PROVE  /\ program[j].op \in Checks => request.content # "bad"
               /\ program[j].op = "nft-f" => sys'.mayForward = request.flag
    <3>1. j < at \/ j = at
      BY <1>1, <2>3
    <3>2. CASE j = at
      BY <1>4, <3>2, StepEffects
    <3>3. CASE j < at
      <4>1. /\ program[j].op \in Checks => request.content # "bad"
            /\ program[j].op = "nft-f" => sys.mayForward = request.flag
        BY <1>1, <2>3, <3>3 DEF HelperInv, HelperRuns, Help!Running
      <4>2. sys'.mayForward = sys.mayForward \/ sys'.mayForward = request.flag
        BY StepEffects
      <4> QED
        BY <4>1, <4>2
    <3> QED
      BY <3>1, <3>2, <3>3
  <2> QED
    BY <1>1, <2>1, <2>2, <2>3 DEF HelperRuns, Help!Running
<1>7. HelperCleans'
  <2>1. \A j \in 1..n : program[j].last /\ thrown => j = at
    BY <1>1, <1>2 DEF Sane
  <2>2. ASSUME ~killed, ~(failures > 0), sys'.creds PROVE Ahead("shred-credentials")'
    <3>1. op # "shred-credentials" /\ (sys.creds \/ op = "write-credentials")
      BY <2>2, StepEffects
    <3>2. \E j \in 1..n : at <= j /\ Removes(program, j, "shred-credentials")
      BY <1>1, <2>2, <3>1 DEF HelperInv, HelperCleans, Ahead, Sane
    <3>3. PICK j \in 1..n : at <= j /\ Removes(program, j, "shred-credentials")
      BY <3>2
    <3>4. j # at /\ ~thrown
      BY <2>1, <3>1, <3>3 DEF Removes
    <3> QED
      BY <1>1, <3>3, <3>4 DEF Ahead, Removes
  <2>3. ASSUME ~killed, ~(failures > 0), sys'.candidate # None PROVE Ahead("drop-candidate")'
    <3>1. op # "drop-candidate" /\ (sys.candidate # None \/ op = "write-candidate")
      BY <2>3, StepEffects
    <3>2. \E j \in 1..n : at <= j /\ Removes(program, j, "drop-candidate")
      BY <1>1, <2>3, <3>1 DEF HelperInv, HelperCleans, Ahead, Sane
    <3>3. PICK j \in 1..n : at <= j /\ Removes(program, j, "drop-candidate")
      BY <3>2
    <3>4. j # at /\ ~thrown
      BY <2>1, <3>1, <3>3 DEF Removes
    <3> QED
      BY <1>1, <3>3, <3>4 DEF Ahead, Removes
  <2> QED
    BY <1>1, <2>2, <2>3 DEF HelperCleans, Help!Running
<1>8. Help!OnlyWhatPassed'
  BY <1>3, StepEffects DEF HelperInv, Help!OnlyWhatPassed
<1>9. Help!ForeignIsLeftAlone'
  BY <1>1, StepEffects DEF HelperInv, HelperRuns, Help!Running, Spares, Help!ForeignIsLeftAlone
<1> QED
  BY <1>5, <1>6, <1>7, <1>8, <1>9 DEF HelperInv

LEMMA HelperFails == HelperInv /\ Help!StepFails => HelperInv'
<1> SUFFICES ASSUME HelperInv, Help!StepFails PROVE HelperInv'
  OBVIOUS
<1> DEFINE n == Len(program)
           op == program[at].op
           ahead == {i \in at + 1..n : program[i].last}
<1>1. /\ n \in Nat /\ at \in 1..n
      /\ Sane(program) /\ request \in Help!Requests /\ request # NoRequest
      /\ UNCHANGED <<sys, request, program, killed>>
      /\ thrown \in BOOLEAN /\ killed \in BOOLEAN /\ failures \in Nat
  BY DEF HelperInv, HelperTypes, HelperRuns, Help!StepFails, Help!Running, Help!Over, Sane
<1>2. thrown => program[at].last
  BY <1>1 DEF HelperInv, HelperRuns, Help!Running
<1>3. /\ failures' \in Nat /\ failures' >= failures
      /\ Help!Accepts(op, request) => failures' > 0
  BY <1>1 DEF Help!StepFails, Help!Step
<1>4. \/ program[at].tolerant /\ at' = at + 1 /\ thrown' = thrown
      \/ ~program[at].tolerant /\ at' = Help!WayOut /\ thrown' = TRUE
  BY DEF Help!StepFails, Help!Step
<1>5. \/ Help!WayOut = n + 1 /\ (thrown \/ ahead = {})
      \/ Help!WayOut \in ahead /\ ~thrown
  <2>1. CASE thrown \/ ahead = {}
    BY <2>1 DEF Help!WayOut
  <2>2. CASE ~thrown /\ ahead # {}
    <3>1. PICK i \in ahead : TRUE
      BY <2>2
    <3>2. \A j \in ahead : i = j
      BY <1>1, <3>1 DEF Sane
    <3>3. \E k \in ahead : \A j \in ahead : k <= j
      BY <1>1, <3>1, <3>2
    <3>4. Help!WayOut = CHOOSE k \in ahead : \A j \in ahead : k <= j
      BY <2>2 DEF Help!WayOut
    <3> QED
      BY <2>2, <3>3, <3>4
  <2> QED
    BY <2>1, <2>2
<1>6. HelperTypes'
  <2>1. thrown' \in BOOLEAN /\ killed' \in BOOLEAN
    BY <1>1, <1>4
  <2>2. at' \in Nat \ {0}
    BY <1>1, <1>4, <1>5
  <2> QED
    BY <1>1, <1>3, <2>1, <2>2 DEF HelperInv, HelperTypes
<1>7. HelperRuns'
  <2>1. thrown' => at' > n \/ program[at'].last
    <3>1. ~(program[at].tolerant /\ thrown)
      BY <1>1, <1>2 DEF Sane
    <3>2. thrown' => at' = Help!WayOut
      BY <1>4, <3>1
    <3>3. Help!WayOut > n \/ program[Help!WayOut].last
      BY <1>1, <1>5
    <3> QED
      BY <3>2, <3>3
  <2>2. ASSUME ~thrown', NEW j \in 1..n, j < at'
        PROVE  /\ program[j].op \in Checks => request.content # "bad"
               /\ program[j].op = "nft-f" => sys.mayForward = request.flag
    <3>1. ~thrown /\ program[at].tolerant /\ (j < at \/ j = at)
      BY <1>1, <1>4, <2>2
    <3>2. CASE j = at
      BY <1>1, <3>1, <3>2 DEF Sane
    <3>3. CASE j < at
      BY <1>1, <3>1, <3>3 DEF HelperInv, HelperRuns, Help!Running
    <3> QED
      BY <3>1, <3>2, <3>3
  <2>3. sys.account = "foreign" => Spares(program)
    BY <1>1 DEF HelperInv, HelperRuns, Help!Running
  <2> QED
    BY <1>1, <2>1, <2>2, <2>3 DEF HelperRuns, Help!Running
<1>8. ASSUME NEW x \in {"shred-credentials", "drop-candidate"}, Ahead(x), ~(failures' > 0)
      PROVE  Ahead(x)'
  <2>1. PICK j \in 1..n : at <= j /\ program[j].op = x /\ program[j].last
    BY <1>8 DEF Ahead, Removes
  <2>2. j # at
    <3>1. Help!Accepts(x, request)
      BY <1>8 DEF Help!Accepts
    <3> QED
      BY <1>3, <1>8, <2>1, <3>1
  <2>3. ~thrown /\ j \in ahead
    BY <1>1, <1>2, <2>1, <2>2 DEF Sane
  <2>4. at' <= j
    BY <1>1, <1>4, <1>5, <2>1, <2>2, <2>3, SMTT(40) DEF Sane
  <2> QED
    BY <1>1, <2>1, <2>4 DEF Ahead, Removes
<1>9. HelperCleans'
  BY <1>1, <1>3, <1>8 DEF HelperInv, HelperCleans, Help!Running
<1>10. Help!OnlyWhatPassed' /\ Help!ForeignIsLeftAlone'
  BY <1>1 DEF HelperInv, Help!OnlyWhatPassed, Help!ForeignIsLeftAlone
<1> QED
  BY <1>6, <1>7, <1>9, <1>10 DEF HelperInv

LEMMA HelperNext == HelperInv /\ [Help!Next]_(Help!vars) => HelperInv'
<1> SUFFICES ASSUME HelperInv, [Help!Next]_(Help!vars) PROVE HelperInv'
  OBVIOUS
<1> USE DEF HelperInv, HelperTypes, HelperRuns, HelperCleans, Help!OnlyWhatPassed,
            Help!ForeignIsLeftAlone, Help!Running
<1>1. CASE UNCHANGED Help!vars
  BY <1>1 DEF Help!vars, Ahead
<1>2. ASSUME NEW r \in Help!Requests, Help!Invoke(r) PROVE HelperInv'
  <2>1. /\ request = NoRequest /\ at' = 1 /\ thrown' = FALSE
        /\ UNCHANGED <<sys, killed, failures>>
        /\ \/ request' = r /\ program' = Help!Program(r)
           \/ request' = request
    BY <1>2 DEF Help!Invoke
  <2>2. HelperRuns'
    <3>1. CASE request' = request
      BY <2>1, <3>1
    <3>2. CASE request' = r /\ program' = Help!Program(r)
      <4>1. Sane(program') /\ (sys'.account = "foreign" => Spares(program'))
        BY <2>1, <3>2, ProgramsAreSane
      <4> QED
        BY <2>1, <3>2, <4>1 DEF Sane
    <3> QED
      BY <2>1, <3>1, <3>2
  <2> QED
    <3>1. HelperTypes'
      <4>1. thrown' \in BOOLEAN /\ killed' \in BOOLEAN
        BY <2>1
      <4> QED
        BY <2>1, <4>1
    <3>2. HelperCleans' /\ Help!OnlyWhatPassed' /\ Help!ForeignIsLeftAlone'
      BY <2>1
    <3> QED
      BY <2>2, <3>1, <3>2
<1>3. CASE Help!Answer \/ Help!Kill
  <2>1. /\ request' = NoRequest /\ at' = 1 /\ thrown' = FALSE /\ UNCHANGED <<sys, failures>>
        /\ request # NoRequest
        /\ \/ killed' = TRUE
           \/ killed' = killed /\ at > Len(program)
    BY <1>3 DEF Help!Answer, Help!Over, Help!Kill
  <2>2. HelperTypes'
    <3>1. thrown' \in BOOLEAN /\ killed' \in BOOLEAN
      BY <2>1
    <3> QED
      BY <2>1, <3>1
  <2>3. HelperRuns'
    BY <2>1
  <2>4. HelperCleans'
    <3>1. CASE killed' = TRUE
      BY <3>1
    <3>2. CASE killed' = killed /\ at > Len(program)
      <4>1. \A op : ~Ahead(op)
        <5>1. Len(program) \in Nat /\ at \in Nat
          BY <2>1 DEF Sane
        <5> QED
          BY <3>2, <5>1 DEF Ahead
      <4> QED
        BY <2>1, <3>2, <4>1
    <3> QED
      BY <2>1, <3>1, <3>2
  <2> QED
    BY <2>1, <2>2, <2>3, <2>4
<1>4. CASE Help!TimerFires \/ Help!UnitEnds
  <2>1. /\ UNCHANGED <<request, program, at, thrown, killed, failures>>
        /\ DOMAIN sys' = Fields /\ sys'.creds = sys.creds /\ sys'.candidate = sys.candidate
        /\ sys'.smb = sys.smb /\ sys'.smbRuns = sys.smbRuns /\ sys'.nft = sys.nft
        /\ sys'.nftLoaded = sys.nftLoaded /\ sys'.current = sys.current
        /\ sys'.account = sys.account /\ sys'.login = sys.login
        /\ sys'.mayForward = sys.mayForward
    BY <1>4, ZenonT(60) DEF Help!TimerFires, Help!UnitEnds, Fields
  <2> QED
    BY <2>1 DEF Ahead
<1> QED
  BY <1>1, <1>2, <1>3, <1>4, HelperSucceeds, HelperFails DEF Help!Next

(* Whichever step of a request fails, and whenever the helper dies: what   *)
(* smbd, the firewall and the release link hold was checked; no secret and *)
(* no candidate outlives a request that came back (unless a step failed);  *)
(* and an account the bridge did not make never gets a password.           *)
THEOREM HelperHolds == Help!Spec => []Help!HelperIsCareful
<1>1. HelperInv => Help!HelperIsCareful
  BY DEF HelperInv, HelperTypes, HelperCleans, Help!HelperIsCareful, Help!NothingLeftBehind,
         Help!Running
<1> QED
  BY <1>1, HelperInit, HelperNext, PTL DEF Help!Spec

(* Routing is switched on only under rules that were written for it: the   *)
(* switch comes after the rules are loaded, in the same request.           *)
THEOREM RoutesFollowRules == Help!Spec => Help!RulesBeforeRoutes
<1>1. ASSUME HelperInv, [Help!Next]_(Help!vars), ~sys.forward, sys'.forward
      PROVE  sys.mayForward
  <2>1. CASE Help!StepSucceeds
    <3>1. at \in 1..Len(program) /\ program[at].op = "ip_forward" /\ request.flag
      BY <1>1, <2>1, StepEffects
    <3>2. Help!Running /\ Sane(program) /\ at <= Len(program)
      BY <1>1, <2>1, <3>1 DEF HelperInv, HelperRuns, Help!StepSucceeds
    <3>3. ~thrown /\ \E j \in 1..Len(program) : j < at /\ program[j].op = "nft-f"
      BY <1>1, <3>1, <3>2 DEF Sane, HelperInv, HelperTypes, HelperRuns
    <3>4. sys.mayForward = request.flag
      BY <1>1, <3>2, <3>3 DEF HelperInv, HelperRuns
    <3> QED
      BY <3>1, <3>4
  <2>2. CASE Help!TimerFires \/ Help!UnitEnds
    BY <1>1, <2>2 DEF Help!TimerFires, Help!UnitEnds, HelperInv, HelperTypes, Fields
  <2>3. CASE ~Help!StepSucceeds /\ ~(Help!TimerFires \/ Help!UnitEnds)
    <3>1. sys' = sys
      BY <1>1, <2>3 DEF Help!Next, Help!Invoke, Help!StepFails, Help!Answer, Help!Kill,
                        Help!vars
    <3> QED
      BY <1>1, <3>1
  <2> QED
    BY <2>1, <2>2, <2>3
<1>2. HelperInv /\ [Help!Next]_(Help!vars) =>
         [(~sys.forward /\ sys'.forward) => sys.mayForward]_(Help!vars)
  BY <1>1
<1> QED
  BY <1>2, HelperInit, HelperNext, PTL DEF Help!Spec, Help!RulesBeforeRoutes

-----------------------------------------------------------------------------
(* The schedules.  A timer that is not due stands at the next occurrence   *)
(* of its row; what is caught up was overdue and is no longer missed; and  *)
(* the managed row is there as soon as the updates section says when.      *)

Timed(id) ==
    /\ fires[id] # None <=> Sch!Programmed(rows[id])
    /\ fires[id] # None /\ clock < fires[id] =>
          /\ fires[id] = Sch!Occurrence(rows[id].cron)
          /\ runs[id] = 0 /\ catching # id => rows[id].next = fires[id]
Owned == Sch!Started /\ when.cron # Sch!Never =>
            /\ Sch!Exists(Managed)
            /\ rows[Managed].cron = when.cron /\ rows[Managed].enabled = when.enabled
Caught == /\ \A id \in ScheduleIds : caught[id] <= (IF id \in due /\ id \notin missed THEN 1 ELSE 0)
          /\ Sch!Started /\ edits = 0 => \A id \in due :
                Sch!Exists(id) /\ (id \in missed \/ caught[id] = 1 \/ Sch!Jobs[rows[id].kind] = None)
          /\ missed \subseteq due /\ (phase = "up" => missed = {})
ScheduleTypes ==
    /\ rows \in [ScheduleIds -> Sch!Rows \cup {NoRow}]
    /\ when \in [cron : Sch!Crons \cup {Sch!Never}, enabled : BOOLEAN]
    /\ fires \in [ScheduleIds -> Nat \cup {None}] /\ runs \in [ScheduleIds -> Nat] /\ caught \in [ScheduleIds -> Nat]
    /\ missed \subseteq ScheduleIds /\ due \subseteq ScheduleIds /\ catching \in ScheduleIds \cup {None}
    /\ clock \in Nat /\ edits \in Nat
ScheduleInv == ScheduleTypes /\ (\A id \in ScheduleIds : Timed(id)) /\ Owned /\ Caught

LEMMA Multiples ==
    ASSUME NEW c \in Nat, NEW k \in {2, 3}, NEW f, f = (c \div k + 1) * k
    PROVE  f \in Nat /\ f > c /\ (c + 1 < f => ((c + 1) \div k + 1) * k = f)
<1>1. CASE k = 2
  BY <1>1
<1>2. CASE k = 3
  BY <1>2
<1> QED
  BY <1>1, <1>2

LEMMA Occurs ==
    ASSUME NEW cron \in Sch!Crons, clock \in Nat
    PROVE  /\ Sch!Occurrence(cron) \in Nat /\ Sch!Occurrence(cron) > clock
           /\ clock' = clock + 1 /\ clock' < Sch!Occurrence(cron) =>
                 Sch!Occurrence(cron)' = Sch!Occurrence(cron)
<1> DEFINE c == clock
           f == (c \div cron + 1) * cron
<1>1. f \in Nat /\ f > c /\ (c + 1 < f => ((c + 1) \div cron + 1) * cron = f)
  BY Multiples DEF Sch!Crons
<1>2. Sch!Occurrence(cron) = f
  BY DEF Sch!Occurrence
<1>3. ASSUME clock' = c + 1, clock' < f PROVE Sch!Occurrence(cron)' = f
  BY <1>1, <1>3 DEF Sch!Occurrence
<1> QED
  BY <1>1, <1>2, <1>3

LEMMA RowParts ==
    ASSUME NEW entry \in Sch!Rows
    PROVE  /\ entry.cron \in Sch!Crons /\ entry.enabled \in BOOLEAN /\ entry.kind \in Sch!Kinds
           /\ \A n \in Nat : /\ [entry EXCEPT !.next = n] \in Sch!Rows
                             /\ [entry EXCEPT !.next = n].next = n
                             /\ [entry EXCEPT !.next = n].cron = entry.cron
                             /\ [entry EXCEPT !.next = n].enabled = entry.enabled
                             /\ [entry EXCEPT !.next = n].kind = entry.kind
BY DEF Sch!Rows

LEMMA ScheduleInit ==
    ASSUME Sch!SettingIsSound PROVE Sch!Init => ScheduleInv
<1> SUFFICES ASSUME Sch!Init PROVE ScheduleInv
  OBVIOUS
<1>1. ScheduleTypes
  <2>0. PICK kind \in Sch!Kinds, cron \in Sch!Crons :
          \E entry \in {NoRow, Sch!Row(kind, cron, TRUE, cron)} :
             rows = [id \in ScheduleIds |-> IF id = Managed THEN NoRow ELSE entry]
    BY DEF Sch!Init
  <2>1. PICK entry \in {NoRow, Sch!Row(kind, cron, TRUE, cron)} :
          rows = [id \in ScheduleIds |-> IF id = Managed THEN NoRow ELSE entry]
    BY <2>0
  <2>2. entry \in Sch!Rows \cup {NoRow}
    <3>1. Sch!Row(kind, cron, TRUE, cron) \in Sch!Rows
      BY DEF Sch!Rows, Sch!Row, Sch!Crons
    <3> QED
      BY <2>1, <3>1
  <2>3. when \in [cron : Sch!Crons \cup {Sch!Never}, enabled : BOOLEAN]
    BY DEF Sch!Init, Sch!Crons
  <2> QED
    BY <2>1, <2>2, <2>3 DEF Sch!Init, ScheduleTypes, Sch!SettingIsSound
<1>2. ~Sch!Started /\ phase = "down" /\ missed = {} /\ due = {} /\ \A id \in ScheduleIds : fires[id] = None /\ caught[id] = 0
  BY DEF Sch!Init, Sch!Started
<1> QED
  BY <1>1, <1>2 DEF ScheduleInv, Timed, Owned, Caught, Sch!Programmed

(* A result that is recorded changes no row in what the timers ask of it.  *)
LEMMA Recording ==
    ASSUME Sch!SettingIsSound, ScheduleInv, UNCHANGED <<fires, clock>>,
           NEW id \in ScheduleIds, NEW result \in {"ok", "error", "skipped"}, Sch!Recorded(id, result)
    PROVE  /\ rows' \in [ScheduleIds -> Sch!Rows \cup {NoRow}]
           /\ \A x \in ScheduleIds : /\ Sch!Exists(x)' <=> Sch!Exists(x)
                                     /\ Sch!Exists(x) => /\ rows'[x].cron = rows[x].cron
                                                         /\ rows'[x].enabled = rows[x].enabled
                                                         /\ rows'[x].kind = rows[x].kind
                                     /\ x # id => rows'[x] = rows[x]
           /\ fires[id] # None => rows'[id].next = Sch!Occurrence(rows[id].cron)
<1>1. CASE rows[id] = NoRow
  <2>1. rows' = rows
    BY <1>1 DEF Sch!Recorded, ScheduleInv, ScheduleTypes
  <2>2. fires[id] = None
    BY <1>1 DEF ScheduleInv, Timed, Sch!Programmed
  <2> QED
    BY <2>1, <2>2 DEF ScheduleInv, ScheduleTypes, Sch!Exists
<1>2. CASE rows[id] # NoRow
  <2> DEFINE next == IF fires[id] = None THEN rows[id].next ELSE Sch!Occurrence(rows[id].cron)
             entry == [rows[id] EXCEPT !.last = result, !.next = next]
  <2>1. rows[id] \in Sch!Rows /\ rows \in [ScheduleIds -> Sch!Rows \cup {NoRow}] /\ clock \in Nat
    BY <1>2 DEF ScheduleInv, ScheduleTypes
  <2>2. next \in Nat
    BY <2>1, Occurs, RowParts DEF Sch!Rows
  <2> HIDE DEF next
  <2>3. /\ entry \in Sch!Rows /\ entry.next = next /\ entry.cron = rows[id].cron
        /\ entry.enabled = rows[id].enabled /\ entry.kind = rows[id].kind
    BY <2>1, <2>2 DEF Sch!Rows
  <2>4. rows' = [rows EXCEPT ![id] = entry]
    <3>1. rows' = [rows EXCEPT ![id] = IF rows[id] = NoRow THEN NoRow ELSE entry]
      BY DEF Sch!Recorded, next
    <3> QED
      BY <1>2, <3>1
  <2>5. entry # NoRow
    BY <2>3 DEF Sch!SettingIsSound
  <2> HIDE DEF entry
  <2> QED
    BY <1>2, <2>1, <2>3, <2>4, <2>5 DEF Sch!Exists, next
<1> QED
  BY <1>1, <1>2

LEMMA Programming ==
    ASSUME Sch!SettingIsSound, ScheduleInv, UNCHANGED <<phase, clock, runs, catching>>,
           NEW id \in ScheduleIds, NEW entry \in Sch!Rows, Sch!Program(id, entry)
    PROVE  /\ rows' \in [ScheduleIds -> Sch!Rows \cup {NoRow}] /\ fires' \in [ScheduleIds -> Nat \cup {None}]
           /\ \A x \in ScheduleIds : Timed(x)' /\ (x # id => rows'[x] = rows[x])
           /\ Sch!Exists(id)'
           /\ rows'[id].cron = entry.cron /\ rows'[id].enabled = entry.enabled
<1> DEFINE next == Sch!Occurrence(entry.cron)
           noted == IF Sch!Programmed(entry) THEN [entry EXCEPT !.next = next] ELSE entry
           timer == IF Sch!Programmed(entry) THEN next ELSE None
<1>1. /\ rows \in [ScheduleIds -> Sch!Rows \cup {NoRow}] /\ fires \in [ScheduleIds -> Nat \cup {None}]
      /\ clock \in Nat
  BY DEF ScheduleInv, ScheduleTypes
<1>2. entry.cron \in Sch!Crons /\ next \in Nat /\ next # None /\ entry # NoRow
  BY <1>1, RowParts, Occurs DEF Sch!SettingIsSound
<1> HIDE DEF next
<1>3. /\ noted \in Sch!Rows /\ noted # NoRow /\ noted.cron = entry.cron /\ noted.enabled = entry.enabled
      /\ Sch!Programmed(entry) => noted.next = next
  BY <1>2, RowParts DEF Sch!SettingIsSound
<1>4. rows' = [rows EXCEPT ![id] = noted] /\ fires' = [fires EXCEPT ![id] = timer]
  BY DEF Sch!Program, next
<1> HIDE DEF noted
<1>5. /\ rows' \in [ScheduleIds -> Sch!Rows \cup {NoRow}] /\ fires' \in [ScheduleIds -> Nat \cup {None}]
      /\ rows'[id] = noted /\ fires'[id] = timer
      /\ \A x \in ScheduleIds : x # id => rows'[x] = rows[x] /\ fires'[x] = fires[x]
  BY <1>1, <1>2, <1>3, <1>4
<1>6. Timed(id)'
  <2>1. Sch!Occurrence(rows[id].cron)' = next
    BY <1>3, <1>5 DEF next, Sch!Occurrence
  <2>2. Sch!Programmed(rows[id])' <=> Sch!Programmed(entry)
    BY <1>2, <1>3, <1>5 DEF Sch!Programmed, Sch!Started
  <2> QED
    BY <1>2, <1>3, <1>5, <2>1, <2>2 DEF Timed
<1>7. ASSUME NEW x \in ScheduleIds, x # id PROVE Timed(x)'
  <2>1. Timed(x)
    BY DEF ScheduleInv
  <2> QED
    BY <1>5, <1>7, <2>1 DEF Timed, Sch!Programmed, Sch!Started, Sch!Occurrence
<1> QED
  BY <1>3, <1>5, <1>6, <1>7 DEF Sch!Exists

(* What is written by hand, of a row or of the updates section.            *)
LEMMA ScheduleEdited ==
    ASSUME Sch!SettingIsSound, ScheduleInv, Sch!Edited,
           UNCHANGED <<phase, runs, missed, catching, clock, due, caught>>
    PROVE  /\ edits' \in Nat /\ Caught'
           /\ /\ rows' \in [ScheduleIds -> Sch!Rows \cup {NoRow}] /\ fires' \in [ScheduleIds -> Nat \cup {None}]
              /\ when' \in [cron : Sch!Crons \cup {Sch!Never}, enabled : BOOLEAN]
              => ScheduleTypes'
<1>1. edits \in Nat /\ edits' = edits + 1
  BY DEF ScheduleInv, ScheduleTypes, Sch!Edited
<1>2. edits' \in Nat /\ edits' # 0
  BY <1>1
<1>3. Caught'
  BY <1>2 DEF ScheduleInv, Caught
<1> QED
  BY <1>2, <1>3 DEF ScheduleInv, ScheduleTypes

LEMMA ScheduleWritten ==
    ASSUME Sch!SettingIsSound, ScheduleInv, NEW id \in ScheduleIds, NEW cron \in Sch!Crons \cup {Sch!Never},
           NEW on \in BOOLEAN,
           \/ \E kind \in Sch!Kinds : Sch!Create(id, kind, cron, on)
           \/ Sch!Update(id, cron, on) \/ Sch!Delete(id)
    PROVE  ScheduleInv'
<1>1. /\ Sch!Edited /\ id # Managed
      /\ UNCHANGED <<when, phase, runs, missed, catching, clock, due, caught>>
  BY DEF Sch!Create, Sch!Update, Sch!Delete
<1>2. /\ rows \in [ScheduleIds -> Sch!Rows \cup {NoRow}] /\ fires \in [ScheduleIds -> Nat \cup {None}]
      /\ clock \in Nat /\ when \in [cron : Sch!Crons \cup {Sch!Never}, enabled : BOOLEAN]
      /\ Managed \in ScheduleIds
  BY DEF ScheduleInv, ScheduleTypes, Sch!SettingIsSound
<1>3. /\ rows' \in [ScheduleIds -> Sch!Rows \cup {NoRow}] /\ fires' \in [ScheduleIds -> Nat \cup {None}]
      /\ \A x \in ScheduleIds : Timed(x)' /\ (x # id => rows'[x] = rows[x])
  <2>1. CASE Sch!Delete(id)
    <3>1. rows' = [rows EXCEPT ![id] = NoRow] /\ fires' = [fires EXCEPT ![id] = None]
      BY <2>1 DEF Sch!Delete
    <3>2. \A x \in ScheduleIds : /\ x # id => rows'[x] = rows[x] /\ fires'[x] = fires[x]
                                 /\ x = id => rows'[x] = NoRow /\ fires'[x] = None
      BY <1>2, <3>1
    <3>3. \A x \in ScheduleIds : Timed(x)'
      BY <1>1, <3>2 DEF ScheduleInv, Timed, Sch!Programmed, Sch!Started, Sch!Occurrence
    <3> QED
      BY <1>2, <3>1, <3>2, <3>3
  <2>2. CASE cron \in Sch!Crons /\ \E entry \in Sch!Rows : Sch!Program(id, entry)
    BY <1>1, <2>2, Programming
  <2>3. ASSUME NEW kind \in Sch!Kinds, Sch!Create(id, kind, cron, on)
        PROVE  cron \in Sch!Crons /\ \E entry \in Sch!Rows : Sch!Program(id, entry)
    <3>1. cron \in Sch!Crons /\ Sch!Program(id, Sch!Row(kind, cron, on, Sch!Occurrence(cron)))
      BY <2>3 DEF Sch!Create, Sch!CreateRow
    <3>2. Sch!Row(kind, cron, on, Sch!Occurrence(cron)) \in Sch!Rows
      BY <1>2, <3>1, Occurs DEF Sch!Row, Sch!Rows
    <3> QED
      BY <3>1, <3>2
  <2>4. CASE Sch!Update(id, cron, on)
    <3>1. cron \in Sch!Crons /\ rows[id] \in Sch!Rows
      BY <1>2, <2>4 DEF Sch!Update, Sch!UpdateRow, Sch!Exists
    <3> DEFINE entry == [rows[id] EXCEPT !.cron = cron, !.enabled = on,
                                       !.next = Sch!Occurrence(cron)]
    <3>2. entry \in Sch!Rows
      BY <1>2, <3>1, Occurs DEF Sch!Rows
    <3>3. Sch!Program(id, entry)
      BY <2>4 DEF Sch!Update, Sch!UpdateRow
    <3> QED
      BY <2>2, <3>1, <3>2, <3>3
  <2> QED
    BY <2>1, <2>2, <2>3, <2>4
<1>4. Owned'
  BY <1>1, <1>2, <1>3 DEF ScheduleInv, Owned, Sch!Started, Sch!Exists
<1> QED
  BY <1>1, <1>2, <1>3, <1>4, ScheduleEdited DEF ScheduleInv

LEMMA ScheduleSaved ==
    ASSUME Sch!SettingIsSound, ScheduleInv, NEW cron \in Sch!Crons \cup {Sch!Never},
           NEW on \in BOOLEAN, Sch!SaveUpdates(cron, on)
    PROVE  ScheduleInv'
<1>1. /\ Sch!Edited /\ when' = [cron |-> cron, enabled |-> on]
      /\ when'.cron = cron /\ when'.enabled = on
      /\ when' \in [cron : Sch!Crons \cup {Sch!Never}, enabled : BOOLEAN]
      /\ UNCHANGED <<phase, runs, missed, catching, clock, due, caught>>
  BY DEF Sch!SaveUpdates
<1>2. /\ rows \in [ScheduleIds -> Sch!Rows \cup {NoRow}] /\ fires \in [ScheduleIds -> Nat \cup {None}]
      /\ clock \in Nat /\ Managed \in ScheduleIds /\ Sch!Ensure(when')
  BY DEF ScheduleInv, ScheduleTypes, Sch!SettingIsSound, Sch!SaveUpdates
<1>3. CASE \/ cron = Sch!Never
           \/ Sch!Exists(Managed) /\ rows[Managed].cron = cron /\ rows[Managed].enabled = on
  <2>0. UNCHANGED <<rows, fires>>
    BY <1>1, <1>2, <1>3 DEF Sch!Ensure
  <2>1. \A x \in ScheduleIds : Timed(x)'
    BY <1>1, <2>0 DEF ScheduleInv, Timed, Sch!Programmed, Sch!Started, Sch!Occurrence
  <2>2. Owned'
    BY <1>1, <1>3, <2>0 DEF Owned, Sch!Exists
  <2> QED
    BY <1>1, <1>2, <2>0, <2>1, <2>2, ScheduleEdited DEF ScheduleInv
<1>4. ASSUME NEW entry \in Sch!Rows, Sch!Program(Managed, entry), entry.cron = cron, entry.enabled = on
      PROVE  ScheduleInv'
  <2>1. /\ rows' \in [ScheduleIds -> Sch!Rows \cup {NoRow}] /\ fires' \in [ScheduleIds -> Nat \cup {None}]
        /\ \A x \in ScheduleIds : Timed(x)'
        /\ Sch!Exists(Managed)' /\ rows'[Managed].cron = cron /\ rows'[Managed].enabled = on
    BY <1>1, <1>2, <1>4, Programming
  <2> QED
    BY <1>1, <2>1, ScheduleEdited DEF ScheduleInv, Owned
<1>5. CASE cron # Sch!Never /\ ~Sch!Exists(Managed)
  <2> DEFINE entry == Sch!Row("update", cron, on, Sch!Occurrence(cron))
  <2>1. cron \in Sch!Crons /\ Sch!Program(Managed, entry)
    BY <1>1, <1>2, <1>5 DEF Sch!Ensure, Sch!CreateRow
  <2>2. entry \in Sch!Rows /\ entry.cron = cron /\ entry.enabled = on
    BY <1>2, <2>1, Occurs DEF Sch!Row, Sch!Rows, Sch!Kinds
  <2> QED
    BY <1>4, <2>1, <2>2
<1>6. CASE /\ cron # Sch!Never /\ Sch!Exists(Managed)
           /\ ~(rows[Managed].cron = cron /\ rows[Managed].enabled = on)
  <2> DEFINE entry == [rows[Managed] EXCEPT !.cron = cron, !.enabled = on,
                                          !.next = Sch!Occurrence(cron)]
  <2>1. cron \in Sch!Crons /\ Sch!Program(Managed, entry) /\ rows[Managed] \in Sch!Rows
    BY <1>1, <1>2, <1>6 DEF Sch!Ensure, Sch!UpdateRow, Sch!Exists
  <2>2. entry \in Sch!Rows /\ entry.cron = cron /\ entry.enabled = on
    BY <1>2, <2>1, Occurs DEF Sch!Rows
  <2> QED
    BY <1>4, <2>1, <2>2
<1> QED
  BY <1>3, <1>5, <1>6

(* A step that leaves every row what it is.                                *)
SameRows == \A x \in ScheduleIds : /\ Sch!Exists(x)' <=> Sch!Exists(x)
                                   /\ Sch!Exists(x) => /\ rows'[x].cron = rows[x].cron
                                                       /\ rows'[x].enabled = rows[x].enabled
                                                       /\ rows'[x].kind = rows[x].kind
LEMMA ScheduleKept ==
    ASSUME Sch!SettingIsSound, ScheduleInv, SameRows, UNCHANGED <<when, phase, due>>,
           edits' = edits \/ edits' = edits + 1
    PROVE  /\ Owned' /\ edits' \in Nat
           /\ UNCHANGED <<missed, caught>> => Caught'
<1>1. edits \in Nat /\ Managed \in ScheduleIds
  BY DEF ScheduleInv, ScheduleTypes, Sch!SettingIsSound
<1>2. edits' \in Nat /\ (edits' = 0 => edits = 0)
  BY <1>1
<1>3. Owned'
  BY <1>1 DEF SameRows, ScheduleInv, Owned, Sch!Started
<1>4. ASSUME UNCHANGED <<missed, caught>> PROVE Caught'
  <2>1. due \subseteq ScheduleIds
    BY DEF ScheduleInv, ScheduleTypes
  <2>2. ASSUME Sch!Started', edits' = 0, NEW id \in due'
        PROVE  Sch!Exists(id)' /\ (id \in missed' \/ caught'[id] = 1
                                     \/ (Sch!Jobs[rows[id].kind] = None)')
    BY <1>2, <1>4, <2>1, <2>2 DEF SameRows, ScheduleInv, Caught, Sch!Started, Sch!Jobs,
                                  Sch!Register
  <2> QED
    BY <1>4, <2>2 DEF ScheduleInv, Caught
<1> QED
  BY <1>2, <1>3, <1>4

LEMMA ScheduleFires ==
    ASSUME Sch!SettingIsSound, ScheduleInv, NEW id \in ScheduleIds, Sch!Fire(id)
    PROVE  ScheduleInv'
<1> DEFINE next == Sch!Occurrence(rows[id].cron)
<1>1. /\ UNCHANGED <<when, phase, missed, catching, clock, due, caught, edits>>
      /\ fires[id] # None /\ fires' = [fires EXCEPT ![id] = next]
  BY DEF Sch!Fire
<1>2. /\ rows \in [ScheduleIds -> Sch!Rows \cup {NoRow}] /\ fires \in [ScheduleIds -> Nat \cup {None}]
      /\ runs \in [ScheduleIds -> Nat] /\ clock \in Nat
  BY DEF ScheduleInv, ScheduleTypes
<1>3. Sch!Programmed(rows[id]) /\ rows[id] \in Sch!Rows /\ rows[id] # NoRow
  BY <1>1, <1>2 DEF ScheduleInv, Timed, Sch!Programmed
<1>4. next \in Nat /\ next # None
  BY <1>2, <1>3, RowParts, Occurs DEF Sch!SettingIsSound
<1>5. \/ /\ rows' = rows /\ runs' = [runs EXCEPT ![id] = @ + 1]
      \/ /\ rows' = [rows EXCEPT ![id].last = "skipped", ![id].next = next]
         /\ runs' = runs
  BY <1>3 DEF Sch!Fire, Sch!Execute, Sch!Exists
<1> HIDE DEF next
<1>6. /\ rows' \in [ScheduleIds -> Sch!Rows \cup {NoRow}] /\ runs' \in [ScheduleIds -> Nat]
      /\ \A x \in ScheduleIds : x # id => rows'[x] = rows[x] /\ runs'[x] = runs[x] /\ fires'[x] = fires[x]
      /\ rows'[id] \in Sch!Rows /\ rows'[id].cron = rows[id].cron
      /\ rows'[id].enabled = rows[id].enabled /\ rows'[id].kind = rows[id].kind
      /\ fires'[id] = next /\ (runs'[id] = 0 => rows'[id].next = next)
      /\ fires' \in [ScheduleIds -> Nat \cup {None}]
  <2>1. CASE rows' = rows /\ runs' = [runs EXCEPT ![id] = @ + 1]
    BY <1>1, <1>2, <1>3, <1>4, <2>1
  <2>2. CASE /\ rows' = [rows EXCEPT ![id].last = "skipped", ![id].next = next]
             /\ runs' = runs
    <3> DEFINE entry == [rows[id] EXCEPT !.last = "skipped", !.next = next]
    <3>1. /\ entry \in Sch!Rows /\ entry.next = next /\ entry.cron = rows[id].cron
          /\ entry.enabled = rows[id].enabled /\ entry.kind = rows[id].kind
      BY <1>3, <1>4 DEF Sch!Rows
    <3>2. rows' = [rows EXCEPT ![id] = entry]
      BY <1>2, <1>3, <2>2
    <3> HIDE DEF entry
    <3> QED
      BY <1>1, <1>2, <1>4, <2>2, <3>1, <3>2
  <2> QED
    BY <1>5, <2>1, <2>2
<1>7. SameRows
  BY <1>3, <1>6 DEF SameRows, Sch!Exists, Sch!SettingIsSound
<1>8. ASSUME NEW x \in ScheduleIds PROVE Timed(x)'
  <2>1. CASE x = id
    <3>1. Sch!Occurrence(rows[id].cron)' = next
      BY <1>1, <1>6 DEF next, Sch!Occurrence
    <3> QED
      BY <1>1, <1>3, <1>4, <1>6, <1>7, <2>1, <3>1
         DEF Timed, Sch!Programmed, Sch!Started, SameRows, Sch!Exists
  <2>2. CASE x # id
    <3>1. Timed(x)
      BY DEF ScheduleInv
    <3> QED
      BY <1>1, <1>6, <2>2, <3>1 DEF Timed, Sch!Programmed, Sch!Started, Sch!Occurrence
  <2> QED
    BY <2>1, <2>2
<1>9. Owned' /\ Caught'
  BY <1>1, <1>7, ScheduleKept
<1> QED
  BY <1>1, <1>6, <1>8, <1>9 DEF ScheduleInv, ScheduleTypes

(* A run that is started, or whose result is put down.                     *)
LEMMA ScheduleRuns ==
    ASSUME Sch!SettingIsSound, ScheduleInv, NEW id \in ScheduleIds,
           UNCHANGED <<when, phase, fires, clock, due>>, edits' = edits \/ edits' = edits + 1,
           catching' \in ScheduleIds \cup {None}, runs' \in [ScheduleIds -> Nat],
           missed' \subseteq ScheduleIds, caught' \in [ScheduleIds -> Nat],
           \A x \in ScheduleIds : /\ x # id => runs'[x] = runs[x]
                                  /\ x # id /\ catching' # x => catching # x,
           \/ /\ rows' = rows
              /\ \/ runs'[id] > 0 \/ catching' = id
                 \/ runs' = runs /\ (catching = id => catching' = id)
           \/ \E result \in {"ok", "error", "skipped"} : Sch!Recorded(id, result)
    PROVE  /\ SameRows /\ (\A x \in ScheduleIds : Timed(x)') /\ Owned' /\ ScheduleTypes'
           /\ UNCHANGED <<missed, caught>> => ScheduleInv'
<1>1. /\ rows' \in [ScheduleIds -> Sch!Rows \cup {NoRow}] /\ SameRows
      /\ \A x \in ScheduleIds : x # id => rows'[x] = rows[x]
      /\ \/ rows' = rows /\ (\/ runs'[id] > 0 \/ catching' = id
                             \/ runs' = runs /\ (catching = id => catching' = id))
         \/ fires[id] # None => rows'[id].next = Sch!Occurrence(rows[id].cron)
  <2>1. CASE rows' = rows /\ (\/ runs'[id] > 0 \/ catching' = id
                              \/ runs' = runs /\ (catching = id => catching' = id))
    BY <2>1 DEF ScheduleInv, ScheduleTypes, SameRows, Sch!Exists
  <2>2. ASSUME NEW result \in {"ok", "error", "skipped"}, Sch!Recorded(id, result)
        PROVE  /\ rows' \in [ScheduleIds -> Sch!Rows \cup {NoRow}] /\ SameRows
               /\ \A x \in ScheduleIds : x # id => rows'[x] = rows[x]
               /\ fires[id] # None => rows'[id].next = Sch!Occurrence(rows[id].cron)
    BY <2>2, Recording DEF SameRows
  <2> QED
    BY <2>1, <2>2
<1>2. ASSUME NEW x \in ScheduleIds PROVE Timed(x)'
  <2>1. Timed(x) /\ (Sch!Programmed(rows[x])' <=> Sch!Programmed(rows[x]))
        /\ fires'[x] = fires[x] /\ clock' = clock
        /\ (fires[x] # None => Sch!Occurrence(rows[x].cron)' = Sch!Occurrence(rows[x].cron))
    BY <1>1 DEF ScheduleInv, Timed, SameRows, Sch!Programmed, Sch!Started, Sch!Exists,
                Sch!Occurrence
  <2>2. CASE x # id
    BY <1>1, <2>1, <2>2 DEF Timed
  <2>3. CASE x = id
    BY <1>1, <2>1, <2>3 DEF Timed
  <2> QED
    BY <2>2, <2>3
<1>3. Owned' /\ edits' \in Nat /\ (UNCHANGED <<missed, caught>> => Caught')
  BY <1>1, ScheduleKept
<1>4. ScheduleTypes'
  BY <1>1, <1>3 DEF ScheduleInv, ScheduleTypes
<1> QED
  BY <1>1, <1>2, <1>3, <1>4 DEF ScheduleInv

LEMMA ScheduleExecuted ==
    ASSUME Sch!SettingIsSound, ScheduleInv, NEW id \in ScheduleIds, Sch!RunByHand(id) \/ Sch!EndRun(id)
    PROVE  ScheduleInv'
<1>1. /\ runs \in [ScheduleIds -> Nat] /\ caught \in [ScheduleIds -> Nat] /\ missed \subseteq ScheduleIds
      /\ catching \in ScheduleIds \cup {None}
  BY DEF ScheduleInv, ScheduleTypes
<1>2. CASE Sch!RunByHand(id)
  <2>1. /\ UNCHANGED <<when, phase, fires, missed, catching, clock, due, caught>>
        /\ edits' = edits + 1
        /\ \/ rows' = rows /\ runs' = [runs EXCEPT ![id] = @ + 1]
           \/ Sch!Recorded(id, "skipped") /\ runs' = runs
    BY <1>2 DEF Sch!RunByHand, Sch!Execute
  <2>2. /\ runs' \in [ScheduleIds -> Nat] /\ \A x \in ScheduleIds : x # id => runs'[x] = runs[x]
        /\ runs' = runs \/ runs'[id] > 0
    BY <1>1, <2>1
  <2> QED
    BY <1>1, <2>1, <2>2, ScheduleRuns
<1>3. CASE Sch!EndRun(id)
  <2>1. /\ UNCHANGED <<when, phase, fires, missed, catching, clock, due, caught, edits>>
        /\ runs[id] > 0 /\ runs' = [runs EXCEPT ![id] = @ - 1]
        /\ \E result \in {"ok", "error", "skipped"} : Sch!Recorded(id, result)
    BY <1>3 DEF Sch!EndRun
  <2>2. runs' \in [ScheduleIds -> Nat] /\ \A x \in ScheduleIds : x # id => runs'[x] = runs[x]
    BY <1>1, <2>1
  <2> QED
    BY <1>1, <2>1, <2>2, ScheduleRuns
<1> QED
  BY <1>2, <1>3

LEMMA ScheduleCatchesUp ==
    ASSUME Sch!SettingIsSound, ScheduleInv, NEW id \in ScheduleIds, Sch!CatchUp(id)
    PROVE  ScheduleInv'
<1>1. /\ UNCHANGED <<when, phase, fires, runs, clock, due, edits>>
      /\ phase = "catching" /\ catching = None /\ id \in missed /\ missed' = missed \ {id}
      /\ \/ /\ rows' = rows /\ catching' = id /\ caught' = [caught EXCEPT ![id] = @ + 1]
            /\ Sch!Exists(id)
         \/ /\ ~Sch!Exists(id) \/ Sch!Jobs[rows[id].kind] = None
            /\ Sch!Recorded(id, "skipped") /\ UNCHANGED <<catching, caught>>
  BY DEF Sch!CatchUp
<1>2. /\ runs \in [ScheduleIds -> Nat] /\ caught \in [ScheduleIds -> Nat] /\ missed \subseteq ScheduleIds
      /\ missed \subseteq due /\ None \notin ScheduleIds /\ due \subseteq ScheduleIds
  BY DEF ScheduleInv, ScheduleTypes, Caught, Sch!SettingIsSound
<1>3. /\ caught' \in [ScheduleIds -> Nat] /\ missed' \subseteq ScheduleIds /\ catching' \in ScheduleIds \cup {None}
      /\ \A x \in ScheduleIds : x # id => caught'[x] = caught[x]
  BY <1>1, <1>2
<1>4. SameRows /\ (\A x \in ScheduleIds : Timed(x)') /\ Owned' /\ ScheduleTypes'
  BY <1>1, <1>2, <1>3, ScheduleRuns
<1>5. caught[id] = 0 /\ \A x \in ScheduleIds : caught[x] <= (IF x \in due /\ x \notin missed THEN 1 ELSE 0)
  BY <1>1, <1>2 DEF ScheduleInv, Caught
<1>6. /\ caught'[id] <= 1 /\ missed' \subseteq due'
      /\ \A x \in ScheduleIds : caught'[x] <= (IF x \in due' /\ x \notin missed' THEN 1 ELSE 0)
  <2>1. caught'[id] <= 1 /\ missed' \subseteq due'
    BY <1>1, <1>2, <1>5
  <2>2. \A x \in ScheduleIds : x # id => (x \in missed' <=> x \in missed)
    BY <1>1
  <2>3. id \in due' /\ id \notin missed'
    BY <1>1, <1>2
  <2> QED
    BY <1>1, <1>3, <1>5, <2>1, <2>2, <2>3
<1>7. ASSUME edits' = 0, NEW x \in due'
      PROVE  Sch!Exists(x)' /\ (x \in missed' \/ caught'[x] = 1
                                  \/ (Sch!Jobs[rows[x].kind] = None)')
  <2>1. /\ x \in ScheduleIds /\ Sch!Exists(x)
        /\ x \in missed \/ caught[x] = 1 \/ Sch!Jobs[rows[x].kind] = None
    BY <1>1, <1>2, <1>7 DEF ScheduleInv, Caught, Sch!Started
  <2>2. Sch!Exists(x)' /\ rows'[x].kind = rows[x].kind
    BY <1>4, <2>1 DEF SameRows
  <2>3. (Sch!Jobs[rows[x].kind] = None)' <=> Sch!Jobs[rows[x].kind] = None
    BY <2>2 DEF Sch!Jobs, Sch!Register
  <2>4. CASE x = id
    <3>1. caught'[id] = 1 \/ Sch!Jobs[rows[id].kind] = None
      BY <1>1, <1>2, <1>5, <2>1, <2>4
    <3> QED
      BY <2>2, <2>3, <2>4, <3>1
  <2>5. CASE x # id
    BY <1>1, <1>3, <2>1, <2>2, <2>3, <2>5
  <2> QED
    BY <2>4, <2>5
<1> QED
  BY <1>1, <1>4, <1>6, <1>7 DEF ScheduleInv, Caught

LEMMA ScheduleCaughtUp ==
    ASSUME Sch!SettingIsSound, ScheduleInv, Sch!CaughtUp PROVE ScheduleInv'
<1>1. /\ UNCHANGED <<when, phase, fires, runs, missed, clock, due, caught, edits>>
      /\ catching # None /\ catching' = None
      /\ \E result \in {"ok", "error", "skipped"} : Sch!Recorded(catching, result)
  BY DEF Sch!CaughtUp
<1>2. /\ runs \in [ScheduleIds -> Nat] /\ caught \in [ScheduleIds -> Nat] /\ missed \subseteq ScheduleIds
      /\ catching \in ScheduleIds
  BY <1>1 DEF ScheduleInv, ScheduleTypes
<1> QED
  BY <1>1, <1>2, ScheduleRuns

LEMMA ScheduleStarts ==
    ASSUME Sch!SettingIsSound, ScheduleInv, Sch!Start PROVE ScheduleInv'
<1> DEFINE mine == Sch!Row("update", when.cron, when.enabled, Sch!Occurrence(when.cron))
           listed == [id \in ScheduleIds |-> IF id = Managed
                                     THEN IF Sch!Exists(id) /\ rows[id].cron = when.cron
                                                            /\ rows[id].enabled = when.enabled
                                          THEN rows[id]
                                          ELSE IF when.cron = Sch!Never THEN rows[id] ELSE mine
                                     ELSE rows[id]]
           On(id) == listed[id] # NoRow /\ listed[id].enabled
           overdue == {id \in ScheduleIds : listed[id] # NoRow /\ listed[id].enabled
                                      /\ listed[id].kind \in Sch!CatchupKinds
                                      /\ listed[id].next < clock - CatchupGrace}
<1>1. /\ rows' = [id \in ScheduleIds |-> IF On(id) THEN [listed[id] EXCEPT !.next = Sch!Occurrence(listed[id].cron)]
                                 ELSE listed[id]]
      /\ fires' = [id \in ScheduleIds |-> IF On(id) THEN Sch!Occurrence(listed[id].cron) ELSE None]
      /\ missed' = overdue /\ due' = overdue
      /\ phase' = "catching" /\ catching' = None /\ caught' = [id \in ScheduleIds |-> 0]
      /\ UNCHANGED <<when, runs, clock, edits>>
  BY DEF Sch!Start, Sch!Overdue
<1>2. /\ rows \in [ScheduleIds -> Sch!Rows \cup {NoRow}] /\ clock \in Nat /\ runs \in [ScheduleIds -> Nat]
      /\ when \in [cron : Sch!Crons \cup {Sch!Never}, enabled : BOOLEAN]
      /\ edits \in Nat /\ Managed \in ScheduleIds
  BY DEF ScheduleInv, ScheduleTypes, Sch!SettingIsSound
<1>3. when.cron # Sch!Never => mine \in Sch!Rows /\ mine.cron = when.cron /\ mine.enabled = when.enabled
  BY <1>2, Occurs DEF Sch!Rows, Sch!Row, Sch!Kinds
<1> HIDE DEF mine
<1>4. /\ listed \in [ScheduleIds -> Sch!Rows \cup {NoRow}]
      /\ when.cron # Sch!Never => /\ listed[Managed] \in Sch!Rows
                                  /\ listed[Managed].cron = when.cron
                                  /\ listed[Managed].enabled = when.enabled
  BY <1>2, <1>3 DEF Sch!Exists
<1> HIDE DEF listed
<1>5. ASSUME NEW id \in ScheduleIds, listed[id] # NoRow
      PROVE  LET next == Sch!Occurrence(listed[id].cron)
             IN  /\ listed[id] \in Sch!Rows /\ listed[id].enabled \in BOOLEAN
                 /\ next \in Nat /\ next # None
                 /\ [listed[id] EXCEPT !.next = next] \in Sch!Rows
                 /\ [listed[id] EXCEPT !.next = next] # NoRow
                 /\ [listed[id] EXCEPT !.next = next].next = next
                 /\ [listed[id] EXCEPT !.next = next].cron = listed[id].cron
                 /\ [listed[id] EXCEPT !.next = next].enabled = listed[id].enabled
  <2>1. listed[id] \in Sch!Rows
    BY <1>4, <1>5
  <2>2. Sch!Occurrence(listed[id].cron) \in Nat
    BY <1>2, <2>1, RowParts, Occurs
  <2> QED
    BY <2>1, <2>2, RowParts DEF Sch!SettingIsSound
<1>6. /\ rows' \in [ScheduleIds -> Sch!Rows \cup {NoRow}] /\ fires' \in [ScheduleIds -> Nat \cup {None}]
      /\ caught' \in [ScheduleIds -> Nat] /\ missed' \subseteq ScheduleIds /\ due' \subseteq ScheduleIds
  BY <1>1, <1>4, <1>5
<1>7. ASSUME NEW id \in ScheduleIds
      PROVE  /\ On(id) => /\ rows'[id] # NoRow /\ rows'[id].enabled
                          /\ fires'[id] = Sch!Occurrence(rows[id].cron)'
                          /\ fires'[id] # None /\ rows'[id].next = fires'[id]
             /\ ~On(id) => rows'[id] = listed[id] /\ fires'[id] = None
  BY <1>1, <1>5 DEF Sch!Occurrence
<1>8. \A id \in ScheduleIds : Timed(id)'
  BY <1>1, <1>7 DEF Timed, Sch!Programmed, Sch!Started
<1>9. Owned'
  <2>1. SUFFICES ASSUME when.cron # Sch!Never
                 PROVE  /\ rows'[Managed] # NoRow
                        /\ rows'[Managed].cron = when.cron
                        /\ rows'[Managed].enabled = when.enabled
    BY <1>1 DEF Owned, Sch!Exists
  <2>2. /\ listed[Managed] # NoRow /\ listed[Managed].cron = when.cron
        /\ listed[Managed].enabled = when.enabled
    BY <1>4, <2>1 DEF Sch!SettingIsSound
  <2>3. CASE On(Managed)
    BY <1>1, <1>2, <1>5, <2>2, <2>3
  <2>4. CASE ~On(Managed)
    BY <1>2, <1>7, <2>2, <2>4
  <2> QED
    BY <2>3, <2>4
<1>10. Caught'
  <2>1. \A id \in due' : id \in ScheduleIds /\ On(id) /\ id \in missed' /\ Sch!Exists(id)'
    BY <1>1, <1>7 DEF Sch!Exists
  <2> QED
    BY <1>1, <2>1 DEF Caught
<1> QED
  BY <1>1, <1>2, <1>6, <1>8, <1>9, <1>10 DEF ScheduleInv, ScheduleTypes

LEMMA ScheduleNext ==
    ASSUME Sch!SettingIsSound, ScheduleInv, [Sch!Next]_(Sch!schedulerVars) PROVE ScheduleInv'
<1> USE DEF ScheduleInv
<1>1. CASE UNCHANGED Sch!schedulerVars
  BY <1>1 DEF Sch!schedulerVars, ScheduleTypes, Timed, Owned, Caught, Sch!Programmed,
              Sch!Started, Sch!Exists, Sch!Occurrence, Sch!Jobs, Sch!Register
<1>2. CASE Sch!Up
  <2>1. /\ phase = "catching" /\ phase' = "up" /\ missed = {}
        /\ UNCHANGED <<rows, when, fires, runs, missed, catching, clock, due, caught, edits>>
    BY <1>2 DEF Sch!Up
  <2> QED
    BY <2>1 DEF ScheduleTypes, Timed, Owned, Caught, Sch!Programmed,
                Sch!Started, Sch!Exists, Sch!Occurrence, Sch!Jobs, Sch!Register
<1>3. CASE Sch!Stop \/ Sch!Stopped \/ Sch!Crash
  <2>1. /\ phase' \in {"stopping", "down"}
        /\ \A id \in ScheduleIds : fires'[id] = None
        /\ fires' \in [ScheduleIds -> Nat \cup {None}] /\ runs' \in [ScheduleIds -> Nat]
        /\ missed' = missed \/ missed' = {}
        /\ catching' = catching \/ catching' = None
        /\ UNCHANGED <<rows, when, clock, due, caught, edits>>
    <3>1. phase = "stopping" => \A id \in ScheduleIds : fires[id] = None
      BY DEF Timed, Sch!Programmed, Sch!Started
    <3> QED
      BY <1>3, <3>1 DEF Sch!Stop, Sch!Stopped, Sch!Crash, ScheduleTypes
  <2>2. \A id \in ScheduleIds : Timed(id)'
    BY <2>1 DEF Timed, Sch!Programmed, Sch!Started
  <2>3. Caught'
    BY <2>1 DEF Caught, ScheduleTypes, Sch!Started
  <2> QED
    BY <2>1, <2>2, <2>3 DEF ScheduleTypes, Owned, Sch!Started
<1>4. CASE Sch!Pass
  <2>1. /\ clock' = clock + 1 /\ \A id \in ScheduleIds : fires[id] # None => clock < fires[id]
        /\ UNCHANGED <<rows, when, phase, fires, runs, missed, catching, due, caught, edits>>
    BY <1>4 DEF Sch!Pass
  <2>2. ScheduleTypes' /\ clock \in Nat
    BY <2>1 DEF ScheduleTypes
  <2>3. ASSUME NEW id \in ScheduleIds PROVE Timed(id)'
    <3>1. Timed(id)
      OBVIOUS
    <3>2. CASE fires[id] = None
      BY <2>1, <3>1, <3>2 DEF Timed, Sch!Programmed, Sch!Started
    <3>3. CASE fires[id] # None
      <4>1. rows[id].cron \in Sch!Crons
        BY <3>1, <3>3, RowParts DEF Timed, Sch!Programmed, ScheduleTypes
      <4> DEFINE f == Sch!Occurrence(rows[id].cron)
      <4>2. fires[id] = f
        BY <2>1, <3>1, <3>3 DEF Timed
      <4>3. clock' < f => Sch!Occurrence(rows[id].cron)' = f
        BY <2>1, <2>2, <4>1, Occurs DEF Sch!Occurrence
      <4> QED
        BY <2>1, <2>2, <3>1, <3>3, <4>2, <4>3 DEF Timed, Sch!Programmed, Sch!Started
    <3> QED
      BY <3>2, <3>3
  <2>4. Owned' /\ Caught'
    BY <2>1 DEF Owned, Caught, Sch!Started, Sch!Exists, Sch!Jobs, Sch!Register
  <2> QED
    BY <2>2, <2>3, <2>4
<1> QED
  BY <1>1, <1>2, <1>3, <1>4, ScheduleWritten, ScheduleSaved, ScheduleFires, ScheduleExecuted,
     ScheduleCatchesUp, ScheduleCaughtUp, ScheduleStarts DEF Sch!Next

(* Whoever writes a row, whenever the process stops, dies and starts: a    *)
(* timer stands for every row that is switched on and for no other, what   *)
(* was missed runs once, and the updates section decides when its row runs. *)
THEOREM SchedulesAreRight == ASSUME Sch!SettingIsSound PROVE Sch!Spec => []Sch!SchedulesHold
<1>1. ScheduleInv => Sch!SchedulesHold
  <2> SUFFICES ASSUME ScheduleInv PROVE Sch!SchedulesHold
    OBVIOUS
  <2>1. Sch!TimersAnswerForRows
    BY DEF ScheduleInv, Timed, Sch!TimersAnswerForRows
  <2>2. Sch!MissedRunsOnce
    <3>1. caught \in [ScheduleIds -> Nat] /\ due \subseteq ScheduleIds /\ edits \in Nat
      BY DEF ScheduleInv, ScheduleTypes
    <3> QED
      BY <3>1 DEF ScheduleInv, Caught, Sch!MissedRunsOnce, Sch!Started
  <2>3. Sch!ConfigOwnsWhen
    BY DEF ScheduleInv, Owned, Sch!ConfigOwnsWhen
  <2> QED
    BY <2>1, <2>2, <2>3 DEF Sch!SchedulesHold
<1>2. Sch!Init => ScheduleInv
  BY ScheduleInit
<1>3. ScheduleInv /\ [Sch!Next]_(Sch!schedulerVars) => ScheduleInv'
  BY ScheduleNext
<1> QED
  BY <1>1, <1>2, <1>3, PTL DEF Sch!Spec

-----------------------------------------------------------------------------
(* Updates.  As long as the power stays and at most one thing goes wrong,  *)
(* a script that may build has a healthy release to go back to, and what   *)
(* is built and runs follows from its step; one that was sent for a ref    *)
(* nobody knows builds nothing.  What is in the history, waits in the      *)
(* status file or is under way was asked for.                              *)

Releases == Versions \cup {None}
Well(v) == v \in Versions /\ v \notin sick
Spared == cuts = 0 /\ updateFaults + Cardinality(sick) < 2
Managers == [phase : Upd!AtRest \cup {"checking", "downloading", "rolling_back"}
                       \cup (Upd!ScriptSteps \ {"begin", "restarted", "restored"}),
             available : Releases, rollback : Releases, fetching : BOOLEAN]

Preliminaries == {"begin", "downloading", "verifying"}
(* Only the checks are made for a ref that is not known.                   *)
Sent(s) == s # None => s.target \in Versions \/ s.step \in Preliminaries
UpdateTypes ==
    /\ Sent(script)
    /\ published \subseteq [version : Versions, channel : {"stable", "beta"}]
    /\ m \in Managers /\ running \in Releases /\ tree \in Releases
    /\ file \in Upd!Statuses \cup {None} /\ script \in Upd!Scripts \cup {None}
    /\ history \in [{"ok", "failed"} -> Nat] /\ updateRequests \in Nat /\ updateFaults \in Nat
    /\ Cardinality(sick) \in Nat /\ (sick # {} => Cardinality(sick) >= 1)
OnTheWay ==
    IF script = None \/ script.target = NoTag THEN Well(running) /\ tree = running
    ELSE /\ Well(script.back)
         /\ script.step \in {"begin", "downloading", "verifying", "installing", "restored"} =>
               running = tree /\ tree = script.back
         /\ script.step = "restarting" => tree \in Versions
         /\ script.step \in {"restarted", "health_gate"} => running = tree /\ tree \in Versions
         /\ script.step = "rolling_back" => updateFaults + Cardinality(sick) >= 1
Newer == m.available # None /\ running # None /\ m.phase = "idle" => m.available > running
Waits(s) == IF s # None /\ s.phase \in Upd!Terminal THEN 1 ELSE 0
Runs(s) == IF s # None THEN 1 ELSE 0
Owed == history["ok"] + history["failed"] + Waits(file) + Runs(script) <= updateRequests
UpdateInv == UpdateTypes /\ Newer /\ Owed /\ (Spared => OnTheWay)

LEMMA Newest ==
    ASSUME Upd!SettingIsSound, NEW S \in SUBSET Versions, S # {}
    PROVE  Upd!Max(S) \in S /\ \A v \in S : v <= Upd!Max(S)
BY DEF Upd!SettingIsSound, Upd!Max

LEMMA Offers ==
    ASSUME Upd!SettingIsSound, UpdateTypes
    PROVE  /\ Upd!Offered(running) \in Releases
           /\ Upd!Offered(running) # None /\ running # None => Upd!Offered(running) > running
<1> DEFINE candidates ==
        {r.version : r \in {p \in published : channel = "beta" \/ p.channel = "stable"}}
<1>1. candidates \in SUBSET Versions
  BY DEF UpdateTypes
<1>2. Versions \subseteq Nat /\ running \in Versions \cup {None} /\ None \notin Versions
  BY DEF Upd!SettingIsSound, UpdateTypes, Releases
<1>3. Upd!Offered(running) = IF candidates = {} \/ Upd!Max(candidates) <= running
                             THEN None ELSE Upd!Max(candidates)
  BY DEF Upd!Offered
<1> HIDE DEF candidates
<1>4. candidates # {} => Upd!Max(candidates) \in Versions
  BY <1>1, Newest
<1>5. Upd!Offered(running) # None => /\ candidates # {}
                                    /\ ~(Upd!Max(candidates) <= running)
                                    /\ Upd!Offered(running) = Upd!Max(candidates)
  BY <1>3
<1>6. Upd!Offered(running) # None /\ running # None => Upd!Offered(running) > running
  <2>1. SUFFICES ASSUME Upd!Offered(running) # None, running # None
                 PROVE  Upd!Offered(running) > running
    OBVIOUS
  <2>2. running \in Nat /\ Upd!Max(candidates) \in Nat
    BY <1>2, <1>4, <1>5, <2>1
  <2> QED
    BY <1>5, <2>1, <2>2
<1>7. Upd!Offered(running) \in Releases
  BY <1>3, <1>4 DEF Releases
<1> QED
  BY <1>6, <1>7

LEMMA UpdateInit == ASSUME Upd!SettingIsSound PROVE Upd!Init => UpdateInv
<1> SUFFICES ASSUME Upd!Init PROVE UpdateInv
  OBVIOUS
<1>1. Upd!Min(Versions) \in Versions /\ Upd!Min(Versions) # Upd!Max(Versions) /\ None \notin Versions
  BY DEF Upd!SettingIsSound, Upd!Min
<1>2. /\ Cardinality(sick) \in Nat /\ (sick # {} => Cardinality(sick) >= 1)
      /\ Upd!Min(Versions) \notin sick
  <2>1. CASE sick = {}
    BY <2>1, FS_EmptySet
  <2>2. CASE sick = {Upd!Max(Versions)}
    <3>1. Cardinality(sick) = 1
      BY <2>2, FS_Singleton
    <3> QED
      BY <1>1, <2>2, <3>1
  <2> QED
    BY <2>1, <2>2 DEF Upd!Init
<1>3. m \in Managers /\ m.available = None
  BY DEF Upd!Init, Upd!FreshManager, Managers, Upd!AtRest, Releases
<1>4. history["ok"] = 0 /\ history["failed"] = 0 /\ history \in [{"ok", "failed"} -> Nat]
  BY DEF Upd!Init
<1>5. /\ running = Upd!Min(Versions) /\ tree = running /\ file = None /\ script = None
      /\ updateRequests = 0 /\ updateFaults = 0
      /\ published \subseteq [version : Versions, channel : {"stable", "beta"}]
  BY DEF Upd!Init
<1> QED
  BY <1>1, <1>2, <1>3, <1>4, <1>5 DEF UpdateInv, UpdateTypes, Releases, OnTheWay, Well, Newer,
                                       Owed, Waits, Runs, Sent
LEMMA Counts ==
    ASSUME history \in [{"ok", "failed"} -> Nat], NEW result \in {"ok", "failed"}
    PROVE  /\ Upd!Recorded(result) \in [{"ok", "failed"} -> Nat]
           /\ Upd!Recorded(result)["ok"] + Upd!Recorded(result)["failed"]
                = history["ok"] + history["failed"] + 1
<1>1. CASE result = "ok"
  BY <1>1 DEF Upd!Recorded
<1>2. CASE result = "failed"
  BY <1>2 DEF Upd!Recorded
<1> QED
  BY <1>1, <1>2

LEMMA Adopts ==
    ASSUME Upd!SettingIsSound, NEW manager \in Managers, NEW s \in Upd!Statuses \cup {None}
    PROVE  /\ Upd!Adopted(manager, s) \in Managers
           /\ Upd!Adopted(manager, s).available = manager.available
           /\ Upd!Adopted(manager, s).phase = "idle" => manager.phase = "idle"
           /\ Upd!Consumed(s) \in Upd!Statuses \cup {None} /\ Waits(Upd!Consumed(s)) = 0
<1>1. None \notin Upd!Statuses
  BY DEF Upd!SettingIsSound
<1>2. Upd!Consumed(s) \in Upd!Statuses \cup {None} /\ Waits(Upd!Consumed(s)) = 0
  BY DEF Upd!Consumed, Waits
<1>3. CASE s = None
  BY <1>2, <1>3 DEF Upd!Adopted
<1>4. CASE s \in Upd!Statuses
  <2>1. /\ s.phase \in Upd!AtRest \cup (Upd!ScriptSteps \ {"begin", "restarted", "restored"})
        /\ s.phase # "idle" /\ s.previous \in Releases
    BY <1>4 DEF Upd!Statuses, Upd!ScriptSteps, Upd!Terminal, Upd!AtRest, Releases
  <2> DEFINE target == IF s.phase = "done" /\ s.previous # None THEN s.previous
                       ELSE manager.rollback
  <2>2. target \in Releases
    BY <2>1 DEF Managers
  <2>3. Upd!Adopted(manager, s) = [manager EXCEPT !.phase = s.phase, !.rollback = target]
    BY <1>1, <1>4 DEF Upd!Adopted
  <2> HIDE DEF target
  <2>4. /\ [manager EXCEPT !.phase = s.phase, !.rollback = target] \in Managers
        /\ [manager EXCEPT !.phase = s.phase, !.rollback = target].available = manager.available
        /\ [manager EXCEPT !.phase = s.phase, !.rollback = target].phase = s.phase
    BY <2>1, <2>2 DEF Managers
  <2> QED
    BY <1>2, <2>1, <2>3, <2>4
<1> QED
  BY <1>3, <1>4

(* A process that comes up, or tries to, and the manager it makes.         *)
LEMMA ComesBack ==
    ASSUME Upd!SettingIsSound, UpdateTypes, NEW version \in Releases, Upd!RestartAs(version, file)
    PROVE  /\ m' \in Managers /\ m'.available = None /\ running' = version
           /\ file' \in Upd!Statuses \cup {None} /\ history' \in [{"ok", "failed"} -> Nat]
           /\ history'["ok"] + history'["failed"] + Waits(file')
                = history["ok"] + history["failed"] + Waits(file)
<1>1. Upd!FreshManager \in Managers /\ Upd!FreshManager.available = None
  BY DEF Upd!FreshManager, Managers, Upd!AtRest, Releases
<1>2. file \in Upd!Statuses \cup {None} /\ history \in [{"ok", "failed"} -> Nat]
  BY DEF UpdateTypes
<1>3. /\ running' = version
      /\ m' = IF version = None THEN Upd!FreshManager ELSE Upd!Adopted(Upd!FreshManager, file)
      /\ file' = IF version = None THEN file ELSE Upd!Consumed(file)
      /\ history' = IF version # None /\ file # None /\ file.phase \in Upd!Terminal
                    THEN Upd!Recorded(IF file.phase = "done" THEN "ok" ELSE "failed")
                    ELSE history
  BY DEF Upd!RestartAs
<1>4. CASE version = None
  BY <1>1, <1>2, <1>3, <1>4
<1>5. CASE version # None
  <2>1. /\ m' \in Managers /\ m'.available = None
        /\ file' \in Upd!Statuses \cup {None} /\ Waits(file') = 0
    BY <1>1, <1>2, <1>3, <1>5, Adopts
  <2>2. CASE file # None /\ file.phase \in Upd!Terminal
    <3> DEFINE result == IF file.phase = "done" THEN "ok" ELSE "failed"
    <3>1. result \in {"ok", "failed"} /\ history' = Upd!Recorded(result) /\ Waits(file) = 1
      BY <1>3, <1>5, <2>2 DEF Waits
    <3> HIDE DEF result
    <3> QED
      BY <1>2, <1>3, <2>1, <3>1, Counts
  <2>3. CASE ~(file # None /\ file.phase \in Upd!Terminal)
    <3>1. history' = history /\ Waits(file) = 0
      BY <1>3, <2>3 DEF Waits
    <3> QED
      BY <1>2, <1>3, <2>1, <3>1
  <2> QED
    BY <2>2, <2>3
<1> QED
  BY <1>4, <1>5

LEMMA Reported ==
    ASSUME Upd!SettingIsSound, UpdateTypes, script # None, Upd!Report("failed") \/ Upd!Report("done")
    PROVE  /\ file' \in Upd!Statuses /\ script' = None /\ Waits(file') + Runs(script') = 1
           /\ UNCHANGED <<running, m, history>>
<1>1. script \in Upd!Scripts /\ None \notin Upd!Statuses
  BY DEF UpdateTypes, Upd!SettingIsSound
<1> QED
  BY <1>1 DEF Upd!Report, Upd!Status, Upd!Statuses, Upd!Scripts, Upd!Terminal, Waits, Runs

LEMMA StepsOn ==
    ASSUME Upd!SettingIsSound, UpdateTypes, script # None,
           NEW step \in Upd!ScriptSteps \ {"begin", "restarted", "restored"}, Upd!Report(step)
    PROVE  /\ file' \in Upd!Statuses /\ script' \in Upd!Scripts /\ script' # None
           /\ script'.step = step /\ script'.back = script.back
           /\ script'.target = script.target
           /\ Waits(file') + Runs(script') = 1
           /\ UNCHANGED <<running, m, history>>
<1>1. script \in Upd!Scripts /\ None \notin Upd!Statuses /\ None \notin Upd!Scripts
  BY DEF UpdateTypes, Upd!SettingIsSound
<1>2. /\ file' = Upd!Status(step, script)
      /\ script' = [script EXCEPT !.step = step] /\ UNCHANGED <<running, m, history>>
      /\ step \notin Upd!Terminal
  BY DEF Upd!Report, Upd!Terminal, Upd!ScriptSteps
<1>3. /\ file' \in Upd!Statuses /\ file'.phase = step
      /\ script' \in Upd!Scripts /\ script'.step = step /\ script'.back = script.back
      /\ script'.target = script.target
  BY <1>1, <1>2 DEF Upd!Status, Upd!Statuses, Upd!Scripts
<1>4. file' # None /\ script' # None
  BY <1>1, <1>3
<1> QED
  BY <1>2, <1>3, <1>4 DEF Waits, Runs
LEMMA Sums ==
    ASSUME UpdateTypes
    PROVE  /\ history["ok"] \in Nat /\ history["failed"] \in Nat /\ updateRequests \in Nat
           /\ updateFaults \in Nat /\ Cardinality(sick) \in Nat
           /\ \A s : Waits(s) \in {0, 1} /\ Runs(s) \in {0, 1}
           /\ Waits(None) = 0 /\ Runs(None) = 0
BY DEF UpdateTypes, Waits, Runs

LEMMA UpdateChecks ==
    ASSUME Upd!SettingIsSound, UpdateInv, Upd!StartCheck \/ Upd!EndCheck PROVE UpdateInv'
<1> USE DEF UpdateInv
<1>1. CASE Upd!StartCheck
  <2>1. m' \in Managers /\ m'.phase = "checking"
    BY <1>1 DEF Upd!StartCheck, UpdateTypes, Managers
  <2> QED
    BY <1>1, <2>1, Sums DEF Upd!StartCheck, Upd!Asked, Upd!world, UpdateTypes, Newer, Owed,
                            Spared, OnTheWay, Well
<1>2. CASE Upd!EndCheck
  <2>1. /\ m' \in Managers
        /\ m'.available = None \/ m'.available = Upd!Offered(running)
        /\ running # None
    BY <1>2, Offers DEF Upd!EndCheck, Upd!Up, UpdateTypes, Managers, Upd!AtRest, Releases
  <2>2. /\ updateFaults' = updateFaults \/ updateFaults' = updateFaults + 1
        /\ UNCHANGED <<published, sick, channel, automatic, running, tree, file, script,
                       history, updateRequests, cuts>>
    BY <1>2 DEF Upd!EndCheck, Upd!Fault, Upd!world
  <2>3. updateFaults' \in Nat /\ updateFaults' >= updateFaults
    BY <2>2, Sums
  <2>4. Newer'
    BY <2>1, <2>2, Offers DEF Newer
  <2>5. UpdateTypes' /\ Owed'
    BY <2>1, <2>2, <2>3 DEF UpdateTypes, Owed, Waits, Runs
  <2>6. Spared' => Spared
    BY <2>2, <2>3, Sums DEF Spared
  <2>7. OnTheWay => OnTheWay'
    BY <2>2, <2>3, Sums DEF OnTheWay, Well
  <2> QED
    BY <2>4, <2>5, <2>6, <2>7
<1> QED
  BY <1>1, <1>2

(* The helper is asked for a script: it starts one, or there is one.       *)
LEMMA Invoked ==
    ASSUME Upd!SettingIsSound, UpdateTypes, NEW manager \in Managers, NEW target \in Upd!Targets,
           NEW back \in Releases, manager.phase # "idle", Upd!Invoke(manager, target, back)
    PROVE  /\ m' \in Managers /\ m'.phase # "idle"
           /\ script = None => /\ script' \in Upd!Scripts /\ script' # None
                               /\ script'.step = "begin" /\ script'.back = back
                               /\ script'.target = target /\ history' = history
           /\ script # None => script' = script
<1>1. CASE script = None
  <2>1. script' = [step |-> "begin", target |-> target, back |-> back] /\ m' = manager
        /\ history' = history
    BY <1>1 DEF Upd!Invoke
  <2>2. script' \in Upd!Scripts
    BY <2>1 DEF Upd!Scripts, Upd!ScriptSteps, Releases
  <2>3. None \notin Upd!Scripts
    BY DEF Upd!SettingIsSound
  <2> QED
    BY <1>1, <2>1, <2>2, <2>3
<1>2. CASE script # None
  BY <1>2 DEF Upd!Invoke, Managers, Upd!AtRest, Upd!Terminal
<1> QED
  BY <1>1, <1>2

(* What an update that begins, or is refused, does to the books.           *)
LEMMA Begins ==
    ASSUME Upd!SettingIsSound, UpdateInv, Upd!Asked, m' \in Managers, m'.phase # "idle",
           script = None => /\ script' \in Upd!Scripts /\ script' # None
                            /\ script'.step = "begin" /\ script'.back = tree
                            /\ script'.target \in Versions /\ history' = history,
           script # None => script' = script /\ history' = Upd!Recorded("failed"),
           file' = None,
           UNCHANGED <<published, sick, running, tree, updateFaults, cuts>>
    PROVE  UpdateInv'
<1> USE DEF UpdateInv
<1>1. updateRequests' = updateRequests + 1
  BY DEF Upd!Asked
<1>2. script' \in Upd!Scripts /\ script' # None
  BY DEF UpdateTypes
<1>3. /\ history' \in [{"ok", "failed"} -> Nat]
      /\ history'["ok"] + history'["failed"] + Runs(script')
           <= history["ok"] + history["failed"] + Runs(script) + 1
  <2>1. CASE script = None
    BY <1>2, <2>1, Sums DEF UpdateTypes, Runs
  <2>2. CASE script # None
    BY <1>2, <2>2, Sums, Counts DEF UpdateTypes, Runs
  <2> QED
    BY <2>1, <2>2
<1>4. Owed'
  <2>1. /\ history'["ok"] \in Nat /\ history'["failed"] \in Nat /\ Runs(script') \in Nat
        /\ Waits(file') = 0
    BY <1>3, Sums
  <2> QED
    BY <1>1, <1>3, <2>1, Sums DEF Owed
<1>5. UpdateTypes'
  <2>1. Sent(script')
    BY DEF UpdateTypes, Sent
  <2> QED
    BY <1>1, <1>2, <1>3, <2>1 DEF UpdateTypes
<1>6. Newer'
  BY DEF Newer
<1>7. Spared' => OnTheWay'
  <2>1. SUFFICES ASSUME Spared, OnTheWay PROVE OnTheWay'
    BY DEF Spared
  <2>2. CASE script = None
    BY <1>2, <2>1, <2>2 DEF OnTheWay, Well, Upd!SettingIsSound
  <2>3. CASE script # None
    BY <2>1, <2>3 DEF OnTheWay, Well
  <2> QED
    BY <2>2, <2>3
<1> QED
  BY <1>4, <1>5, <1>6, <1>7

LEMMA UpdateApplies ==
    ASSUME Upd!SettingIsSound, UpdateInv, Upd!Apply PROVE UpdateInv'
<1> DEFINE manager == [m EXCEPT !.phase = "downloading"]
<1>1. /\ manager \in Managers /\ manager.phase # "idle" /\ m.available \in Versions
      /\ tree \in Releases
  BY DEF UpdateInv, UpdateTypes, Managers, Upd!Apply, Upd!ScriptSteps, Releases
<1>2. Upd!Invoke(manager, m.available, tree)
  BY DEF Upd!Apply
<1> HIDE DEF manager
<1>3. /\ m' \in Managers /\ m'.phase # "idle"
      /\ script = None => /\ script' \in Upd!Scripts /\ script' # None
                          /\ script'.step = "begin" /\ script'.back = tree
                          /\ script'.target \in Versions /\ history' = history
      /\ script # None => script' = script
  BY <1>1, <1>2, Invoked DEF UpdateInv, Upd!Targets
<1>4. /\ Upd!Asked /\ file' = None /\ (script # None => history' = Upd!Recorded("failed"))
      /\ UNCHANGED <<published, sick, running, tree, updateFaults, cuts>>
  BY DEF Upd!Apply, Upd!world
<1> QED
  BY <1>3, <1>4, Begins

LEMMA UpdateScheduled ==
    ASSUME Upd!SettingIsSound, UpdateInv, Upd!ScheduledUpdate PROVE UpdateInv'
<1> DEFINE offered == Upd!Offered(running)
           checked == [m EXCEPT !.phase = "idle", !.available = offered]
           manager == [checked EXCEPT !.phase = "downloading"]
<1>1. /\ Upd!Asked
      /\ UNCHANGED <<published, sick, running, tree, updateFaults, cuts>>
      /\ IF offered = None \/ ~automatic
         THEN m' = checked /\ UNCHANGED <<file, script, history>>
         ELSE /\ file' = None /\ Upd!Invoke(manager, offered, tree)
              /\ script # None => history' = Upd!Recorded("failed")
  BY DEF Upd!ScheduledUpdate, Upd!world
<1>2. /\ offered \in Releases /\ tree \in Releases /\ running # None
      /\ offered # None => offered > running
  BY <1>1, Offers DEF UpdateInv, UpdateTypes, Upd!Asked, Upd!Up
<1>3. /\ checked \in Managers /\ checked.available = offered
      /\ manager \in Managers /\ manager.phase # "idle"
  <2>1. m \in Managers /\ offered \in Releases
    BY <1>2 DEF UpdateInv, UpdateTypes
  <2> HIDE DEF offered
  <2> QED
    BY <2>1 DEF Managers, Upd!AtRest, Upd!ScriptSteps
<1> HIDE DEF offered, checked, manager
<1>4. CASE offered = None \/ ~automatic
  <2>1. m' = checked /\ UNCHANGED <<file, script, history>> /\ updateRequests' = updateRequests + 1
    BY <1>1, <1>4 DEF Upd!Asked
  <2>2. Newer'
    BY <1>1, <1>2, <1>3, <2>1 DEF Newer
  <2>3. UpdateTypes' /\ Owed'
    BY <1>1, <1>3, <2>1, Sums DEF UpdateInv, UpdateTypes, Owed, Waits, Runs
  <2>4. Spared' => OnTheWay'
    BY <1>1, <2>1 DEF UpdateInv, Spared, OnTheWay, Well
  <2> QED
    BY <2>2, <2>3, <2>4 DEF UpdateInv
<1>5. CASE offered # None /\ automatic
  <2>1. /\ file' = None /\ Upd!Invoke(manager, offered, tree)
        /\ script # None => history' = Upd!Recorded("failed")
    BY <1>1, <1>5
  <2>2. offered \in Versions
    BY <1>2, <1>5 DEF Releases
  <2>3. /\ m' \in Managers /\ m'.phase # "idle"
        /\ script = None => /\ script' \in Upd!Scripts /\ script' # None
                            /\ script'.step = "begin" /\ script'.back = tree
                            /\ script'.target \in Versions /\ history' = history
        /\ script # None => script' = script
    BY <1>2, <1>3, <2>1, <2>2, Invoked DEF UpdateInv, Upd!Targets
  <2> QED
    BY <1>1, <2>1, <2>3, Begins
<1> QED
  BY <1>4, <1>5

LEMMA UpdateRollsBack ==
    ASSUME Upd!SettingIsSound, UpdateInv, Upd!Rollback PROVE UpdateInv'
<1> DEFINE manager == [m EXCEPT !.phase = "rolling_back"]
<1>1. /\ manager \in Managers /\ manager.phase # "idle" /\ NoTag \in Upd!Targets
      /\ None \in Releases
  BY DEF UpdateInv, UpdateTypes, Managers, Upd!Rollback, Releases, Upd!Targets
<1>2. /\ Upd!Invoke(manager, NoTag, None) /\ updateRequests' = updateRequests + 1
      /\ UNCHANGED <<published, sick, running, tree, file, history, updateFaults, cuts>>
  BY DEF Upd!Rollback, Upd!Asked, Upd!world
<1> HIDE DEF manager
<1>3. /\ m' \in Managers /\ m'.phase # "idle"
      /\ script = None => /\ script' \in Upd!Scripts /\ script' # None
                          /\ script'.step = "begin" /\ script'.target = NoTag
      /\ script # None => script' = script
  BY <1>1, <1>2, Invoked DEF UpdateInv
<1>4. UpdateTypes'
  <2>1. Sent(script')
    BY <1>3 DEF UpdateInv, UpdateTypes, Sent, Preliminaries
  <2> QED
    BY <1>2, <1>3, <2>1 DEF UpdateInv, UpdateTypes
<1>5. Owed'
  BY <1>2, <1>3, Sums DEF UpdateInv, Owed, Runs
<1>6. Newer'
  BY <1>2, <1>3 DEF Newer
<1>7. Spared' => OnTheWay'
  <2>1. SUFFICES ASSUME Spared, OnTheWay PROVE OnTheWay'
    BY <1>2 DEF Spared, UpdateInv
  <2>2. CASE script = None
    BY <1>2, <1>3, <2>1, <2>2 DEF OnTheWay, Well
  <2>3. CASE script # None
    BY <1>2, <1>3, <2>1, <2>3 DEF OnTheWay, Well
  <2> QED
    BY <2>2, <2>3
<1> QED
  BY <1>4, <1>5, <1>6, <1>7 DEF UpdateInv

LEMMA UpdatePolls ==
    ASSUME Upd!SettingIsSound, UpdateInv, Upd!Poll PROVE UpdateInv'
<1>1. /\ m' = Upd!Adopted(m, file) /\ file' = Upd!Consumed(file) /\ running # None
      /\ file # None /\ m.phase # "idle"
      /\ history' = IF file.phase \in Upd!Terminal
                    THEN Upd!Recorded(IF file.phase = "done" THEN "ok" ELSE "failed")
                    ELSE history
      /\ UNCHANGED <<published, sick, running, tree, script, updateRequests, updateFaults, cuts>>
  BY DEF Upd!Poll, Upd!Adopt, Upd!Up, Upd!world
<1>2. /\ m' \in Managers /\ m'.phase # "idle"
      /\ file' \in Upd!Statuses \cup {None} /\ Waits(file') = 0
  BY <1>1, Adopts DEF UpdateInv, UpdateTypes
<1>3. /\ history' \in [{"ok", "failed"} -> Nat]
      /\ history'["ok"] + history'["failed"] = history["ok"] + history["failed"] + Waits(file)
  <2>1. CASE file.phase \in Upd!Terminal
    <3> DEFINE result == IF file.phase = "done" THEN "ok" ELSE "failed"
    <3>1. result \in {"ok", "failed"} /\ history' = Upd!Recorded(result) /\ Waits(file) = 1
      BY <1>1, <2>1 DEF Waits
    <3> HIDE DEF result
    <3> QED
      BY <3>1, Counts DEF UpdateInv, UpdateTypes
  <2>2. CASE file.phase \notin Upd!Terminal
    BY <1>1, <2>2, Sums DEF UpdateInv, UpdateTypes, Waits
  <2> QED
    BY <2>1, <2>2
<1>4. UpdateTypes'
  BY <1>1, <1>2, <1>3 DEF UpdateInv, UpdateTypes
<1>5. Owed'
  <2>1. history'["ok"] \in Nat /\ history'["failed"] \in Nat /\ Runs(script') = Runs(script)
    BY <1>1, <1>3
  <2> QED
    BY <1>1, <1>2, <1>3, <2>1, Sums DEF UpdateInv, Owed
<1>6. Newer'
  BY <1>2 DEF Newer
<1>7. Spared' => OnTheWay'
  BY <1>1 DEF UpdateInv, Spared, OnTheWay, Well
<1> QED
  BY <1>4, <1>5, <1>6, <1>7 DEF UpdateInv
(* A report moves one from what runs to what waits, and no more.           *)
LEMMA ReportCounts ==
    ASSUME Upd!SettingIsSound, UpdateInv, script # None, m' = m, running' = running,
           history' = history, updateRequests' = updateRequests, published' = published,
           sick' = sick, updateFaults' \in Nat, tree' \in Releases,
           file' \in Upd!Statuses \cup {None}, script' \in Upd!Scripts \cup {None},
           Waits(file') + Runs(script') = 1, Sent(script')
    PROVE  UpdateTypes' /\ Newer' /\ Owed'
<1>1. UpdateTypes'
  BY DEF UpdateInv, UpdateTypes
<1>2. Newer'
  BY DEF UpdateInv, Newer
<1>3. Runs(script) = 1
  BY DEF Runs
<1>4. Owed'
  <2>1. /\ history["ok"] + history["failed"] + Waits(file) + Runs(script) <= updateRequests
        /\ history["ok"] \in Nat /\ history["failed"] \in Nat /\ updateRequests \in Nat
        /\ Waits(file) \in {0, 1} /\ Waits(file') \in {0, 1} /\ Runs(script') \in {0, 1}
    BY Sums DEF UpdateInv, Owed
  <2>2. history["ok"] + history["failed"] + Waits(file') + Runs(script') <= updateRequests
    BY <1>3, <2>1
  <2> QED
    BY <2>2 DEF Owed
<1> QED
  BY <1>1, <1>2, <1>4

(* Faults only add up, and what was spared till now is spared no less.     *)
LEMMA StillSpared ==
    ASSUME UpdateInv, UNCHANGED <<sick, cuts>>,
           UNCHANGED updateFaults \/ updateFaults' = updateFaults + 1, Spared'
    PROVE  OnTheWay /\ (updateFaults' = updateFaults + 1 => updateFaults + Cardinality(sick) < 1)
<1>1. /\ cuts' = 0 /\ updateFaults' + Cardinality(sick') < 2
      /\ cuts' = cuts /\ Cardinality(sick') = Cardinality(sick)
  BY DEF Spared
<1>2. updateFaults \in Nat /\ Cardinality(sick) \in Nat
  BY Sums DEF UpdateInv
<1>3. updateFaults + Cardinality(sick) < 2
  BY <1>1, <1>2
<1>4. Spared
  BY <1>1, <1>3 DEF Spared
<1> QED
  BY <1>1, <1>2, <1>4 DEF UpdateInv

(* A script that gives up: to its way back if it has one.                  *)
LEMMA GivesUp ==
    ASSUME Upd!SettingIsSound, UpdateTypes, script # None, Upd!Fail
    PROVE  /\ file' \in Upd!Statuses /\ script' \in Upd!Scripts \cup {None}
           /\ Waits(file') + Runs(script') = 1
           /\ UNCHANGED <<running, m, history>>
           /\ script' # None => script'.target = script.target
           /\ script.back # None => /\ script' # None /\ script'.step = "rolling_back"
                                    /\ script'.back = script.back
<1>1. CASE script.back = None
  BY <1>1, Reported DEF Upd!Fail
<1>2. CASE script.back # None
  <2>1. "rolling_back" \in Upd!ScriptSteps \ {"begin", "restarted", "restored"}
    BY DEF Upd!ScriptSteps
  <2>2. Upd!Report("rolling_back")
    BY <1>2 DEF Upd!Fail
  <2> QED
    BY <1>2, <2>1, <2>2, StepsOn
<1> QED
  BY <1>1, <1>2

(* A script past its checks knows its release.                             *)
LEMMA Builder ==
    ASSUME Upd!SettingIsSound, UpdateTypes, script # None, script.step \notin Preliminaries
    PROVE  script.target \in Versions /\ script.target # NoTag
BY DEF Upd!SettingIsSound, UpdateTypes, Sent

LEMMA UpdateReads ==
    ASSUME Upd!SettingIsSound, UpdateInv, Upd!Reads PROVE UpdateInv'
<1>1. /\ script # None /\ UNCHANGED <<published, sick, tree, updateRequests, cuts>>
      /\ script.step \in {"begin", "downloading", "verifying", "installing"}
      /\ script \in Upd!Scripts /\ UpdateTypes /\ tree' \in Releases
  BY DEF Upd!Reads, Upd!At, Upd!scriptFrame, Upd!world, UpdateInv, UpdateTypes
<1>2. CASE Upd!Report("failed") /\ (Upd!Fault \/ UNCHANGED updateFaults)
  <2>1. /\ file' \in Upd!Statuses /\ script' = None /\ Waits(file') + Runs(script') = 1
        /\ UNCHANGED <<running, m, history>>
    BY <1>1, <1>2, Reported
  <2>2. /\ updateFaults' = updateFaults + 1 \/ UNCHANGED updateFaults
        /\ updateFaults' \in Nat /\ Sent(script')
    BY <1>1, <1>2, <2>1, Sums DEF Upd!Fault, Sent
  <2>3. Spared' => OnTheWay'
    <3>1. SUFFICES ASSUME Spared' PROVE OnTheWay'
      OBVIOUS
    <3>2. OnTheWay
      BY <1>1, <1>2, <2>2, <3>1, StillSpared
    <3> QED
      BY <1>1, <1>2, <2>1, <2>2, <3>2 DEF OnTheWay, Well
  <2> QED
    BY <1>1, <2>1, <2>2, <2>3, ReportCounts DEF UpdateInv
<1>3. ASSUME NEW step \in {"downloading", "verifying", "installing"},
             step = "installing" => script.target # NoTag,
             Upd!Report(step), UNCHANGED updateFaults
      PROVE  UpdateInv'
  <2>1. step \in Upd!ScriptSteps \ {"begin", "restarted", "restored"}
    BY <1>3 DEF Upd!ScriptSteps
  <2>2. /\ file' \in Upd!Statuses /\ script' \in Upd!Scripts /\ script' # None
        /\ script'.step = step /\ script'.back = script.back /\ script'.target = script.target
        /\ Waits(file') + Runs(script') = 1 /\ UNCHANGED <<running, m, history>>
    BY <1>1, <1>3, <2>1, StepsOn
  <2>3. updateFaults' \in Nat
    BY <1>1, <1>3, Sums
  <2>4. Sent(script')
    <3>1. script.target \in Versions \cup {NoTag}
      BY <1>1 DEF Upd!Scripts, Upd!Targets
    <3> QED
      BY <1>3, <2>2, <3>1 DEF Sent, Preliminaries
  <2>5. Spared' => OnTheWay'
    <3>1. SUFFICES ASSUME Spared' PROVE OnTheWay'
      OBVIOUS
    <3>2. OnTheWay
      BY <1>1, <1>3, <3>1, StillSpared
    <3> QED
      BY <1>1, <1>3, <2>2, <3>2 DEF OnTheWay, Well
  <2> QED
    BY <1>1, <2>2, <2>3, <2>4, <2>5, ReportCounts DEF UpdateInv
<1> QED
  BY <1>2, <1>3 DEF Upd!Reads, Upd!At, Upd!Known

LEMMA UpdateBuilds ==
    ASSUME Upd!SettingIsSound, UpdateInv, Upd!Builds PROVE UpdateInv'
<1>1. /\ script # None /\ script.step = "installing" /\ UpdateTypes /\ script \in Upd!Scripts
      /\ UNCHANGED <<published, sick, updateRequests, cuts>>
      /\ script.target \in Versions /\ script.target # NoTag
  BY Builder DEF Upd!Builds, Upd!At, Upd!scriptFrame, Upd!world, UpdateInv, UpdateTypes, Preliminaries
<1>2. CASE tree' = script.target /\ Upd!Report("restarting") /\ UNCHANGED updateFaults
  <2>1. "restarting" \in Upd!ScriptSteps \ {"begin", "restarted", "restored"}
    BY DEF Upd!ScriptSteps
  <2>2. /\ file' \in Upd!Statuses /\ script' \in Upd!Scripts /\ script' # None
        /\ script'.step = "restarting" /\ script'.back = script.back
        /\ script'.target = script.target /\ Waits(file') + Runs(script') = 1 /\ UNCHANGED <<running, m, history>>
    BY <1>1, <1>2, <2>1, StepsOn
  <2>3. tree' \in Versions /\ tree' \in Releases /\ updateFaults' \in Nat
    BY <1>1, <1>2, Sums DEF Upd!Scripts, Releases
  <2>4. Spared' => OnTheWay'
    <3>1. SUFFICES ASSUME Spared' PROVE OnTheWay'
      OBVIOUS
    <3>2. OnTheWay
      BY <1>1, <1>2, <3>1, StillSpared
    <3> QED
      BY <1>1, <1>2, <2>2, <2>3, <3>2 DEF OnTheWay, Well
  <2> QED
    BY <1>1, <2>2, <2>3, <2>4, ReportCounts DEF UpdateInv, Sent
<1>3. CASE tree' = None /\ Upd!Fail /\ Upd!Fault
  <2>1. /\ file' \in Upd!Statuses /\ script' \in Upd!Scripts \cup {None}
        /\ Waits(file') + Runs(script') = 1 /\ UNCHANGED <<running, m, history>>
        /\ script' # None => script'.target = script.target
        /\ script.back # None => /\ script' # None /\ script'.step = "rolling_back"
                                 /\ script'.back = script.back
    BY <1>1, <1>3, GivesUp
  <2>2. updateFaults' = updateFaults + 1 /\ updateFaults' \in Nat /\ tree' \in Releases
    BY <1>1, <1>3, Sums DEF Upd!Fault, Releases
  <2>3. Spared' => OnTheWay'
    <3>1. SUFFICES ASSUME Spared' PROVE OnTheWay'
      OBVIOUS
    <3>2. Well(script.back) /\ updateFaults' + Cardinality(sick') >= 1
      BY <1>1, <2>2, <3>1, StillSpared, Sums DEF OnTheWay
    <3>3. script.back # None
      BY <3>2 DEF Well, Upd!SettingIsSound
    <3> QED
      BY <1>1, <2>1, <3>2, <3>3 DEF OnTheWay, Well
  <2> QED
    BY <1>1, <2>1, <2>2, <2>3, ReportCounts DEF UpdateInv, Sent
<1> QED
  BY <1>2, <1>3 DEF Upd!Builds

LEMMA UpdateGate ==
    ASSUME Upd!SettingIsSound, UpdateInv, Upd!Gate PROVE UpdateInv'
<1>1. /\ script # None /\ UNCHANGED <<published, sick, tree, updateRequests, cuts>>
      /\ script.step \in {"restarted", "health_gate"}
      /\ UpdateTypes /\ tree' \in Releases
      /\ script.target \in Versions /\ script.target # NoTag
  BY Builder DEF Upd!Gate, Upd!At, Upd!scriptFrame, Upd!world, UpdateInv, UpdateTypes, Preliminaries
<1>2. CASE Upd!Report("health_gate") /\ UNCHANGED updateFaults
  <2>1. "health_gate" \in Upd!ScriptSteps \ {"begin", "restarted", "restored"}
    BY DEF Upd!ScriptSteps
  <2>2. /\ file' \in Upd!Statuses /\ script' \in Upd!Scripts /\ script' # None
        /\ script'.step = "health_gate" /\ script'.back = script.back
        /\ script'.target = script.target /\ Waits(file') + Runs(script') = 1 /\ UNCHANGED <<running, m, history>>
    BY <1>1, <1>2, <2>1, StepsOn
  <2>3. updateFaults' \in Nat
    BY <1>1, <1>2, Sums
  <2>4. Spared' => OnTheWay'
    <3>1. SUFFICES ASSUME Spared' PROVE OnTheWay'
      OBVIOUS
    <3>2. OnTheWay
      BY <1>1, <1>2, <3>1, StillSpared
    <3> QED
      BY <1>1, <1>2, <2>2, <3>2 DEF OnTheWay, Well
  <2> QED
    BY <1>1, <2>2, <2>3, <2>4, ReportCounts DEF UpdateInv, Sent
<1>3. CASE tree \notin sick /\ Upd!Report("done") /\ UNCHANGED updateFaults
  <2>1. /\ file' \in Upd!Statuses /\ script' = None /\ Waits(file') + Runs(script') = 1
        /\ UNCHANGED <<running, m, history>>
    BY <1>1, <1>3, Reported
  <2>2. updateFaults' \in Nat
    BY <1>1, <1>3, Sums
  <2>3. Spared' => OnTheWay'
    <3>1. SUFFICES ASSUME Spared' PROVE OnTheWay'
      OBVIOUS
    <3>2. OnTheWay
      BY <1>1, <1>3, <2>2, <3>1, StillSpared
    <3> QED
      BY <1>1, <1>3, <2>1, <3>2 DEF OnTheWay, Well
  <2> QED
    BY <1>1, <2>1, <2>2, <2>3, ReportCounts DEF UpdateInv, Sent
<1>4. CASE /\ Upd!Fail
           /\ \/ tree \in sick /\ UNCHANGED updateFaults
              \/ Upd!Fault
  <2>1. /\ file' \in Upd!Statuses /\ script' \in Upd!Scripts \cup {None}
        /\ Waits(file') + Runs(script') = 1 /\ UNCHANGED <<running, m, history>>
        /\ script' # None => script'.target = script.target
        /\ script.back # None => /\ script' # None /\ script'.step = "rolling_back"
                                 /\ script'.back = script.back
    BY <1>1, <1>4, GivesUp
  <2>2. /\ updateFaults' \in Nat /\ updateFaults' + Cardinality(sick') >= 1
        /\ UNCHANGED updateFaults \/ updateFaults' = updateFaults + 1
    <3>1. CASE tree \in sick /\ UNCHANGED updateFaults
      <4>1. Cardinality(sick) >= 1
        BY <3>1 DEF UpdateInv, UpdateTypes
      <4> QED
        BY <1>1, <3>1, <4>1, Sums
    <3>2. CASE Upd!Fault
      BY <1>1, <3>2, Sums DEF Upd!Fault
    <3> QED
      BY <1>4, <3>1, <3>2
  <2>3. Spared' => OnTheWay'
    <3>1. SUFFICES ASSUME Spared' PROVE OnTheWay'
      OBVIOUS
    <3>2. Well(script.back)
      BY <1>1, <2>2, <3>1, StillSpared DEF OnTheWay
    <3>3. script.back # None
      BY <3>2 DEF Well, Upd!SettingIsSound
    <3> QED
      BY <1>1, <2>1, <2>2, <3>2, <3>3 DEF OnTheWay, Well
  <2> QED
    BY <1>1, <2>1, <2>2, <2>3, ReportCounts DEF UpdateInv, Sent
<1> QED
  BY <1>2, <1>3, <1>4 DEF Upd!Gate
(* A restart moves what waits into the history; the script may go with it. *)
LEMMA RestartCounts ==
    ASSUME Upd!SettingIsSound, UpdateInv, NEW version \in Releases, Upd!RestartAs(version, file),
           UNCHANGED <<published, sick, updateRequests, updateFaults>>, tree' \in Releases,
           script' \in Upd!Scripts \cup {None}, script' # None => script # None, Sent(script')
    PROVE  UpdateTypes' /\ Newer' /\ Owed' /\ running' = version
<1>1. UpdateTypes
  BY DEF UpdateInv
<1>2. /\ m' \in Managers /\ m'.available = None /\ running' = version
      /\ file' \in Upd!Statuses \cup {None} /\ history' \in [{"ok", "failed"} -> Nat]
      /\ history'["ok"] + history'["failed"] + Waits(file')
           = history["ok"] + history["failed"] + Waits(file)
  BY <1>1, ComesBack
<1>3. UpdateTypes' /\ Newer'
  BY <1>1, <1>2 DEF UpdateTypes, Newer
<1>4. Owed'
  <2>1. /\ Runs(script') <= Runs(script) /\ history'["ok"] \in Nat /\ history'["failed"] \in Nat
        /\ Waits(file') \in {0, 1} /\ Waits(file) \in {0, 1}
        /\ Runs(script') \in {0, 1} /\ Runs(script) \in {0, 1}
    BY <1>2 DEF Runs, Waits
  <2>2. history["ok"] + history["failed"] + Waits(file) + Runs(script) <= updateRequests
    BY DEF UpdateInv, Owed
  <2>3. history'["ok"] + history'["failed"] + Waits(file') + Runs(script') <= updateRequests
    BY <1>1, <1>2, <2>1, <2>2, Sums
  <2> QED
    BY <2>3 DEF Owed
<1> QED
  BY <1>2, <1>3, <1>4

LEMMA UpdateRestarts ==
    ASSUME Upd!SettingIsSound, UpdateInv, Upd!Restarts PROVE UpdateInv'
<1>1. /\ script # None /\ script.step = "restarting" /\ script \in Upd!Scripts
      /\ script' = [script EXCEPT !.step = "restarted"] /\ Upd!RestartAs(tree, file)
      /\ UNCHANGED <<published, sick, tree, updateRequests, updateFaults, cuts>>
      /\ tree \in Releases /\ script.target \in Versions /\ script.target # NoTag
  BY Builder DEF Upd!Restarts, Upd!At, Upd!scriptFrame, Upd!world, UpdateInv, UpdateTypes, Preliminaries
<1>2. /\ script' \in Upd!Scripts /\ script'.step = "restarted" /\ script'.back = script.back
      /\ script' # None /\ script'.target = script.target /\ Sent(script')
  BY <1>1 DEF Upd!Scripts, Upd!ScriptSteps, Upd!SettingIsSound, Sent
<1>3. UpdateTypes' /\ Newer' /\ Owed' /\ running' = tree
  BY <1>1, <1>2, RestartCounts
<1>4. Spared' => OnTheWay'
  <2>1. SUFFICES ASSUME Spared' PROVE OnTheWay'
    OBVIOUS
  <2>2. OnTheWay
    BY <1>1, <2>1, StillSpared
  <2> QED
    BY <1>1, <1>2, <1>3, <2>2 DEF OnTheWay, Well
<1> QED
  BY <1>3, <1>4 DEF UpdateInv

LEMMA UpdateRestores ==
    ASSUME Upd!SettingIsSound, UpdateInv, Upd!Restores PROVE UpdateInv'
<1>1. /\ script # None /\ script.step = "rolling_back" /\ script \in Upd!Scripts
      /\ UNCHANGED <<published, sick, updateRequests, cuts>> /\ UpdateTypes
      /\ script.target \in Versions /\ script.target # NoTag
  BY Builder DEF Upd!Restores, Upd!At, Upd!scriptFrame, Upd!world, UpdateInv, UpdateTypes, Preliminaries
<1>2. CASE /\ tree' = script.back /\ script' = [script EXCEPT !.step = "restored"]
           /\ Upd!RestartAs(script.back, file) /\ UNCHANGED updateFaults
  <2>1. /\ script' \in Upd!Scripts /\ script'.step = "restored" /\ script'.back = script.back
        /\ script' # None /\ script.back \in Releases
        /\ script'.target = script.target /\ Sent(script')
    BY <1>1, <1>2 DEF Upd!Scripts, Upd!ScriptSteps, Upd!SettingIsSound, Releases, Sent
  <2>2. UpdateTypes' /\ Newer' /\ Owed' /\ running' = script.back
    BY <1>1, <1>2, <2>1, RestartCounts
  <2>3. Spared' => OnTheWay'
    <3>1. SUFFICES ASSUME Spared' PROVE OnTheWay'
      OBVIOUS
    <3>2. OnTheWay
      BY <1>1, <1>2, <3>1, StillSpared
    <3> QED
      BY <1>1, <1>2, <2>1, <2>2, <3>2 DEF OnTheWay, Well
  <2> QED
    BY <2>2, <2>3 DEF UpdateInv
<1>3. CASE tree' = None /\ Upd!Report("failed") /\ Upd!Fault
  <2>1. /\ file' \in Upd!Statuses /\ script' = None /\ Waits(file') + Runs(script') = 1
        /\ UNCHANGED <<running, m, history>>
    BY <1>1, <1>3, Reported
  <2>2. updateFaults' = updateFaults + 1 /\ updateFaults' \in Nat /\ tree' \in Releases
    BY <1>1, <1>3, Sums DEF Upd!Fault, Releases
  <2>3. ~Spared'
    <3>1. SUFFICES ASSUME Spared' PROVE FALSE
      OBVIOUS
    <3>2. OnTheWay /\ updateFaults + Cardinality(sick) < 1
      BY <1>1, <2>2, <3>1, StillSpared
    <3> QED
      BY <1>1, <3>2, Sums DEF OnTheWay
  <2> QED
    BY <1>1, <2>1, <2>2, <2>3, ReportCounts DEF UpdateInv, Sent
<1> QED
  BY <1>2, <1>3 DEF Upd!Restores

LEMMA UpdateRestored ==
    ASSUME Upd!SettingIsSound, UpdateInv, Upd!Restored PROVE UpdateInv'
<1>1. /\ script # None /\ script.step = "restored" /\ Upd!Report("failed") /\ UpdateTypes
      /\ UNCHANGED <<published, sick, tree, updateRequests, updateFaults, cuts>>
      /\ tree' \in Releases /\ script.target # NoTag
  BY Builder DEF Upd!Restored, Upd!At, Upd!scriptFrame, Upd!world, UpdateInv, UpdateTypes, Preliminaries
<1>2. /\ file' \in Upd!Statuses /\ script' = None /\ Waits(file') + Runs(script') = 1
      /\ UNCHANGED <<running, m, history>> /\ updateFaults' \in Nat
  BY <1>1, Reported, Sums
<1>3. Spared' => OnTheWay'
  <2>1. SUFFICES ASSUME Spared' PROVE OnTheWay'
    OBVIOUS
  <2>2. OnTheWay
    BY <1>1, <2>1, StillSpared
  <2> QED
    BY <1>1, <1>2, <2>2 DEF OnTheWay, Well
<1> QED
  BY <1>1, <1>2, <1>3, ReportCounts DEF UpdateInv, Sent

LEMMA UpdatePowerCut ==
    ASSUME Upd!SettingIsSound, UpdateInv, Upd!PowerCut, cuts \in Nat PROVE UpdateInv'
<1>1. /\ script' = None /\ Upd!RestartAs(tree, file) /\ cuts' = cuts + 1 /\ tree \in Releases
      /\ UNCHANGED <<published, sick, tree, updateRequests, updateFaults>>
  BY DEF Upd!PowerCut, Upd!world, UpdateInv, UpdateTypes
<1>2. UpdateTypes' /\ Newer' /\ Owed'
  BY <1>1, RestartCounts DEF Sent
<1>3. ~Spared'
  BY <1>1 DEF Spared
<1> QED
  BY <1>2, <1>3 DEF UpdateInv

LEMMA UpdateNext ==
    ASSUME Upd!SettingIsSound, UpdateInv /\ cuts \in Nat, [Upd!Next]_(Upd!updateVars)
    PROVE  (UpdateInv /\ cuts \in Nat)'
<1>1. CASE UNCHANGED Upd!updateVars
  BY <1>1 DEF Upd!updateVars, UpdateInv, UpdateTypes, Newer, Owed, Waits, Runs, Spared,
              OnTheWay, Well
<1>2. CASE Upd!Next
  <2>1. UpdateInv'
    BY <1>2, UpdateChecks, UpdateApplies, UpdateScheduled, UpdateRollsBack, UpdatePolls,
       UpdateReads, UpdateBuilds, UpdateRestarts, UpdateGate, UpdateRestores, UpdateRestored,
       UpdatePowerCut DEF Upd!Next, Upd!Script
  <2>2. cuts' \in Nat
    BY <1>2 DEF Upd!Next, Upd!Script, Upd!StartCheck, Upd!EndCheck, Upd!Apply,
       Upd!ScheduledUpdate, Upd!Rollback, Upd!Poll, Upd!Reads, Upd!Builds, Upd!Restarts,
       Upd!Gate, Upd!Restores, Upd!Restored, Upd!PowerCut, Upd!scriptFrame
  <2> QED
    BY <2>1, <2>2
<1> QED
  BY <1>1, <1>2

(* However often updates are asked for, refused, fail, go back and are cut *)
(* off: what has come to its end runs what is built, and it is healthy;    *)
(* an offer is newer than what runs; no end is in the history twice.       *)
THEOREM UpdatesHold ==
    ASSUME Upd!SettingIsSound
    PROVE  Upd!Init /\ [][Upd!Next]_(Upd!updateVars) => []Upd!UpdatesEndWell
<1>1. UpdateInv => Upd!UpdatesEndWell
  <2> SUFFICES ASSUME UpdateInv PROVE Upd!UpdatesEndWell
    OBVIOUS
  <2>1. Upd!EndsOnARelease
    <3>1. SUFFICES ASSUME script = None, Spared
                   PROVE  running # None /\ running = tree /\ running \notin sick
      BY DEF Upd!EndsOnARelease, Spared, Upd!Cardinality, Cardinality
    <3>2. Well(running) /\ tree = running
      BY <3>1 DEF UpdateInv, OnTheWay
    <3> QED
      BY <3>2 DEF Well, Upd!SettingIsSound
  <2>2. Upd!OfferedIsNewer
    BY DEF UpdateInv, Newer, Upd!OfferedIsNewer, Upd!Up
  <2>3. Upd!RecordedOnce
    BY Sums DEF UpdateInv, Owed, Upd!RecordedOnce
  <2> QED
    BY <2>1, <2>2, <2>3 DEF Upd!UpdatesEndWell
<1>2. Upd!Init => UpdateInv /\ cuts \in Nat
  <2>1. Upd!Init => cuts \in Nat
    BY DEF Upd!Init
  <2> QED
    BY <2>1, UpdateInit
<1>3. UpdateInv /\ cuts \in Nat /\ [Upd!Next]_(Upd!updateVars) => (UpdateInv /\ cuts \in Nat)'
  BY UpdateNext
<1> QED
  BY <1>1, <1>2, <1>3, PTL

-----------------------------------------------------------------------------
(* The certificate.  A save writes a pair that loads, and the listener     *)
(* serves it already; between saves the files are what it serves, and a    *)
(* certificate the appliance made has the names, unless a reissue is due.  *)

Spoken(c) == c.subject = Cert!CommonName /\ {Cert!CommonName, host} \subseteq c.names
SpokenIfOurs(c) == c.by = "appliance" => Spoken(c)

CertTypes ==
    /\ host \in Hosts /\ address \in HostAddresses /\ wanted \in {None, "published"}
    /\ live \in Cert!Materials /\ disk \in Cert!Materials /\ serial \in Nat
    /\ saving \in Cert!Saves \cup {None} /\ reissue \in (SUBSET Cert!Names) \cup {None}
    /\ listener \in {"down", "ensuring", "up", "failed"}

Served ==
    /\ listener = "up" => Cert!Loads(live)
    /\ listener # "up" => live = Cert!NoMaterial
    /\ listener = "failed" => broken
    /\ listener = "ensuring" => saving # None

Rested ==
    saving = None /\ ~broken =>
      /\ listener = "up" => live = disk
      /\ disk # Cert!NoMaterial => Cert!Loads(disk)
      /\ listener = "up" /\ reissue = None => SpokenIfOurs(live.cert)

Saving ==
    saving # None =>
      /\ saving.at \in 1..4 /\ Cert!Loads(saving.material)
      /\ listener = "up" => live = saving.material /\ SpokenIfOurs(saving.material.cert)
      /\ saving.at > 1 => disk.cert = saving.material.cert
      /\ saving.at > 2 => disk.key = saving.material.key
      /\ saving.at > 3 => disk.chain = saving.material.chain

\* on whose behalf the first of the files is about to be replaced
Purposeful ==
    /\ listener = "up" => disk.key # None
    /\ disk.cert \in Cert!Issued /\ ~disk.cert.own => disk.key # None
    /\ saving # None =>
         /\ listener = (IF saving.who = "start" THEN "ensuring" ELSE "up")
         /\ saving.who = "start" => saving.material.cert.own
         /\ saving.at = 1 /\ saving.who = "start" => ~Cert!Present
         /\ saving.at = 1 /\ saving.who = "reissue" => disk.cert \in Cert!Issued /\ disk.cert.own

CertInv == CertTypes /\ Served /\ Rested /\ Saving /\ Purposeful

LEMMA CertInit == ASSUME Cert!MarkersAreApart PROVE Cert!Init => CertInv
<1> SUFFICES ASSUME Cert!Init PROVE CertInv
  OBVIOUS
<1>1. Cert!NoMaterial \in Cert!Materials
  BY DEF Cert!NoMaterial, Cert!Materials
<1> QED
  BY <1>1 DEF Cert!Init, CertInv, CertTypes, Served, Rested, Saving, Purposeful, Cert!NoMaterial,
       Cert!MarkersAreApart

(* What the appliance makes of its names.                                  *)
LEMMA SelfSignedIsSound ==
    ASSUME Cert!MarkersAreApart, CertTypes, NEW names \in SUBSET Cert!Names
    PROVE  LET pair == Cert!Pair(Cert!SelfSigned(names), FALSE)
           IN  /\ pair \in Cert!Materials /\ Cert!Loads(pair) /\ pair.cert.own
               /\ pair.cert.by = "appliance" /\ names \subseteq pair.cert.names
               /\ {Cert!CommonName, host} \subseteq names => Spoken(pair.cert)
<1> DEFINE c == Cert!SelfSigned(names)
           pair == Cert!Pair(c, FALSE)
<1>1. Cert!CommonName \in Cert!Names /\ address \in Cert!Names /\ host \in Cert!Names
  BY DEF CertTypes, Cert!CommonName, Cert!Names
<1>2. names \cup {Cert!CommonName, address} \in SUBSET Cert!Names
  BY <1>1
<1>3. c = [serial |-> serial + 1, subject |-> Cert!CommonName, own |-> TRUE, by |-> "appliance",
           names |-> names \cup {Cert!CommonName, address}]
  BY DEF Cert!SelfSigned
<1>4. c \in Cert!Issued /\ c.serial \in Nat /\ c.own /\ c.by = "appliance"
      /\ c.subject = Cert!CommonName /\ c.names = names \cup {Cert!CommonName, address}
  BY <1>1, <1>2, <1>3 DEF CertTypes, Cert!Issued
<1> HIDE DEF c
<1>5. pair = [cert |-> c, key |-> c.serial, chain |-> None]
  BY DEF Cert!Pair
<1> HIDE DEF pair
<1>6. pair \in Cert!Materials /\ Cert!Loads(pair) /\ pair.cert = c
  <2>1. pair.cert = c /\ pair.key = c.serial
    BY <1>5
  <2>2. pair \in Cert!Materials
    BY <1>4, <1>5 DEF Cert!Materials
  <2>3. c # None /\ c # Torn
    BY <1>4 DEF Cert!MarkersAreApart
  <2> QED
    BY <2>1, <2>2, <2>3 DEF Cert!Loads
<1>7. names \subseteq c.names /\ ({Cert!CommonName, host} \subseteq names => Spoken(c))
  BY <1>4 DEF Spoken
<1>8. /\ pair \in Cert!Materials /\ Cert!Loads(pair) /\ pair.cert.own
      /\ pair.cert.by = "appliance" /\ names \subseteq pair.cert.names
      /\ {Cert!CommonName, host} \subseteq names => Spoken(pair.cert)
  BY <1>4, <1>6, <1>7
<1> QED
  BY <1>8 DEF pair, c

(* What replacing the file a save is at makes of the three.                *)
LEMMA OneFile ==
    ASSUME disk \in Cert!Materials, saving \in Cert!Saves, saving.at \in DOMAIN Cert!Steps, NEW v
    PROVE  /\ saving.at \in 1..3
           /\ [disk EXCEPT ![Cert!Steps[saving.at]] = v] =
                [cert  |-> IF saving.at = 1 THEN v ELSE disk.cert,
                 key   |-> IF saving.at = 2 THEN v ELSE disk.key,
                 chain |-> IF saving.at = 3 THEN v ELSE disk.chain]
<1>1. /\ DOMAIN Cert!Steps = 1..3
      /\ Cert!Steps[1] = "cert" /\ Cert!Steps[2] = "key" /\ Cert!Steps[3] = "chain"
  BY DEF Cert!Steps
<1>2. /\ disk = [cert |-> disk.cert, key |-> disk.key, chain |-> disk.chain]
      /\ saving.at = 1 \/ saving.at = 2 \/ saving.at = 3
  BY <1>1 DEF Cert!Materials
<1>3. /\ [disk EXCEPT !["cert"] = v] = [cert |-> v, key |-> disk.key, chain |-> disk.chain]
      /\ [disk EXCEPT !["key"] = v] = [cert |-> disk.cert, key |-> v, chain |-> disk.chain]
      /\ [disk EXCEPT !["chain"] = v] = [cert |-> disk.cert, key |-> disk.key, chain |-> v]
  <2>1. disk \in [cert : {disk.cert}, key : {disk.key}, chain : {disk.chain}]
    BY <1>2
  <2>2. [disk EXCEPT !["cert"] = v] \in [cert : {v}, key : {disk.key}, chain : {disk.chain}]
    BY <2>1
  <2>3. [disk EXCEPT !["key"] = v] \in [cert : {disk.cert}, key : {v}, chain : {disk.chain}]
    BY <2>1
  <2>4. [disk EXCEPT !["chain"] = v] \in [cert : {disk.cert}, key : {disk.key}, chain : {v}]
    BY <2>1
  <2>5. ASSUME NEW a, NEW b, NEW c, NEW r \in [cert : {a}, key : {b}, chain : {c}]
        PROVE  r = [cert |-> a, key |-> b, chain |-> c]
    OBVIOUS
  <2>6. [disk EXCEPT !["cert"] = v] = [cert |-> v, key |-> disk.key, chain |-> disk.chain]
    BY <2>2, <2>5
  <2>7. [disk EXCEPT !["key"] = v] = [cert |-> disk.cert, key |-> v, chain |-> disk.chain]
    BY <2>3, <2>5
  <2>8. [disk EXCEPT !["chain"] = v] = [cert |-> disk.cert, key |-> disk.key, chain |-> v]
    BY <2>4, <2>5
  <2> QED
    BY <2>6, <2>7, <2>8
<1> DEFINE rest(i) == [cert  |-> IF i = 1 THEN v ELSE disk.cert,
                       key   |-> IF i = 2 THEN v ELSE disk.key,
                       chain |-> IF i = 3 THEN v ELSE disk.chain]
<1>4. /\ rest(1) = [cert |-> v, key |-> disk.key, chain |-> disk.chain]
      /\ rest(2) = [cert |-> disk.cert, key |-> v, chain |-> disk.chain]
      /\ rest(3) = [cert |-> disk.cert, key |-> disk.key, chain |-> v]
  OBVIOUS
<1>5. [disk EXCEPT ![Cert!Steps[saving.at]] = v] = rest(saving.at)
  <2> HIDE DEF rest
  <2>1. CASE saving.at = 1
    BY <1>1, <1>3, <1>4, <2>1
  <2>2. CASE saving.at = 2
    BY <1>1, <1>3, <1>4, <2>2
  <2>3. CASE saving.at = 3
    BY <1>1, <1>3, <1>4, <2>3
  <2> QED
    BY <1>2, <2>1, <2>2, <2>3
<1> QED
  BY <1>1, <1>5

LEMMA CertWrites ==
    ASSUME Cert!MarkersAreApart, CertInv, Cert!WriteFile PROVE CertInv' /\ Cert!ReplacedOnPurpose
<1> DEFINE m0 == saving.material
           v == m0[Cert!Steps[saving.at]]
<1>1. /\ saving \in Cert!Saves /\ saving # None /\ m0 \in Cert!Materials
      /\ saving.at \in DOMAIN Cert!Steps /\ disk' = [disk EXCEPT ![Cert!Steps[saving.at]] = v]
      /\ saving' = [saving EXCEPT !.at = saving.at + 1]
      /\ UNCHANGED <<host, address, wanted, listener, live, reissue, serial, broken>>
      /\ CertTypes /\ Cert!Loads(m0)
  BY DEF Cert!WriteFile, CertInv, CertTypes, Saving, Cert!Saves
<1>2. /\ saving.at \in 1..3
      /\ disk' = [cert  |-> IF saving.at = 1 THEN m0.cert ELSE disk.cert,
                  key   |-> IF saving.at = 2 THEN m0.key ELSE disk.key,
                  chain |-> IF saving.at = 3 THEN m0.chain ELSE disk.chain]
  <2>1. Cert!Steps[1] = "cert" /\ Cert!Steps[2] = "key" /\ Cert!Steps[3] = "chain"
    BY DEF Cert!Steps
  <2>2. /\ saving.at \in 1..3
        /\ disk' = [cert  |-> IF saving.at = 1 THEN v ELSE disk.cert,
                    key   |-> IF saving.at = 2 THEN v ELSE disk.key,
                    chain |-> IF saving.at = 3 THEN v ELSE disk.chain]
    BY <1>1, OneFile DEF CertTypes
  <2> QED
    BY <2>1, <2>2
<1>3. /\ saving' \in Cert!Saves /\ saving' # None /\ saving'.at = saving.at + 1
      /\ saving'.material = m0 /\ saving'.who = saving.who
  BY <1>1, <1>2 DEF Cert!Saves, Cert!MarkersAreApart
<1>4. m0.key \in Nat /\ m0.key # None /\ m0.cert \in Cert!Issued
  BY <1>1 DEF Cert!Loads, Cert!Materials, Cert!Issued, Cert!MarkersAreApart
<1>5. CertTypes'
  <2>1. disk' \in Cert!Materials
    BY <1>1, <1>2 DEF CertTypes, Cert!Materials
  <2> QED
    BY <1>1, <1>3, <2>1 DEF CertTypes
<1>6. Served' /\ Rested' /\ Saving'
  <2>1. Saving'
    BY <1>1, <1>2, <1>3 DEF CertInv, Saving, SpokenIfOurs, Spoken, Cert!CommonName
  <2> QED
    BY <1>1, <1>3, <2>1 DEF CertInv, Served, Rested
<1>7. Purposeful'
  <2>1. disk.key # None => disk'.key # None
    BY <1>2, <1>4
  <2>2. disk'.cert = disk.cert \/ (saving.at = 1 /\ disk'.cert = m0.cert)
    BY <1>2
  <2>3. saving'.at # 1
    BY <1>2, <1>3
  <2> QED
    BY <1>1, <1>3, <2>1, <2>2, <2>3 DEF CertInv, Purposeful
<1>8. Cert!ReplacedOnPurpose
  BY <1>1, <1>2, <1>3 DEF Cert!ReplacedOnPurpose, CertInv, Purposeful, CertTypes, Cert!Materials,
     Cert!Present, Cert!Saves
<1> QED
  BY <1>5, <1>6, <1>7, <1>8 DEF CertInv

(* A save that fails, or the process that ends over one.                   *)
LEMMA CertIsCutOff ==
    ASSUME Cert!MarkersAreApart, CertInv, Cert!SaveFails \/ Cert!End
    PROVE  CertInv' /\ Cert!ReplacedOnPurpose
<1>1. /\ saving' = None /\ CertTypes
      /\ UNCHANGED <<host, address, wanted, serial>>
  BY DEF Cert!SaveFails, Cert!End, CertInv
<1>2. CASE saving # None /\ saving.at \in DOMAIN Cert!Steps
  <2>1. broken' /\ disk' \in {disk, [disk EXCEPT ![Cert!Steps[saving.at]] = Torn]}
    BY <1>2 DEF Cert!SaveFails, Cert!End
  <2>2. /\ saving.at \in 1..3
        /\ disk' = disk \/
           disk' = [cert  |-> IF saving.at = 1 THEN Torn ELSE disk.cert,
                    key   |-> IF saving.at = 2 THEN Torn ELSE disk.key,
                    chain |-> IF saving.at = 3 THEN Torn ELSE disk.chain]
    BY <1>1, <1>2, <2>1, OneFile DEF CertTypes
  <2>3. disk' \in Cert!Materials
    BY <1>1, <2>2 DEF CertTypes, Cert!Materials
  <2>4. /\ listener' \in {"down", "up"} /\ live' \in Cert!Materials /\ reissue' \in {reissue, None}
        /\ listener' = "up" => listener = "up" /\ live' = live
        /\ listener' # "up" => live' = Cert!NoMaterial
    <3>1. Cert!NoMaterial \in Cert!Materials
      BY DEF Cert!NoMaterial, Cert!Materials
    <3>2. CASE Cert!SaveFails
      BY <1>1, <1>2, <3>2 DEF Cert!SaveFails, CertInv, Purposeful, Served, CertTypes
    <3>3. CASE Cert!End
      BY <3>1, <3>3 DEF Cert!End
    <3> QED
      BY <3>2, <3>3
  <2>5. CertTypes'
    BY <1>1, <2>3, <2>4 DEF CertTypes
  <2>6. Served' /\ Rested' /\ Saving'
    BY <1>1, <2>1, <2>4 DEF CertInv, Served, Rested, Saving, Cert!Loads
  <2>7. Purposeful'
    <3>1. disk.key # None => disk'.key # None
      BY <2>2 DEF Cert!MarkersAreApart
    <3>2. disk'.cert \in Cert!Issued => disk'.cert = disk.cert
      BY <2>2 DEF Cert!MarkersAreApart
    <3> QED
      BY <1>1, <2>4, <3>1, <3>2 DEF CertInv, Purposeful
  <2>8. Cert!ReplacedOnPurpose
    BY <1>1, <1>2, <2>2 DEF Cert!ReplacedOnPurpose, CertInv, Purposeful, CertTypes,
       Cert!Materials,
       Cert!Present, Cert!Saves
  <2> QED
    BY <2>5, <2>6, <2>7, <2>8 DEF CertInv
<1>3. CASE ~(saving # None /\ saving.at \in DOMAIN Cert!Steps)
  <2>1. /\ UNCHANGED <<disk, broken>> /\ listener' = "down" /\ live' = Cert!NoMaterial /\ reissue' = None
        /\ listener \in {"up", "ensuring"}
    BY <1>3 DEF Cert!SaveFails, Cert!End
  <2>2. CertTypes'
    <3>1. Cert!NoMaterial \in Cert!Materials
      BY DEF Cert!NoMaterial, Cert!Materials
    <3> QED
      BY <1>1, <2>1, <3>1 DEF CertTypes
  <2>3. disk # Cert!NoMaterial /\ ~broken => Cert!Loads(disk)
    <3>1. CASE saving = None
      BY <3>1 DEF CertInv, Rested
    <3>2. CASE saving # None
      <4>1. saving.at = 4
        BY <1>3, <3>2 DEF CertInv, Saving, Cert!Steps
      <4> QED
        BY <3>2, <4>1 DEF CertInv, Saving, Cert!Loads
    <3> QED
      BY <3>1, <3>2
  <2>4. Served' /\ Rested' /\ Saving'
    BY <1>1, <2>1, <2>3 DEF CertInv, Served, Rested, Saving, Cert!Loads
  <2>5. Purposeful'
    BY <1>1, <2>1 DEF CertInv, Purposeful
  <2>6. Cert!ReplacedOnPurpose
    BY <1>1, <2>1 DEF Cert!ReplacedOnPurpose
  <2> QED
    BY <2>2, <2>4, <2>5, <2>6 DEF CertInv
<1> QED
  BY <1>2, <1>3

LEMMA CertStarts ==
    ASSUME Cert!MarkersAreApart, CertInv, Cert!Start PROVE CertInv' /\ Cert!ReplacedOnPurpose
<1>1. /\ listener = "down" /\ saving = None /\ CertTypes
      /\ UNCHANGED <<host, address, wanted, disk, broken>>
  BY DEF Cert!Start, CertInv, Purposeful
<1>2. CASE Cert!Present
  <2>1. /\ Cert!Serve(disk) /\ UNCHANGED <<saving, serial>> /\ disk # Cert!NoMaterial
        /\ disk.key # None
    BY <1>2 DEF Cert!Start, Cert!Present, Cert!NoMaterial
  <2>2. CASE Cert!Loads(disk)
    <3>1. listener' = "up" /\ live' = disk /\ reissue' = {} /\ reissue' # None
      BY <2>1, <2>2 DEF Cert!Serve, Cert!MarkersAreApart
    <3>2. CertTypes' /\ Served' /\ Rested' /\ Saving'
      BY <1>1, <2>1, <2>2, <3>1 DEF CertTypes, Served, Rested, Saving, Cert!Loads
    <3>3. Purposeful' /\ Cert!ReplacedOnPurpose
      BY <1>1, <2>1, <3>1 DEF Purposeful, Cert!ReplacedOnPurpose
    <3> QED
      BY <3>2, <3>3 DEF CertInv
  <2>3. CASE ~Cert!Loads(disk)
    <3>1. listener' = "failed" /\ UNCHANGED <<live, reissue>> /\ broken
      BY <1>1, <2>1, <2>3 DEF Cert!Serve, CertInv, Rested
    <3>2. CertTypes' /\ Served' /\ Rested' /\ Saving'
      BY <1>1, <2>1, <3>1 DEF CertInv, CertTypes, Served, Rested, Saving
    <3>3. Purposeful' /\ Cert!ReplacedOnPurpose
      BY <1>1, <2>1, <3>1 DEF Purposeful, Cert!ReplacedOnPurpose
    <3> QED
      BY <3>2, <3>3 DEF CertInv
  <2> QED
    BY <2>2, <2>3
<1>3. CASE ~Cert!Present
  <2> DEFINE pair == Cert!Pair(Cert!SelfSigned({}), FALSE)
  <2>1. pair \in Cert!Materials /\ Cert!Loads(pair) /\ pair.cert.own
    BY <1>1, SelfSignedIsSound
  <2>2. /\ listener' = "ensuring" /\ serial' = serial + 1 /\ UNCHANGED <<live, reissue>>
        /\ saving' = [material |-> pair, at |-> 1, who |-> "start"]
    BY <1>3 DEF Cert!Start, Cert!Save
  <2> HIDE DEF pair
  <2>3. saving' \in Cert!Saves /\ saving' # None
    BY <2>1, <2>2 DEF Cert!Saves, Cert!MarkersAreApart
  <2>4. CertTypes' /\ Served' /\ Rested'
    BY <1>1, <2>2, <2>3 DEF CertInv, CertTypes, Served, Rested
  <2>5. Saving'
    BY <2>1, <2>2 DEF Saving, Cert!Loads
  <2>6. Purposeful'
    BY <1>1, <1>3, <2>1, <2>2 DEF CertInv, Purposeful, Cert!Present
  <2>7. Cert!ReplacedOnPurpose
    BY <1>1, <2>2 DEF Cert!ReplacedOnPurpose
  <2> QED
    BY <2>4, <2>5, <2>6, <2>7 DEF CertInv
<1> QED
  BY <1>2, <1>3

LEMMA CertIsSaved ==
    ASSUME Cert!MarkersAreApart, CertInv, Cert!Saved PROVE CertInv' /\ Cert!ReplacedOnPurpose
<1>1. /\ saving # None /\ saving' = None /\ ~broken' /\ saving.at = 4 /\ CertTypes
      /\ UNCHANGED <<host, address, wanted, disk, serial>>
  BY DEF Cert!Saved, Cert!Steps, CertInv, Saving
<1>2. disk = saving.material /\ Cert!Loads(disk)
  <2>1. /\ disk.cert = saving.material.cert /\ disk.key = saving.material.key
        /\ disk.chain = saving.material.chain /\ Cert!Loads(saving.material)
    BY <1>1 DEF CertInv, Saving
  <2>2. saving.material \in Cert!Materials /\ disk \in Cert!Materials
    BY <1>1 DEF CertTypes, Cert!Saves
  <2> QED
    BY <2>1, <2>2 DEF Cert!Materials, Cert!Loads
<1>3. disk.key # None /\ disk # Cert!NoMaterial
  BY <1>1, <1>2 DEF Cert!Loads, Cert!NoMaterial, CertTypes, Cert!Materials, Cert!Issued,
     Cert!MarkersAreApart
<1>4. CASE listener = "ensuring"
  <2>1. listener' = "up" /\ live' = disk /\ reissue' = {} /\ reissue' # None
    BY <1>2, <1>4 DEF Cert!Saved, Cert!Serve, Cert!MarkersAreApart
  <2>2. CertTypes' /\ Served' /\ Rested' /\ Saving'
    BY <1>1, <1>2, <2>1 DEF CertTypes, Served, Rested, Saving, Cert!Loads
  <2>3. Purposeful' /\ Cert!ReplacedOnPurpose
    BY <1>1, <1>3, <2>1 DEF Purposeful, Cert!ReplacedOnPurpose
  <2> QED
    BY <2>2, <2>3 DEF CertInv
<1>5. CASE listener # "ensuring"
  <2>1. UNCHANGED <<listener, live, reissue>> /\ listener = "up"
    BY <1>1, <1>5 DEF Cert!Saved, CertInv, Purposeful
  <2>2. live = disk /\ SpokenIfOurs(disk.cert)
    BY <1>1, <1>2, <2>1 DEF CertInv, Saving
  <2>3. CertTypes' /\ Served' /\ Saving'
    BY <1>1, <1>2, <2>1, <2>2 DEF CertTypes, Served, Saving, Cert!Loads
  <2>4. Rested'
    BY <1>1, <1>2, <2>1, <2>2 DEF Rested, SpokenIfOurs, Spoken, Cert!CommonName, Cert!Loads
  <2>5. Purposeful' /\ Cert!ReplacedOnPurpose
    BY <1>1, <1>3, <2>1 DEF Purposeful, Cert!ReplacedOnPurpose
  <2> QED
    BY <2>2, <2>3, <2>4, <2>5 DEF CertInv
<1> QED
  BY <1>4, <1>5

(* What is put in force while nothing is saved; one that cannot be used    *)
(* leaves all as it is.                                                    *)
LEMMA CertInstalls ==
    ASSUME Cert!MarkersAreApart, CertInv, NEW material \in Cert!Materials, NEW sound \in BOOLEAN,
           NEW who \in {"upload", "regenerate", "reissue"},
           listener = "up", saving = None, Cert!Install(material, sound, who),
           Cert!Loads(material) => SpokenIfOurs(material.cert),
           reissue' = reissue \/ (reissue' = None /\ sound /\ Cert!Loads(material)),
           who = "reissue" => /\ disk.cert \in Cert!Issued /\ disk.cert.own
                              /\ disk.cert.names \subseteq material.cert.names,
           UNCHANGED <<host, address, wanted, listener, disk, broken>>
    PROVE  CertInv' /\ Cert!ReplacedOnPurpose
<1>1. CertTypes /\ serial' = serial + 1
  BY DEF CertInv, Cert!Install
<1>2. CASE sound /\ Cert!Loads(material)
  <2>1. /\ live' = material /\ saving' = [material |-> material, at |-> 1, who |-> who]
        /\ SpokenIfOurs(material.cert)
    BY <1>2 DEF Cert!Install, Cert!Save
  <2>2. saving' \in Cert!Saves /\ saving' # None
    BY <2>1 DEF Cert!Saves, Cert!MarkersAreApart
  <2>3. CertTypes' /\ Served' /\ Rested'
    BY <1>1, <1>2, <2>1, <2>2 DEF CertTypes, Served, Rested, Cert!Loads
  <2>4. Saving'
    BY <1>2, <2>1 DEF Saving, Cert!Loads, SpokenIfOurs, Spoken, Cert!CommonName
  <2>5. Purposeful'
    BY <2>1 DEF CertInv, Purposeful
  <2>6. Cert!ReplacedOnPurpose
    BY <2>1 DEF Cert!ReplacedOnPurpose
  <2> QED
    BY <2>3, <2>4, <2>5, <2>6 DEF CertInv
<1>3. CASE ~(sound /\ Cert!Loads(material))
  <2>1. UNCHANGED <<live, saving, reissue>>
    BY <1>3 DEF Cert!Install
  <2>2. CertTypes' /\ Served' /\ Saving'
    BY <1>1, <2>1 DEF CertInv, CertTypes, Served, Saving, Cert!Loads
  <2>3. Rested'
    BY <2>1 DEF CertInv, Rested, SpokenIfOurs, Spoken, Cert!CommonName, Cert!Loads
  <2>4. Purposeful' /\ Cert!ReplacedOnPurpose
    BY <2>1 DEF CertInv, Purposeful, Cert!ReplacedOnPurpose
  <2> QED
    BY <2>2, <2>3, <2>4 DEF CertInv
<1> QED
  BY <1>2, <1>3

LEMMA CertIsReissued ==
    ASSUME Cert!MarkersAreApart, CertInv, Cert!Reissue PROVE CertInv' /\ Cert!ReplacedOnPurpose
<1>1. /\ listener = "up" /\ saving = None /\ reissue \in SUBSET Cert!Names /\ reissue' = None /\ CertTypes
      /\ UNCHANGED <<host, address, wanted, listener, disk, broken>>
  BY DEF Cert!Reissue, CertInv, CertTypes
<1> DEFINE standing == \/ disk.cert \in {None, Torn} \/ ~disk.cert.own
                       \/ Cert!Covered(disk.cert, reissue)
<1>2. CASE standing
  <2>1. UNCHANGED <<live, saving, serial>>
    BY <1>2 DEF Cert!Reissue
  <2>2. CertTypes' /\ Served' /\ Saving'
    BY <1>1, <2>1 DEF CertInv, CertTypes, Served, Saving, Cert!Loads
  <2>3. ASSUME ~broken PROVE SpokenIfOurs(disk.cert)
    <3>1. live = disk /\ Cert!Loads(disk)
      BY <1>1, <2>3 DEF CertInv, Served, Rested
    <3>2. disk.cert \in Cert!Issued
      BY <1>1, <3>1 DEF CertTypes, Cert!Materials, Cert!Loads
    <3>3. CASE ~disk.cert.own
      BY <3>2, <3>3 DEF Cert!Issued, SpokenIfOurs
    <3>4. CASE Cert!Covered(disk.cert, reissue)
      BY <3>4 DEF Cert!Covered, Cert!Sans, SpokenIfOurs, Spoken
    <3> QED
      BY <1>2, <3>1, <3>3, <3>4 DEF Cert!Loads
  <2>4. Rested'
    BY <1>1, <2>1, <2>3 DEF CertInv, Rested, SpokenIfOurs, Spoken, Cert!CommonName, Cert!Loads
  <2>5. Purposeful' /\ Cert!ReplacedOnPurpose
    BY <1>1, <2>1 DEF CertInv, Purposeful, Cert!ReplacedOnPurpose
  <2> QED
    BY <2>2, <2>4, <2>5 DEF CertInv
<1>3. CASE ~standing
  <2> DEFINE names == Cert!CarriedOver(disk.cert, reissue)
             pair == Cert!Pair(Cert!SelfSigned(names), FALSE)
  <2>1. disk.cert \in Cert!Issued /\ disk.cert.own /\ Cert!Install(pair, TRUE, "reissue")
    BY <1>1, <1>3 DEF Cert!Reissue, CertTypes, Cert!Materials
  <2>2. /\ names \in SUBSET Cert!Names /\ disk.cert.names \subseteq names
        /\ {Cert!CommonName, host} \subseteq names
    BY <1>1, <2>1 DEF Cert!CarriedOver, Cert!Sans, Cert!Issued, Cert!CommonName, Cert!Names,
       CertTypes
  <2> HIDE DEF names
  <2>3. /\ pair \in Cert!Materials /\ Cert!Loads(pair) /\ Spoken(pair.cert)
        /\ disk.cert.names \subseteq pair.cert.names
    BY <1>1, <2>2, SelfSignedIsSound
  <2> HIDE DEF pair
  <2> QED
    BY <1>1, <2>1, <2>3, CertInstalls DEF SpokenIfOurs
<1> QED
  BY <1>2, <1>3

(* What an administrator does: the names of the machine, and an install.   *)
LEMMA CertIsChanged ==
    ASSUME Cert!MarkersAreApart, CertInv,
           \/ \E h \in Hosts, a \in HostAddresses : Cert!Rename(h, a)
           \/ \E a \in HostAddresses : Cert!AddressMoves(a)
           \/ \E name \in {None, "published"} : Cert!SaveName(name)
    PROVE  CertInv' /\ Cert!ReplacedOnPurpose
<1>1. /\ UNCHANGED <<listener, live, disk, saving, serial, broken>> /\ CertTypes
      /\ \/ UNCHANGED <<host, wanted, reissue>>
         \/ saving = None /\ reissue' # None /\ reissue' \in SUBSET Cert!Names
      /\ host' \in Hosts /\ address' \in HostAddresses /\ wanted' \in {None, "published"}
  <2>1. CASE \E h \in Hosts, a \in HostAddresses : Cert!Rename(h, a)
    <3>1. PICK h \in Hosts, a \in HostAddresses : Cert!Rename(h, a)
      BY <2>1
    <3>2. {a} \in SUBSET Cert!Names /\ {a} # None
      BY DEF Cert!Names, Cert!MarkersAreApart
    <3> QED
      BY <3>1, <3>2 DEF Cert!Rename, Cert!Idle, CertInv, CertTypes
  <2>2. CASE \E a \in HostAddresses : Cert!AddressMoves(a)
    BY <2>2 DEF Cert!AddressMoves, CertInv, CertTypes
  <2>3. CASE \E name \in {None, "published"} : Cert!SaveName(name)
    BY <2>3 DEF Cert!SaveName, Cert!Idle, CertInv, CertTypes, Cert!MarkersAreApart
  <2> QED
    BY <2>1, <2>2, <2>3
<1>2. CertTypes' /\ Served'
  BY <1>1 DEF CertInv, CertTypes, Served, Cert!Loads
<1>3. Rested' /\ Saving'
  BY <1>1 DEF CertInv, Rested, Saving, SpokenIfOurs, Spoken, Cert!CommonName, Cert!Loads
<1>4. Purposeful' /\ Cert!ReplacedOnPurpose
  BY <1>1 DEF CertInv, Purposeful, Cert!Present, Cert!ReplacedOnPurpose
<1> QED
  BY <1>2, <1>3, <1>4 DEF CertInv

LEMMA CertIsInstalled ==
    ASSUME Cert!MarkersAreApart, CertInv,
           \/ \E own, chained \in BOOLEAN, kind \in {"sound", "invalid", "refused"} :
                 Cert!Upload(own, chained, kind)
           \/ \E extras \in {{}, {"extra"}} : Cert!Regenerate(extras)
    PROVE  CertInv' /\ Cert!ReplacedOnPurpose
<1>1. ASSUME NEW own \in BOOLEAN, NEW chained \in BOOLEAN,
             NEW kind \in {"sound", "invalid", "refused"}, Cert!Upload(own, chained, kind)
      PROVE  CertInv' /\ Cert!ReplacedOnPurpose
  <2> DEFINE c == [serial |-> serial + 1, subject |-> "elsewhere", own |-> own,
                   by |-> "operator", names |-> {"elsewhere"}]
             pair == Cert!Pair(c, chained)
             material == IF kind = "refused" THEN [pair EXCEPT !.key = 0] ELSE pair
  <2>1. /\ listener = "up" /\ saving = None /\ CertTypes
        /\ Cert!Install(material, kind # "invalid", "upload")
        /\ UNCHANGED <<host, address, wanted, listener, disk, reissue, broken>>
    BY <1>1 DEF Cert!Upload, Cert!Idle, CertInv
  <2>2. c \in Cert!Issued /\ c.serial \in Nat /\ c.by = "operator"
    BY <2>1 DEF Cert!Issued, Cert!Names, CertTypes
  <2> HIDE DEF c
  <2>3. pair \in Cert!Materials /\ pair.cert = c
    <3>1. pair = [cert |-> c, key |-> c.serial, chain |-> IF chained THEN c.serial ELSE None]
      BY DEF Cert!Pair
    <3> HIDE DEF pair
    <3>2. CASE chained
      BY <2>2, <3>1, <3>2 DEF Cert!Materials
    <3>3. CASE ~chained
      BY <2>2, <3>1, <3>3 DEF Cert!Materials
    <3> QED
      BY <3>2, <3>3
  <2> HIDE DEF pair
  <2>4. material \in Cert!Materials /\ material.cert = c
    BY <2>3 DEF Cert!Materials
  <2> HIDE DEF material
  <2>5. SpokenIfOurs(material.cert)
    BY <2>2, <2>4 DEF SpokenIfOurs
  <2>6. (kind # "invalid") \in BOOLEAN
    OBVIOUS
  <2> QED
    BY <2>1, <2>4, <2>5, <2>6, CertInstalls
<1>2. ASSUME NEW extras \in {{}, {"extra"}}, Cert!Regenerate(extras)
      PROVE  CertInv' /\ Cert!ReplacedOnPurpose
  <2> DEFINE names == Cert!Sans(extras)
             pair == Cert!Pair(Cert!SelfSigned(names), FALSE)
  <2>1. /\ listener = "up" /\ saving = None /\ CertTypes
        /\ Cert!Install(pair, TRUE, "regenerate")
        /\ UNCHANGED <<host, address, wanted, listener, disk, reissue, broken>>
    BY <1>2 DEF Cert!Regenerate, Cert!Idle, CertInv
  <2>2. names \in SUBSET Cert!Names /\ {Cert!CommonName, host} \subseteq names
    BY <2>1 DEF Cert!Sans, Cert!CommonName, Cert!Names, CertTypes
  <2> HIDE DEF names
  <2>3. pair \in Cert!Materials /\ Cert!Loads(pair) /\ Spoken(pair.cert)
    BY <2>1, <2>2, SelfSignedIsSound
  <2> HIDE DEF pair
  <2> QED
    BY <2>1, <2>3, CertInstalls DEF SpokenIfOurs
<1> QED
  BY <1>1, <1>2

LEMMA CertNext ==
    ASSUME Cert!MarkersAreApart, CertInv, [Cert!Next]_(Cert!vars)
    PROVE  CertInv' /\ (Cert!vars' # Cert!vars => Cert!ReplacedOnPurpose)
<1>1. CASE UNCHANGED Cert!vars
  <2>1. UNCHANGED <<host, address, wanted, listener, live, disk, saving, reissue, serial, broken>>
    BY <1>1 DEF Cert!vars
  <2>2. CertTypes' /\ Served' /\ Rested' /\ Saving' /\ Purposeful'
    BY <2>1 DEF CertInv, CertTypes, Served, Rested, Saving, Purposeful, SpokenIfOurs, Spoken,
       Cert!CommonName, Cert!Loads, Cert!Present
  <2> QED
    BY <1>1, <2>2 DEF CertInv
<1>2. CASE Cert!Next
  BY <1>2, CertStarts, CertWrites, CertIsSaved, CertIsCutOff, CertIsReissued, CertIsChanged,
     CertIsInstalled DEF Cert!Next
<1> QED
  BY <1>1, <1>2

(* What is served is what is stored, the chain included, unless a save was *)
(* cut off; nothing else keeps the listener from starting again; and a     *)
(* certificate of the appliance's own speaks for the name it goes by.      *)
THEOREM CertificateHolds ==
    ASSUME Cert!MarkersAreApart
    PROVE  Cert!Spec => [](Cert!ServedIsStored /\ Cert!StartsAgain /\ Cert!NamesItself)
<1>1. CertInv => Cert!ServedIsStored /\ Cert!StartsAgain /\ Cert!NamesItself
  BY DEF CertInv, Served, Rested, SpokenIfOurs, Spoken, Cert!ServedIsStored, Cert!StartsAgain,
     Cert!NamesItself, Cert!Idle
<1> QED
  BY <1>1, CertInit, CertNext, PTL DEF Cert!Spec

(* A certificate that a site has had signed is replaced by the operator    *)
(* only, and a reissue loses no name.                                      *)
THEOREM ReplacementsAreMeant ==
    ASSUME Cert!MarkersAreApart PROVE Cert!Spec => [][Cert!ReplacedOnPurpose]_(Cert!vars)
<1>1. CertInv /\ [Cert!Next]_(Cert!vars) => [Cert!ReplacedOnPurpose]_(Cert!vars)
  BY CertNext
<1> QED
  BY <1>1, CertInit, CertNext, PTL DEF Cert!Spec
-----------------------------------------------------------------------------
(* Signing in.  A request in flight carries a password that has been       *)
(* thought of, and one that compared well did so with a stored one.        *)

Pages == {"away", "wizard", "login", "finish", "app"}
InFlight(t) ==
    jobs[t] # None =>
      /\ jobs[t].word <= given
      /\ jobs[t].kind \in {"setup", "change"} => jobs[t].word >= 1
      /\ jobs[t].kind = "login" /\ jobs[t].good => password # None
SignTypes ==
    /\ given \in Nat /\ authClock \in Nat /\ opened \in Nat
    /\ password \in {None} \cup 1..given
    /\ sessions \in [Sign!Ids -> Sign!Rows \cup {None}] /\ jar \in Sign!Ids \cup {None}
    /\ jobs \in [Tabs -> Sign!Requests \cup {None}]
    /\ tabs \in [Tabs -> [page : Pages, token : Sign!Ids \cup {None}]]
SignInv == SignTypes /\ (\A t \in Tabs : InFlight(t)) /\ Sign!SignInIsSafe

\* the sessions there are after a step were there before, and have not outlived their end
Fewer ==
    /\ sessions' \in [Sign!Ids -> Sign!Rows \cup {None}]
    /\ \A i \in Sign!Ids : sessions'[i] # None =>
          /\ sessions[i] # None /\ sessions'[i].seen <= sessions'[i].dies
          /\ sessions'[i].under = sessions[i].under /\ sessions'[i].raced = sessions[i].raced

LEMMA SignInit == ASSUME Sign!SettingIsSound PROVE Sign!Init => SignInv
<1> SUFFICES ASSUME Sign!Init PROVE SignInv
  OBVIOUS
<1>1. SignTypes
  BY DEF Sign!Init, SignTypes, Sign!Away, Pages
<1>2. Sign!SignInIsSafe
  BY DEF Sign!Init, Sign!SignInIsSafe, Sign!SessionsAreCurrent, Sign!SessionsDie,
     Sign!SetupEndsKnown
<1>3. \A t \in Tabs : InFlight(t)
  BY DEF Sign!Init, InFlight
<1> QED
  BY <1>1, <1>2, <1>3 DEF SignInv

LEMMA UseKeepsFewer ==
    ASSUME Sign!SettingIsSound, SignInv,
           \/ sessions' \in {sessions, Sign!Validated(jar), Sign!Revoked}
           \/ jar \in Sign!Ids /\ sessions' = [sessions EXCEPT ![jar] = None]
    PROVE  Fewer
<1>1. /\ sessions \in [Sign!Ids -> Sign!Rows \cup {None}] /\ jar \in Sign!Ids \cup {None}
      /\ \A i \in Sign!Ids : sessions[i] # None => sessions[i].seen <= sessions[i].dies
      /\ authClock \in Nat
  BY DEF SignInv, SignTypes, Sign!SignInIsSafe, Sign!SessionsDie
<1>2. CASE sessions' = sessions
  BY <1>1, <1>2 DEF Fewer
<1>3. CASE sessions' = Sign!Revoked
  BY <1>1, <1>3 DEF Fewer, Sign!Revoked
<1>4. CASE jar \in Sign!Ids /\ sessions' = [sessions EXCEPT ![jar] = None]
  BY <1>1, <1>4 DEF Fewer
<1>5. CASE sessions' = Sign!Validated(jar) /\ jar # None /\ sessions[jar] # None
  <2> DEFINE entry == [sessions[jar] EXCEPT !.seen = authClock]
  <2>1. /\ jar \in Sign!Ids /\ sessions[jar] \in Sign!Rows
        /\ sessions' = [sessions EXCEPT ![jar] = IF Sign!Valid(jar) THEN entry ELSE None]
    BY <1>1, <1>5 DEF Sign!Validated
  <2>2. /\ entry \in Sign!Rows /\ entry.seen = authClock /\ entry.dies = sessions[jar].dies
        /\ entry.under = sessions[jar].under /\ entry.raced = sessions[jar].raced
    BY <1>1, <2>1 DEF Sign!Rows
  <2> HIDE DEF entry
  <2>3. Sign!Valid(jar) => entry.seen <= entry.dies
    BY <2>2 DEF Sign!Valid
  <2>4. CASE Sign!Valid(jar)
    <3>1. sessions' = [sessions EXCEPT ![jar] = entry]
      BY <2>1, <2>4
    <3>2. sessions' \in [Sign!Ids -> Sign!Rows \cup {None}]
      BY <1>1, <2>1, <2>2, <3>1
    <3>3. ASSUME NEW i \in Sign!Ids, sessions'[i] # None
          PROVE  /\ sessions[i] # None /\ sessions'[i].seen <= sessions'[i].dies
                 /\ sessions'[i].under = sessions[i].under /\ sessions'[i].raced = sessions[i].raced
      <4>1. CASE i = jar
        BY <1>1, <1>5, <2>1, <2>2, <2>3, <2>4, <3>1, <4>1
      <4>2. CASE i # jar
        BY <1>1, <3>1, <3>3, <4>2
      <4> QED
        BY <4>1, <4>2
    <3> QED
      BY <3>2, <3>3 DEF Fewer
  <2>5. CASE ~Sign!Valid(jar)
    BY <1>1, <2>1, <2>5 DEF Fewer
  <2> QED
    BY <2>4, <2>5
<1>6. CASE sessions' = Sign!Validated(jar) /\ (jar = None \/ sessions[jar] = None)
  BY <1>2, <1>6 DEF Sign!Validated
<1> QED
  BY <1>2, <1>3, <1>4, <1>5, <1>6

(* As long as the password in force stays, what there is stays safe.       *)
LEMMA SafeStays ==
    ASSUME SignInv, Fewer, UNCHANGED <<password, cut>>, completed' => completed \/ password # None
    PROVE  Sign!SignInIsSafe'
BY DEF SignInv, Sign!SignInIsSafe, Sign!SessionsAreCurrent, Sign!SessionsDie,
   Sign!SetupEndsKnown, Fewer

(* What a tab has in flight is replaced, or ends.                          *)
LEMMA FlightsStay ==
    ASSUME SignInv, NEW t \in Tabs, NEW job \in Sign!Requests \cup {None},
           jobs' = [jobs EXCEPT ![t] = job], given' \in Nat, given <= given',
           password # None => password' # None,
           job # None => /\ job.word <= given'
                         /\ job.kind \in {"setup", "change"} => job.word >= 1
                         /\ job.kind = "login" /\ job.good => password' # None
    PROVE  /\ jobs' \in [Tabs -> Sign!Requests \cup {None}]
           /\ \A u \in Tabs : InFlight(u)'
<1>1. jobs \in [Tabs -> Sign!Requests \cup {None}] /\ given \in Nat
  BY DEF SignInv, SignTypes
<1>2. jobs' \in [Tabs -> Sign!Requests \cup {None}]
  BY <1>1
<1>3. ASSUME NEW u \in Tabs PROVE InFlight(u)'
  <2>1. CASE u = t
    BY <1>1, <2>1 DEF InFlight
  <2>2. CASE u # t
    <3>1. InFlight(u) /\ jobs'[u] = jobs[u]
      BY <1>1, <2>2 DEF SignInv
    <3>2. jobs[u] # None => jobs[u].word \in Nat
      BY <1>1 DEF Sign!Requests
    <3> QED
      BY <1>1, <3>1, <3>2 DEF InFlight
  <2> QED
    BY <2>1, <2>2
<1> QED
  BY <1>2, <1>3

(* What leaves passwords and requests alone.                               *)
LEMMA SignPages ==
    ASSUME Sign!SettingIsSound, SignInv,
           \/ Sign!Tick
           \/ \E t \in Tabs : Sign!Load(t) \/ Sign!Complete(t) \/ Sign!Logout(t) \/ Sign!Ask(t)
    PROVE  SignInv'
<1>1. SignTypes
  BY DEF SignInv
<1>2. SUFFICES /\ UNCHANGED <<password, given, opened, jobs, cut>> /\ authClock' \in Nat
               /\ jar' \in Sign!Ids \cup {None} /\ Fewer
               /\ tabs' \in [Tabs -> [page : Pages, token : Sign!Ids \cup {None}]]
               /\ completed' => completed \/ password # None
  <2>1. ASSUME /\ UNCHANGED <<password, given, opened, jobs, cut>> /\ authClock' \in Nat
               /\ jar' \in Sign!Ids \cup {None} /\ Fewer
               /\ tabs' \in [Tabs -> [page : Pages, token : Sign!Ids \cup {None}]]
               /\ completed' => completed \/ password # None
        PROVE  SignInv'
    <3>1. SignTypes'
      BY <1>1, <2>1 DEF SignTypes, Fewer
    <3>2. \A t \in Tabs : InFlight(t)'
      BY <2>1 DEF SignInv, InFlight
    <3>3. Sign!SignInIsSafe'
      BY <2>1, SafeStays
    <3> QED
      BY <3>1, <3>2, <3>3 DEF SignInv
  <2> QED
    BY <2>1
<1>3. CASE Sign!Tick
  <2>1. sessions' = sessions /\ UNCHANGED <<password, given, opened, completed, jobs, cut, jar, tabs>>
        /\ authClock' \in Nat
    BY <1>1, <1>3 DEF Sign!Tick, Sign!server, SignTypes
  <2> QED
    BY <1>1, <2>1, UseKeepsFewer DEF SignTypes
<1>4. ASSUME NEW t \in Tabs, NEW place \in Pages, NEW token \in Sign!Ids \cup {None},
             Sign!Show(t, place, token)
      PROVE  tabs' \in [Tabs -> [page : Pages, token : Sign!Ids \cup {None}]]
  BY <1>1, <1>4 DEF Sign!Show, SignTypes
<1>5. jar \in Sign!Ids \cup {None} /\ None \in Sign!Ids \cup {None} /\ authClock \in Nat
      /\ {"wizard", "app", "login"} \subseteq Pages
      /\ \A t \in Tabs : tabs[t].token \in Sign!Ids \cup {None}
  BY <1>1 DEF SignTypes, Pages
<1>6. ASSUME NEW t \in Tabs, Sign!Load(t) PROVE
               /\ UNCHANGED <<password, given, opened, jobs, cut>> /\ authClock' \in Nat
               /\ jar' \in Sign!Ids \cup {None} /\ Fewer
               /\ tabs' \in [Tabs -> [page : Pages, token : Sign!Ids \cup {None}]]
               /\ completed' => completed \/ password # None
  <2>1. /\ UNCHANGED <<password, given, opened, jobs, cut, completed, authClock, jar>>
        /\ sessions' = Sign!Validated(jar)
        /\ \E place \in {"wizard", "app", "login"}, token \in {jar, None} : Sign!Show(t, place, token)
    BY <1>6 DEF Sign!Load
  <2>2. tabs' \in [Tabs -> [page : Pages, token : Sign!Ids \cup {None}]]
    BY <1>4, <1>5, <2>1
  <2> QED
    BY <1>5, <2>1, <2>2, UseKeepsFewer
<1>7. ASSUME NEW t \in Tabs, Sign!Complete(t) PROVE
               /\ UNCHANGED <<password, given, opened, jobs, cut>> /\ authClock' \in Nat
               /\ jar' \in Sign!Ids \cup {None} /\ Fewer
               /\ tabs' \in [Tabs -> [page : Pages, token : Sign!Ids \cup {None}]]
               /\ completed' => completed \/ password # None
  <2>1. /\ UNCHANGED <<password, given, opened, jobs, cut, authClock, jar>>
        /\ sessions' = Sign!Validated(jar)
        /\ \/ UNCHANGED <<completed, tabs>>
           \/ Sign!Valid(jar) /\ Sign!Show(t, "app", tabs[t].token)
    BY <1>7 DEF Sign!Complete
  <2>2. tabs' \in [Tabs -> [page : Pages, token : Sign!Ids \cup {None}]]
    BY <1>1, <1>4, <1>5, <2>1 DEF SignTypes
  <2>3. Sign!Valid(jar) => password # None
    BY <1>5 DEF Sign!Valid, SignInv, Sign!SignInIsSafe, Sign!SetupEndsKnown
  <2> QED
    BY <1>5, <2>1, <2>2, <2>3, UseKeepsFewer
<1>8. ASSUME NEW t \in Tabs, Sign!Logout(t) PROVE
               /\ UNCHANGED <<password, given, opened, jobs, cut>> /\ authClock' \in Nat
               /\ jar' \in Sign!Ids \cup {None} /\ Fewer
               /\ tabs' \in [Tabs -> [page : Pages, token : Sign!Ids \cup {None}]]
               /\ completed' => completed \/ password # None
  <2>1. /\ UNCHANGED <<password, given, opened, jobs, cut, completed, authClock>>
        /\ jar' \in {jar, None} /\ Sign!Show(t, "login", None)
        /\ \/ sessions' = Sign!Validated(jar)
           \/ Sign!Valid(jar) /\ sessions' = [sessions EXCEPT ![jar] = None]
    BY <1>8 DEF Sign!Logout
  <2>2. Sign!Valid(jar) => jar \in Sign!Ids
    BY <1>5 DEF Sign!Valid
  <2>3. tabs' \in [Tabs -> [page : Pages, token : Sign!Ids \cup {None}]]
    BY <1>4, <1>5, <2>1
  <2>4. Fewer
    BY <2>1, <2>2, UseKeepsFewer
  <2> QED
    BY <1>5, <2>1, <2>3, <2>4
<1>9. ASSUME NEW t \in Tabs, Sign!Ask(t) PROVE
               /\ UNCHANGED <<password, given, opened, jobs, cut>> /\ authClock' \in Nat
               /\ jar' \in Sign!Ids \cup {None} /\ Fewer
               /\ tabs' \in [Tabs -> [page : Pages, token : Sign!Ids \cup {None}]]
               /\ completed' => completed \/ password # None
  <2>1. /\ UNCHANGED <<password, given, opened, jobs, cut, completed, authClock, jar, tabs>>
        /\ sessions' = Sign!Validated(jar)
    BY <1>9 DEF Sign!Ask
  <2> QED
    BY <1>1, <1>5, <2>1, UseKeepsFewer DEF SignTypes
<1> QED
  BY <1>3, <1>6, <1>7, <1>8, <1>9

Sends(t, job) ==
    /\ jobs' = [jobs EXCEPT ![t] = job] /\ given' \in Nat /\ given <= given'
    /\ UNCHANGED <<password, opened, completed, authClock, jar, tabs, cut>>
    /\ sessions' \in {sessions, Sign!Validated(jar)}
    /\ job # None => /\ job.word <= given'
                     /\ job.kind \in {"setup", "change"} => job.word >= 1
                     /\ job.kind = "login" /\ job.good => password # None
LEMMA SendIsSafe ==
    ASSUME Sign!SettingIsSound, SignInv, NEW t \in Tabs, NEW job \in Sign!Requests \cup {None},
           Sends(t, job)
    PROVE  SignInv'
<1>1. SignTypes /\ Fewer
  BY UseKeepsFewer DEF Sends, SignInv
<1>2. /\ jobs' \in [Tabs -> Sign!Requests \cup {None}]
      /\ \A u \in Tabs : InFlight(u)'
  BY FlightsStay DEF Sends
<1>3. SignTypes'
  BY <1>1, <1>2 DEF Sends, SignTypes, Fewer
<1>4. Sign!SignInIsSafe'
  BY <1>1, SafeStays DEF Sends
<1> QED
  BY <1>2, <1>3, <1>4 DEF SignInv

(* A request is sent, or answered without a change of the password.        *)
LEMMA SignRequests ==
    ASSUME Sign!SettingIsSound, SignInv, NEW t \in Tabs,
           \/ Sign!SubmitPassword(t) \/ Sign!SignIn(t) \/ Sign!FinishCompare(t)
           \/ \E word \in 0..given : Sign!StartChange(t, word)
    PROVE  SignInv'
<1>1. SignTypes /\ given \in Nat /\ jobs[t] \in Sign!Requests \cup {None}
  BY DEF SignInv, SignTypes
<1>2. CASE Sign!SubmitPassword(t)
  <2> DEFINE job == Sign!Job("setup", given', TRUE)
  <2>1. job \in Sign!Requests /\ job.word = given + 1 /\ job.kind = "setup"
    BY <1>1, <1>2 DEF Sign!SubmitPassword, Sign!Job, Sign!Requests
  <2>2. jobs' = [jobs EXCEPT ![t] = job]
    BY <1>2 DEF Sign!SubmitPassword, Sign!Send
  <2> HIDE DEF job
  <2>3. Sends(t, job)
    BY <1>1, <1>2, <2>1, <2>2 DEF Sends, Sign!SubmitPassword
  <2> QED
    BY SendIsSafe, <2>1, <2>3
<1>3. ASSUME NEW word \in 0..given, Sign!StartLogin(t, word) PROVE SignInv'
  <2> DEFINE job == Sign!Job("login", word, Sign!Matches(word))
  <2>1. job \in Sign!Requests /\ job.word = word /\ job.kind = "login"
    <3>1. Sign!Matches(word) \in BOOLEAN
      BY DEF Sign!Matches
    <3> QED
      BY <3>1 DEF Sign!Job, Sign!Requests
  <2>2. job.good => password # None
    BY DEF Sign!Job, Sign!Matches
  <2>3. jobs' = [jobs EXCEPT ![t] = job] \/ jobs' = [jobs EXCEPT ![t] = None]
    BY <1>3 DEF Sign!StartLogin, Sign!Send
  <2> HIDE DEF job
  <2>4. Sends(t, job) \/ Sends(t, None)
    BY <1>1, <1>3, <2>1, <2>2, <2>3 DEF Sends, Sign!StartLogin, Sign!server
  <2> QED
    BY SendIsSafe, <2>1, <2>4
<1>4. CASE Sign!SignIn(t)
  <2>1. jobs[t] # None => jobs[t].word \in 0..given
    BY <1>1 DEF SignInv, InFlight, Sign!Requests
  <2> QED
    BY <1>3, <1>4, <2>1 DEF Sign!SignIn
<1>5. CASE Sign!FinishCompare(t)
  <2> DEFINE job == Sign!Job("change", given', TRUE)
  <2>1. \/ given' = given + 1 /\ jobs' = [jobs EXCEPT ![t] = job]
        \/ given' = given /\ jobs' = [jobs EXCEPT ![t] = None]
    BY <1>5, Zenon DEF Sign!FinishCompare, Sign!Send
  <2>2. UNCHANGED <<password, opened, completed, authClock, jar, tabs, cut, sessions>>
    BY <1>5 DEF Sign!FinishCompare
  <2>3. given' = given + 1 => /\ job \in Sign!Requests /\ job.word = given + 1
                              /\ job.kind = "change"
    BY <1>1 DEF Sign!Job, Sign!Requests
  <2> HIDE DEF job
  <2>4. CASE given' = given + 1 /\ jobs' = [jobs EXCEPT ![t] = job]
    <3>1. Sends(t, job)
      BY <1>1, <2>2, <2>3, <2>4 DEF Sends
    <3> QED
      BY SendIsSafe, <2>3, <2>4, <3>1
  <2>5. CASE given' = given /\ jobs' = [jobs EXCEPT ![t] = None]
    <3>1. Sends(t, None)
      BY <1>1, <2>2, <2>5 DEF Sends
    <3> QED
      BY SendIsSafe, <3>1
  <2> QED
    BY <2>1, <2>4, <2>5
<1>6. ASSUME NEW word \in 0..given, Sign!StartChange(t, word) PROVE SignInv'
  <2> DEFINE job == Sign!Job("compare", word, Sign!Matches(word))
  <2>1. job \in Sign!Requests /\ job.word = word /\ job.kind = "compare"
    <3>1. Sign!Matches(word) \in BOOLEAN
      BY DEF Sign!Matches
    <3> QED
      BY <3>1 DEF Sign!Job, Sign!Requests
  <2>2. jobs' = [jobs EXCEPT ![t] = job] \/ jobs' = jobs
    BY <1>6 DEF Sign!StartChange, Sign!Send
  <2> HIDE DEF job
  <2>3. jobs' = jobs => jobs' = [jobs EXCEPT ![t] = None]
    BY <1>1, <1>6 DEF Sign!StartChange, Sign!Free, SignTypes
  <2>4. Sends(t, job) \/ Sends(t, None)
    BY <1>1, <1>6, <2>1, <2>2, <2>3 DEF Sends, Sign!StartChange
  <2> QED
    BY SendIsSafe, <2>1, <2>4
<1> QED
  BY <1>2, <1>4, <1>5, <1>6

(* A password is stored: whoever was in is out.                            *)
LEMMA PasswordIsSet ==
    ASSUME Sign!SettingIsSound, SignInv, NEW t \in Tabs,
           Sign!StoreFirst(t) \/ Sign!FinishChange(t)
    PROVE  SignInv'
<1> DEFINE word == jobs[t].word
           job == Sign!Job("stored", word, TRUE)
<1>1. /\ Sign!SetPassword(word) /\ UNCHANGED <<opened, given, completed, authClock, jar, tabs>>
      /\ jobs[t] # None /\ jobs[t].kind \in {"setup", "change"}
      /\ jobs' = [jobs EXCEPT ![t] = job] \/ jobs' = [jobs EXCEPT ![t] = None]
  BY DEF Sign!StoreFirst, Sign!FinishChange, Sign!Send
<1>2. SignTypes /\ given \in Nat /\ word \in 1..given /\ None \notin Nat
  BY <1>1 DEF SignInv, SignTypes, InFlight, Sign!Requests, Sign!SettingIsSound
<1>3. password' = word /\ sessions' = Sign!Revoked /\ password' # None
  BY <1>1, <1>2 DEF Sign!SetPassword
<1>4. job \in Sign!Requests /\ job.word = word /\ job.kind = "stored"
  BY <1>2 DEF Sign!Job, Sign!Requests
<1> HIDE DEF job, word
<1>5. /\ jobs' \in [Tabs -> Sign!Requests \cup {None}]
      /\ \A u \in Tabs : InFlight(u)'
  <2>0. /\ job \in Sign!Requests \cup {None} /\ None \in Sign!Requests \cup {None}
        /\ given' \in Nat /\ given <= given' /\ job.word <= given'
        /\ job.kind \notin {"setup", "change", "login"}
    BY <1>1, <1>2, <1>4
  <2>1. CASE jobs' = [jobs EXCEPT ![t] = job]
    BY <1>3, <2>0, <2>1, FlightsStay
  <2>2. CASE jobs' = [jobs EXCEPT ![t] = None]
    BY <1>3, <2>0, <2>2, FlightsStay
  <2> QED
    BY <1>1, <2>1, <2>2
<1>6. SignTypes'
  BY <1>1, <1>2, <1>3, <1>5 DEF SignTypes, Sign!Revoked
<1>7. Sign!SignInIsSafe'
  BY <1>3 DEF Sign!SignInIsSafe, Sign!SessionsAreCurrent, Sign!SessionsDie, Sign!SetupEndsKnown,
     Sign!Revoked
<1> QED
  BY <1>5, <1>6, <1>7 DEF SignInv

(* A comparison is answered: with a session when it went well.             *)
LEMMA LoginEnds ==
    ASSUME Sign!SettingIsSound, SignInv, NEW t \in Tabs, Sign!FinishLogin(t) PROVE SignInv'
<1>1. /\ SignTypes /\ jobs[t] \in Sign!Requests /\ jobs[t].kind = "login" /\ InFlight(t)
      /\ jobs' = [jobs EXCEPT ![t] = None] /\ None \notin Nat
      /\ UNCHANGED <<password, given, completed, authClock, cut>>
  BY DEF Sign!FinishLogin, Sign!Send, SignInv, SignTypes, Sign!SettingIsSound
<1>2. /\ jobs' \in [Tabs -> Sign!Requests \cup {None}]
      /\ \A u \in Tabs : InFlight(u)'
  <2>1. /\ None \in Sign!Requests \cup {None} /\ given' \in Nat /\ given <= given'
        /\ password # None => password' # None
    BY <1>1 DEF SignTypes
  <2> QED
    BY <1>1, <2>1, FlightsStay
<1>3. CASE UNCHANGED <<sessions, opened, jar, tabs>>
  <2>1. Fewer
    BY <1>3, UseKeepsFewer
  <2>2. Sign!SignInIsSafe'
    BY <1>1, <2>1, SafeStays
  <2>3. SignTypes'
    BY <1>1, <1>2, <1>3 DEF SignTypes
  <2> QED
    BY <1>2, <2>2, <2>3 DEF SignInv
<1> DEFINE entry == [under |-> jobs[t].word, raced |-> jobs[t].word # password,
                   seen |-> authClock, dies |-> authClock + LifeTime]
           id == opened + 1
<1>4. \/ UNCHANGED <<sessions, opened, jar, tabs>>
      \/ /\ jobs[t].good /\ opened < MaxSessions /\ opened' = id /\ jar' = id
         /\ sessions' = [sessions EXCEPT ![id] = entry]
         /\ Sign!Show(t, IF tabs[t].page = "wizard" THEN "finish" ELSE "app", id)
  <2>1. CASE jobs[t].good
    BY <2>1, Zenon DEF Sign!FinishLogin
  <2>2. CASE ~jobs[t].good
    BY <2>2 DEF Sign!FinishLogin
  <2> QED
    BY <2>1, <2>2
<1>5. ASSUME /\ jobs[t].good /\ opened < MaxSessions /\ opened' = id /\ jar' = id
             /\ sessions' = [sessions EXCEPT ![id] = entry]
             /\ Sign!Show(t, IF tabs[t].page = "wizard" THEN "finish" ELSE "app", id)
      PROVE  SignInv'
  <2>1. password # None /\ id \in Sign!Ids /\ id \in Nat
    BY <1>1, <1>5 DEF InFlight, SignTypes, Sign!Ids, Sign!SettingIsSound
  <2>2. /\ entry \in Sign!Rows /\ entry.under = jobs[t].word /\ entry.seen <= entry.dies
        /\ entry.raced = (jobs[t].word # password)
    BY <1>1 DEF SignTypes, Sign!Rows, Sign!Requests, Sign!SettingIsSound
  <2>3. entry.under = password \/ entry.raced
    BY <2>2
  <2> HIDE DEF entry
  <2>4. sessions' \in [Sign!Ids -> Sign!Rows \cup {None}]
    BY <1>1, <1>5, <2>1, <2>2 DEF SignTypes
  <2>5. ASSUME NEW i \in Sign!Ids, sessions'[i] # None
        PROVE  /\ sessions'[i].under = password \/ sessions'[i].raced \/ cut
               /\ sessions'[i].seen <= sessions'[i].dies
    <3>1. CASE i = id
      BY <1>1, <1>5, <2>2, <2>3, <3>1 DEF SignTypes
    <3>2. CASE i # id
      <4>1. sessions'[i] = sessions[i]
        BY <1>1, <1>5, <3>2 DEF SignTypes
      <4> QED
        BY <2>5, <4>1 DEF SignInv, Sign!SignInIsSafe, Sign!SessionsAreCurrent, Sign!SessionsDie
    <3> QED
      BY <3>1, <3>2
  <2>6. Sign!SignInIsSafe'
    BY <1>1, <2>1, <2>5 DEF SignInv, Sign!SignInIsSafe, Sign!SessionsAreCurrent, Sign!SessionsDie,
       Sign!SetupEndsKnown
  <2>7. SignTypes'
    <3>1. tabs' \in [Tabs -> [page : Pages, token : Sign!Ids \cup {None}]]
      <4>1. (IF tabs[t].page = "wizard" THEN "finish" ELSE "app") \in Pages
        BY DEF Pages
      <4> QED
        BY <1>1, <1>5, <2>1, <4>1 DEF Sign!Show, SignTypes
    <3> QED
      BY <1>1, <1>2, <1>5, <2>1, <2>4, <3>1 DEF SignTypes
  <2> QED
    BY <1>2, <2>6, <2>7 DEF SignInv
<1> QED
  BY <1>3, <1>4, <1>5

(* The process ends, perhaps between the new password and the revocation.  *)
LEMMA SignEnds == ASSUME Sign!SettingIsSound, SignInv, Sign!End PROVE SignInv'
<1>1. /\ SignTypes /\ UNCHANGED <<opened, given, completed, sessions, authClock, jar, tabs>>
      /\ jobs' = [t \in Tabs |-> None] /\ None \notin Nat
  BY DEF Sign!End, SignInv, Sign!SettingIsSound
<1>2. jobs' \in [Tabs -> Sign!Requests \cup {None}] /\ \A u \in Tabs : InFlight(u)'
  BY <1>1 DEF InFlight
<1>3. CASE UNCHANGED <<password, cut>>
  <2>1. Fewer
    BY <1>1, UseKeepsFewer
  <2>2. Sign!SignInIsSafe'
    BY <1>1, <1>3, <2>1, SafeStays
  <2>3. SignTypes'
    BY <1>1, <1>2, <1>3 DEF SignTypes
  <2> QED
    BY <1>2, <2>2, <2>3 DEF SignInv
<1>4. ASSUME NEW t \in Tabs, jobs[t] # None, jobs[t].kind \in {"setup", "change"},
             password' = jobs[t].word, cut' = TRUE
      PROVE  SignInv'
  <2>1. password' \in 1..given /\ password' # None
    BY <1>1, <1>4 DEF SignInv, SignTypes, InFlight, Sign!Requests
  <2>2. SignTypes'
    BY <1>1, <1>2, <2>1 DEF SignTypes
  <2>3. Sign!SignInIsSafe'
    BY <1>1, <1>4, <2>1 DEF SignInv, Sign!SignInIsSafe, Sign!SessionsAreCurrent, Sign!SessionsDie,
       Sign!SetupEndsKnown
  <2> QED
    BY <1>2, <2>2, <2>3 DEF SignInv
<1> QED
  BY <1>3, <1>4 DEF Sign!End

LEMMA SignNext == ASSUME Sign!SettingIsSound, SignInv, [Sign!Next]_(Sign!vars) PROVE SignInv'
<1>1. CASE UNCHANGED Sign!vars
  <2>1. UNCHANGED <<password, given, opened, completed, sessions, authClock, jar, tabs, jobs, cut>>
    BY <1>1 DEF Sign!vars
  <2>2. Fewer
    BY <2>1, UseKeepsFewer
  <2>3. Sign!SignInIsSafe'
    BY <2>1, <2>2, SafeStays
  <2>4. SignTypes' /\ \A t \in Tabs : InFlight(t)'
    BY <2>1 DEF SignInv, SignTypes, InFlight
  <2> QED
    BY <2>3, <2>4 DEF SignInv
<1>2. CASE Sign!Next
  BY <1>2, SignPages, SignRequests, PasswordIsSet, LoginEnds, SignEnds DEF Sign!Next
<1> QED
  BY <1>1, <1>2

(* Whoever is let in signed in with the password in force, unless it was   *)
(* being compared while another was stored, or the process ended between   *)
(* the two; no session outlives its end; and setup is over only when there *)
(* is a password: for any number of tabs, sessions and changes.            *)
THEOREM SigningInIsSafe ==
    ASSUME Sign!SettingIsSound PROVE Sign!Spec => []Sign!SignInIsSafe
<1>1. SignInv => Sign!SignInIsSafe
  BY DEF SignInv
<1> QED
  BY <1>1, SignInit, SignNext, PTL DEF Sign!Spec

-----------------------------------------------------------------------------
(* The packages under the bridge.  Until the service restarts, a script    *)
(* that has said something is where the file says it is, and one that has  *)
(* not is what the manager waits for.                                      *)
PackagesInv ==
    /\ boots \in Nat
    /\ boots = 0 =>
         /\ osScript \in {None, "begin", "refreshing", "upgrading", "cleaning", "rebooting"}
         /\ osScript \notin {None, "begin"} => osFile = osScript
         /\ osScript = "begin" => osFile = None /\ osPhase = "refreshing"

LEMMA PackagesNext ==
    ASSUME OsUp!NoneIsNothing
    PROVE  PackagesInv /\ [OsUp!Next]_(OsUp!osVars) => PackagesInv'
<1> SUFFICES ASSUME PackagesInv, [OsUp!Next]_(OsUp!osVars) PROVE PackagesInv'
  OBVIOUS
<1> USE DEF OsUp!NoneIsNothing, OsUp!Phases
<1>1. CASE OsUp!Run
  <2>1. osFile' = None /\ osPhase' = "refreshing" /\ boots' = boots /\ OsUp!HelperStarts
        /\ OsUp!Refreshed \in OsUp!AtRest
    BY <1>1 DEF OsUp!Run, OsUp!IsRunning
  <2>2. osScript' \in {"begin", osScript}
    BY <2>1 DEF OsUp!HelperStarts
  <2>3. boots = 0 => osScript = None
    BY <2>1 DEF PackagesInv, OsUp!Refreshed, OsUp!AtRest
  <2> QED
    BY <2>1, <2>2, <2>3 DEF PackagesInv
<1>2. CASE OsUp!Poll
  BY <1>2 DEF OsUp!Poll, OsUp!Refreshed, PackagesInv
<1>3. CASE OsUp!Apt
  <2>1. /\ osScript # None /\ UNCHANGED <<osPhase, boots>>
        /\ \E p \in {"refreshing", "upgrading", "cleaning", "failed", "done", "rebooting"} :
             OsUp!Report(p)
    BY <1>3 DEF OsUp!Apt, OsUp!After
  <2> QED
    BY <2>1 DEF OsUp!Report, OsUp!AtRest, PackagesInv
<1>4. CASE OsUp!Reboot
  BY <1>4 DEF OsUp!Reboot, PackagesInv
<1>5. CASE OsUp!Restart
  BY <1>5 DEF OsUp!Restart, PackagesInv
<1>6. CASE UNCHANGED OsUp!osVars
  BY <1>6 DEF OsUp!osVars, PackagesInv
<1> QED
  BY <1>1, <1>2, <1>3, <1>4, <1>5, <1>6 DEF OsUp!Next

(* A second run of apt is not let in beside one: what is read as at rest   *)
(* has no unit, until the service restarts.                                *)
THEOREM RestHolds == ASSUME OsUp!NoneIsNothing PROVE OsUp!Spec => []OsUp!RestMeansRest
<1>1. OsUp!Init => PackagesInv
  BY DEF OsUp!Init, PackagesInv, OsUp!NoneIsNothing
<1>2. PackagesInv => OsUp!RestMeansRest
  BY DEF PackagesInv, OsUp!RestMeansRest, OsUp!IsRunning, OsUp!Refreshed, OsUp!AtRest,
         OsUp!NoneIsNothing, OsUp!Phases
<1> QED
  BY <1>1, <1>2, PackagesNext, PTL DEF OsUp!Spec

-----------------------------------------------------------------------------
(* The network.  As long as no rollback has happened no side runs on its   *)
(* clone; a request that got through, and cut its caller off, came in on   *)
(* the side it was about, so that a timer is armed for that side.          *)
\* a set of numbers has a least one: what holds of 0 and carries on holds of all
LEMMA Least ==
  ASSUME NEW T, T \subseteq Nat, T # {}
  PROVE  \E x \in T : \A y \in T : x <= y
<1>1. PICK x \in T : \A y \in T : ~ (<<y, x>> \in OpToRel(<, Nat))
  BY NatLessThanWellFounded, WFMin, Zenon
<1>2. \A y \in T : ~(y < x)
  BY <1>1, Zenon DEF OpToRel
<1>3. \A y \in T : x <= y
  BY <1>2
<1> QED
  BY <1>3, Zenon

Doubled(g, i) == IF i = 0 THEN 1 ELSE 2 * g[i - 1]

LEMMA PowersExist ==
  ASSUME NEW L \in Nat
  PROVE  \E g : g = [i \in 0..L |-> Doubled(g, i)]
<1> DEFINE Is(n) == \E g : g = [i \in 0..n |-> Doubled(g, i)]
<1> DEFINE T == {n \in Nat : ~Is(n)}
<1>1. Is(0)
  <2> DEFINE g == [i \in 0..0 |-> 1]
  <2>1. g = [i \in 0..0 |-> Doubled(g, i)]
    BY DEF Doubled
  <2> QED
    BY <2>1
<1>2. ASSUME NEW n \in Nat, Is(n) PROVE Is(n + 1)
  <2>1. PICK g : g = [i \in 0..n |-> Doubled(g, i)]
    BY <1>2
  <2> DEFINE h == [i \in 0..(n + 1) |-> Doubled(g, i)]
  <2>2. ASSUME NEW i \in 0..(n + 1) PROVE Doubled(g, i) = Doubled(h, i)
    <3>1. i # 0 => i - 1 \in 0..n /\ i - 1 \in 0..(n + 1)
      OBVIOUS
    <3>2. i # 0 => g[i - 1] = h[i - 1]
      BY <2>1, <3>1
    <3> QED
      BY <3>2 DEF Doubled
  <2>3. h = [i \in 0..(n + 1) |-> Doubled(h, i)]
    BY <2>2
  <2> QED
    BY <2>3
<1> HIDE DEF Is
<1>3. T = {}
  <2> SUFFICES ASSUME T # {} PROVE FALSE
    OBVIOUS
  <2>1. PICK x \in T : \A y \in T : x <= y
    BY Least
  <2>2. x # 0
    BY <1>1
  <2>3. x - 1 \in Nat /\ x - 1 \notin T
    BY <2>1, <2>2
  <2> QED
    BY <1>2, <2>3
<1>4. Is(L)
  BY <1>3
<1> QED
  BY <1>4 DEF Is

LEMMA Powers ==
  ASSUME Width \in Nat
  PROVE  /\ Net!Power[0] = 1
         /\ \A n \in 1..Width : Net!Power[n] = 2 * Net!Power[n - 1]
<1>1. Net!Power = CHOOSE g : g = [i \in 0..Width |-> Doubled(g, i)]
  BY Zenon DEF Net!Power, Doubled
<1>2. Net!Power = [i \in 0..Width |-> Doubled(Net!Power, i)]
  BY <1>1, PowersExist, Zenon
<1>3. \A i \in 0..Width : Net!Power[i] = Doubled(Net!Power, i)
  BY <1>2, Zenon
<1>4. 0 \in 0..Width /\ \A n \in 1..Width : n \in 0..Width /\ n # 0
  OBVIOUS
<1> QED
  BY <1>3, <1>4 DEF Doubled

LEMMA PowersAreNat ==
  ASSUME Width \in Nat PROVE \A n \in 0..Width : Net!Power[n] \in Nat \ {0}
<1> DEFINE T == {n \in 0..Width : Net!Power[n] \notin Nat \ {0}}
<1> SUFFICES ASSUME T # {} PROVE FALSE
  OBVIOUS
<1>0. T \subseteq Nat
  OBVIOUS
<1>1. PICK x \in T : \A y \in T : x <= y
  <2> HIDE DEF T
  <2> QED
    BY <1>0, Least, Zenon
<1>2. x # 0
  BY Powers
<1>3. x - 1 \in 0..Width /\ x - 1 \notin T /\ x \in 1..Width
  BY <1>1, <1>2
<1>4. Net!Power[x - 1] \in Nat \ {0}
  BY <1>3
<1> QED
  BY <1>3, <1>4, Powers

\* a smaller power divides the greatest one
LEMMA PowersDivide ==
  ASSUME Width \in Nat, NEW k \in 0..Width
  PROVE  \E i \in Nat \ {0} : Net!Power[Width] = i * Net!Power[k]
<1> DEFINE Is(n) == \E i \in Nat \ {0} : Net!Power[Width] = i * Net!Power[n]
<1> DEFINE T == {j \in 0..Width : ~Is(Width - j)}
<1>1. 0 \notin T
  <2>1. Net!Power[Width] \in Nat
    BY PowersAreNat
  <2>2. Net!Power[Width] = 1 * Net!Power[Width - 0]
    BY <2>1
  <2> QED
    BY <2>2
<1>2. ASSUME NEW n \in 1..Width, Is(n) PROVE Is(n - 1)
  <2>1. PICK i \in Nat \ {0} : Net!Power[Width] = i * Net!Power[n]
    BY <1>2
  <2>2. PICK d \in Nat : d = Net!Power[n - 1]
    BY PowersAreNat
  <2>3. Net!Power[Width] = i * (2 * d)
    BY <2>1, <2>2, Powers
  <2>4. i * (2 * d) = (2 * i) * d /\ 2 * i \in Nat \ {0}
    OBVIOUS
  <2> QED
    BY <2>2, <2>3, <2>4
<1> HIDE DEF Is
<1>3. T = {}
  <2> SUFFICES ASSUME T # {} PROVE FALSE
    OBVIOUS
  <2>0. T \subseteq Nat
    OBVIOUS
  <2>1. PICK x \in T : \A y \in T : x <= y
    <3> HIDE DEF T
    <3> QED
      BY <2>0, Least, Zenon
  <2>2. x # 0
    BY <1>1
  <2>3. x - 1 \in 0..Width /\ x - 1 \notin T
    BY <2>1, <2>2
  <2>4. Is(Width - (x - 1))
    BY <2>3
  <2>5. Width - (x - 1) \in 1..Width /\ (Width - (x - 1)) - 1 = Width - x
    BY <2>2
  <2>6. Is(Width - x)
    BY <2>4, <2>5, <1>2
  <2> QED
    BY <2>6
<1>4. Is(Width - (Width - k))
  BY <1>3
<1>5. Width - (Width - k) = k
  OBVIOUS
<1> QED
  BY <1>4, <1>5 DEF Is

LEMMA DividesInto ==
  ASSUME NEW d \in Nat \ {0}, NEW q \in Nat, NEW r \in Nat, r < d, NEW a, a = q * d + r
  PROVE  a \div d = q /\ a % d = r
<1>1. a \in Nat
  <2>1. q * d \in Nat
    OBVIOUS
  <2> QED
    BY <2>1
<1>2. PICK x \in Int : x = a \div d
  BY <1>1
<1>3. PICK y \in Nat : y = a % d /\ y < d
  BY <1>1
<1>4. a = d * x + y
  BY <1>1, <1>2, <1>3
<1>5. d * (x - q) = r - y
  BY <1>4
<1>6. x = q
  <2>1. CASE x < q
    <3>1. d * (q - x) >= d
      BY <2>1
    <3>2. d * (q - x) = y - r
      BY <1>5
    <3> QED
      BY <3>1, <3>2, <1>3
  <2>2. CASE x > q
    <3>1. d * (x - q) >= d
      BY <2>2
    <3> QED
      BY <3>1, <1>5, <1>3
  <2> QED
    BY <2>1, <2>2
<1>7. y = r
  BY <1>5, <1>6
<1> QED
  BY <1>2, <1>3, <1>6, <1>7

\* what a mask leaves of an address
LEMMA Masked ==
  ASSUME Net!SettingIsSound, NEW prefix \in 1..Width, NEW ip \in Nat
  PROVE  /\ Net!Power[Width - prefix] \in Nat \ {0}
         /\ Net!And(ip, Net!Mask(prefix))
              = (ip \div Net!Power[Width - prefix]) * Net!Power[Width - prefix]
<1>1. Width \in Nat /\ Width - prefix \in 0..Width /\ (Width - prefix) % Width = Width - prefix
  <2>1. Width \in Nat \ {0}
    BY DEF Net!SettingIsSound
  <2>2. Width - prefix \in 0..(Width - 1)
    BY <2>1
  <2> QED
    BY <2>1, <2>2
<1>2. PICK d \in Nat \ {0} : d = Net!Power[Width - prefix]
  BY <1>1, PowersAreNat
<1>3. PICK p \in Nat \ {0} : p = Net!Power[Width]
  BY <1>1, PowersAreNat
<1>4. PICK q \in Nat \ {0} : p = q * d
  BY <1>1, <1>2, <1>3, PowersDivide
<1>5. d <= p
  <2>1. q * d >= d
    OBVIOUS
  <2> QED
    BY <2>1, <1>4
<1>6. (p - 1) * d = (d - 1) * p + (p - d)
  OBVIOUS
<1>7. ((p - 1) * d) % p = p - d
  <2>1. d - 1 \in Nat /\ p - d \in Nat /\ p - d < p
    BY <1>5
  <2>2. PICK a : a = (p - 1) * d
    OBVIOUS
  <2>3. a = (d - 1) * p + (p - d)
    BY <2>2, <1>6
  <2>4. PICK x \in Nat, y \in Nat : x = d - 1 /\ y = p - d
    BY <2>1
  <2>5. a % p = y
    <3>1. y < p /\ a = x * p + y
      BY <2>1, <2>3, <2>4
    <3> QED
      BY <3>1, DividesInto
  <2> QED
    BY <2>2, <2>4, <2>5
<1>8. Net!Mask(prefix) = p - d
  <2>1. Net!Mask(prefix) = ((p - 1) * Net!Power[(Width - prefix) % Width]) % p
    BY <1>3, Zenon DEF Net!Mask, Net!ShiftLeft
  <2> QED
    BY <2>1, <1>1, <1>2, <1>7, Zenon
<1>9. p - (p - d) = d
  OBVIOUS
<1>10. Net!And(ip, Net!Mask(prefix)) = (ip \div (p - (p - d))) * (p - (p - d))
  BY <1>3, <1>8, Zenon DEF Net!And
<1> QED
  BY <1>2, <1>9, <1>10, Zenon

LEMMA SubnetsMatch ==
  ASSUME Net!SettingIsSound, NEW ip \in Net!Addresses, NEW address1 \in Net!Addresses,
         NEW prefix \in 0..Width
  PROVE  Net!IsInSubnet(ip, address1, prefix)
           <=> ip \div Net!Power[Width - prefix] = address1 \div Net!Power[Width - prefix]
<1>1. Width \in Nat
  BY DEF Net!SettingIsSound
<1>2. PICK p \in Nat \ {0} : p = Net!Power[Width]
  BY <1>1, PowersAreNat
<1>3. ip \in 0..(p - 1) /\ address1 \in 0..(p - 1)
  BY <1>2, Zenon DEF Net!Addresses
<1>4. CASE prefix = 0
  <2>1. ip \div p = 0 /\ address1 \div p = 0
    <3>1. ip \in Nat /\ address1 \in Nat /\ ip < p /\ address1 < p /\ 0 \in Nat
      BY <1>3
    <3>2. ip = 0 * p + ip /\ address1 = 0 * p + address1
      BY <3>1
    <3> QED
      BY <3>1, <3>2, DividesInto
  <2>2. Width - prefix = Width
    BY <1>1, <1>4
  <2> QED
    BY <1>2, <1>4, <2>1, <2>2, Zenon DEF Net!IsInSubnet
<1>5. CASE prefix # 0
  <2>1. prefix \in 1..Width /\ ip \in Nat /\ address1 \in Nat
    BY <1>3, <1>5
  <2>2. PICK d \in Nat \ {0} : d = Net!Power[Width - prefix]
    BY <2>1, Masked
  <2>3. PICK x \in Nat, y \in Nat : x = ip \div d /\ y = address1 \div d
    BY <2>1
  <2>4. Net!And(ip, Net!Mask(prefix)) = x * d /\ Net!And(address1, Net!Mask(prefix)) = y * d
    BY <2>1, <2>2, <2>3, Masked
  <2>5. x * d = y * d <=> x = y
    <3>1. (x - y) * d = 0 => x - y = 0
      OBVIOUS
    <3>2. x * d = y * d => (x - y) * d = 0
      OBVIOUS
    <3> QED
      BY <3>1, <3>2
  <2>6. Net!IsInSubnet(ip, address1, prefix) <=> y * d = x * d
    BY <1>5, <2>4, Zenon DEF Net!IsInSubnet
  <2> QED
    BY <2>2, <2>3, <2>5, <2>6
<1> QED
  BY <1>4, <1>5

LEMMA SubnetsHold == Net!SettingIsSound => Net!SubnetsAgree
  BY SubnetsMatch DEF Net!SubnetsAgree

NetTypes ==
    /\ config \in [Net!Sides -> Net!Settings] /\ profile \in [Net!Sides -> Net!Settings]
    /\ clone \in [Net!Sides -> Net!Settings \cup {None}]
    /\ saves \in Nat /\ faults \in Nat /\ fired \in BOOLEAN
    /\ seat \in Net!Sides /\ via \in Net!Sides \cup {"loopback", "unknown"}
    /\ via \in Net!Sides => seat = via
NetInv == NetTypes /\ (fired \/ onClone = {}) /\ Net!ACutIsUndone

LEMMA NetBegins == Net!Init => NetInv
<1> SUFFICES ASSUME Net!Init PROVE NetInv
  OBVIOUS
<1>1. NetTypes
  BY DEF Net!Init, NetTypes, Net!Settings
<1>2. answer = "refused" \/ answer = None
  BY DEF Net!Init
<1>3. Net!Reached
  <2>1. Net!Live(seat) = "first"
    BY DEF Net!Init, Net!Live
  <2> QED
    BY <2>1 DEF Net!Reached, Net!Works
<1> QED
  BY <1>1, <1>3 DEF NetInv, Net!Init, Net!ACutIsUndone

\* what the operator reaches depends on the profile of his side
LEMMA ReachedBy ==
  ASSUME NetInv, ~fired
  PROVE  Net!Reached <=> profile[seat] # "wrong" \/ via = "loopback"
BY DEF NetInv, Net!Reached, Net!Works, Net!Live

LEMMA NetWorks ==
  ASSUME Net!SettingIsSound, NetInv, NEW s \in Net!Sides, Net!Reached,
         Net!HelperWorks(s, Net!WouldCutCaller(s)),
         UNCHANGED <<config, via, seat, saves, fired>>
  PROVE  NetInv'
<1>1. PICK revert \in BOOLEAN : revert <=> via \in {s, "unknown"}
  OBVIOUS
<1>2. Net!WouldCutCaller(s) = revert
  BY <1>1 DEF Net!WouldCutCaller
<1>3. /\ clone' = [clone EXCEPT ![s] = IF revert THEN profile[s] ELSE None]
      /\ profile' = [profile EXCEPT ![s] = config[s]]
      /\ armed' = IF revert THEN s ELSE None
      /\ UNCHANGED <<onClone, faults>>
  BY <1>2 DEF Net!HelperWorks
<1>4. NetTypes'
  BY <1>3 DEF NetInv, NetTypes
<1>5. ASSUME ~fired, ~Net!Reached'
      PROVE  armed' = seat /\ clone'[seat] # None /\ clone'[seat] # "wrong"
  <2>1. /\ seat \in Net!Sides /\ onClone = {} /\ (via \in Net!Sides => seat = via)
        /\ profile \in [Net!Sides -> Net!Settings] /\ clone \in [Net!Sides -> Net!Settings \cup {None}]
    BY <1>5 DEF NetInv, NetTypes
  <2>2. ~(profile'[seat] # "wrong" \/ via = "loopback")
    BY <1>3, <1>5, <2>1 DEF Net!Reached, Net!Works, Net!Live
  <2>3. profile[seat] # "wrong"
    BY <1>5, <2>2, ReachedBy
  <2>4. s = seat
    BY <1>3, <2>1, <2>2, <2>3
  <2>5. revert
    <3>1. via \in Net!Sides \cup {"unknown"}
      BY <2>2 DEF NetInv, NetTypes, Net!Sides
    <3> QED
      BY <1>1, <2>1, <2>4, <3>1
  <2>6. clone'[seat] = profile[seat] /\ armed' = seat
    BY <1>3, <2>1, <2>4, <2>5
  <2>7. profile[seat] # None
    BY <2>1 DEF Net!SettingIsSound
  <2> QED
    BY <2>3, <2>6, <2>7
<1>6. Net!ACutIsUndone'
  BY <1>5 DEF Net!ACutIsUndone, Net!Works
<1> QED
  BY <1>3, <1>4, <1>6 DEF NetInv

\* a request that failed, or was refused, is not answered as one that got through
LEMMA NetFails ==
  ASSUME NetInv, NEW s \in Net!Sides, NEW revert,
         \/ Net!Refuse(s) \/ Net!Fail(s, revert)
         \/ Net!HelperWorks(s, FALSE) /\ answer' = "confirmed"
         \/ Net!HelperLosesTheClone(s),
         UNCHANGED <<config, via, seat, saves, fired>>
  PROVE  NetInv'
<1>1. /\ profile \in [Net!Sides -> Net!Settings] /\ clone \in [Net!Sides -> Net!Settings \cup {None}]
      /\ config \in [Net!Sides -> Net!Settings] /\ faults \in Nat
  BY DEF NetInv, NetTypes
<1>2. /\ profile' = profile \/ profile' = [profile EXCEPT ![s] = config[s]]
      /\ \E c \in Net!Settings \cup {None} : clone' = clone \/ clone' = [clone EXCEPT ![s] = c]
      /\ onClone' \subseteq onClone
      /\ faults' \in {faults, faults + 1}
      /\ answer' \in {"refused", "failed", "confirmed"} \/ faults' = faults + 1
  <2>1. CASE Net!Refuse(s)
    BY <2>1, <1>1 DEF Net!Refuse
  <2>2. CASE Net!Fail(s, revert)
    <3>1. answer' = "failed"
      BY <2>2 DEF Net!Fail
    <3>2. CASE Net!HelperFailsEarly(s)
      BY <3>1, <3>2 DEF Net!HelperFailsEarly
    <3>3. CASE Net!HelperFailsLate(s, revert)
      <4>1. (IF revert THEN profile[s] ELSE None) \in Net!Settings \cup {None}
        BY <1>1
      <4> QED
        BY <3>1, <3>3, <4>1 DEF Net!HelperFailsLate
    <3> QED
      BY <2>2, <3>2, <3>3 DEF Net!Fail
  <2>3. CASE Net!HelperWorks(s, FALSE) /\ answer' = "confirmed"
    BY <2>3 DEF Net!HelperWorks
  <2>4. CASE Net!HelperLosesTheClone(s)
    BY <2>4 DEF Net!HelperLosesTheClone
  <2> QED
    BY <2>1, <2>2, <2>3, <2>4
<1>3. NetTypes'
  BY <1>1, <1>2 DEF NetInv, NetTypes
<1>4. faults' # 0 \/ answer' \notin {"applied", "pending_confirmation"}
  BY <1>1, <1>2
<1> QED
  BY <1>2, <1>3, <1>4 DEF NetInv, Net!ACutIsUndone

LEMMA NetStands ==
  ASSUME NetInv, \/ UNCHANGED Net!networkVars
                 \/ \E s \in Net!Sides : Net!LinkChanges(s)
                 \/ \E s \in Net!Sides, settings1 \in Net!Settings : Net!Save(s, settings1)
                 \/ Net!TimerFires
  PROVE  NetInv'
<1>1. CASE Net!TimerFires
  <2>1. fired' = TRUE /\ UNCHANGED <<config, profile, clone, saves, faults, seat, via>>
    BY <1>1 DEF Net!TimerFires
  <2> QED
    BY <2>1 DEF NetInv, NetTypes, Net!ACutIsUndone
<1>2. CASE \E s \in Net!Sides, settings1 \in Net!Settings : Net!Save(s, settings1)
  <2>1. PICK s \in Net!Sides, settings1 \in Net!Settings : Net!Save(s, settings1)
    BY <1>2
  <2>2. /\ Net!Reached /\ saves' = saves + 1 /\ config' = [config EXCEPT ![s] = settings1]
        /\ UNCHANGED <<profile, clone, onClone, armed, via, seat, faults, fired>>
    BY <2>1 DEF Net!Save
  <2>3. Net!Reached'
    BY <2>2 DEF Net!Reached, Net!Works, Net!Live
  <2>4. NetTypes'
    BY <2>2 DEF NetInv, NetTypes
  <2> QED
    BY <2>2, <2>3, <2>4 DEF NetInv, Net!ACutIsUndone
<1>3. CASE UNCHANGED Net!networkVars \/ \E s \in Net!Sides : Net!LinkChanges(s)
  <2>1. UNCHANGED <<config, profile, clone, onClone, armed, via, seat, saves, faults, fired, answer>>
    BY <1>3 DEF Net!networkVars, Net!LinkChanges
  <2>2. NetTypes'
    BY <2>1 DEF NetInv, NetTypes
  <2>3. Net!ACutIsUndone'
    BY <2>1 DEF NetInv, Net!ACutIsUndone, Net!Reached, Net!Works, Net!Live
  <2> QED
    BY <2>1, <2>2, <2>3 DEF NetInv
<1> QED
  BY <1>1, <1>2, <1>3

LEMMA NetApplies ==
  ASSUME Net!SettingIsSound, NetInv, NEW s \in Net!Sides, Net!Apply(s) PROVE NetInv'
<1>1. Net!Reached /\ UNCHANGED <<config, via, seat, saves, fired>>
  BY DEF Net!Apply
<1>2. PICK revert : revert = Net!WouldCutCaller(s)
  OBVIOUS
<1>3. \/ Net!Refuse(s) \/ Net!Fail(s, revert) \/ Net!HelperWorks(s, revert)
      \/ Net!HelperLosesTheClone(s)
  BY <1>2, Zenon DEF Net!Apply
<1>4. CASE Net!HelperWorks(s, revert)
  BY <1>1, <1>2, <1>4, NetWorks, Zenon
<1>5. CASE Net!Refuse(s) \/ Net!Fail(s, revert) \/ Net!HelperLosesTheClone(s)
  BY <1>1, <1>5, NetFails, Zenon
<1> QED
  BY <1>3, <1>4, <1>5, Zenon

LEMMA NetConfirms ==
  ASSUME NetInv, NEW s \in Net!Sides, Net!Confirm(s) PROVE NetInv'
<1>1. UNCHANGED <<config, via, seat, saves, fired>>
  BY DEF Net!Confirm
<1>2. \/ Net!Refuse(s) \/ Net!Fail(s, FALSE)
      \/ Net!HelperWorks(s, FALSE) /\ answer' = "confirmed"
  BY Zenon DEF Net!Confirm
<1> QED
  BY <1>1, <1>2, NetFails, Zenon

LEMMA NetNext ==
  ASSUME Net!SettingIsSound, NetInv, [Net!Next]_(Net!networkVars) PROVE NetInv'
<1>1. CASE Net!BannerConfirms
  <2>1. Net!Confirm("lan") /\ "lan" \in Net!Sides
    BY <1>1 DEF Net!BannerConfirms, Net!Sides
  <2> QED
    BY <2>1, NetConfirms
<1>2. CASE \E s \in Net!Sides : Net!Apply(s)
  BY <1>2, NetApplies
<1> QED
  BY <1>1, <1>2, NetStands DEF Net!Next

(* For every width of an address, the gateway is inside the subnet when    *)
(* the bits of the prefix agree; and, whatever is saved, applied and       *)
(* confirmed on whichever side, an apply that cuts its caller off leaves   *)
(* the timer that brings a working profile back.                           *)
THEOREM NetworkHolds == ASSUME Net!SettingIsSound PROVE Net!Spec => []Net!NetworkIsSafe
<1>1. NetInv => Net!NetworkIsSafe
  BY SubnetsHold DEF NetInv, Net!NetworkIsSafe
<1> QED
  BY <1>1, NetBegins, NetNext, PTL DEF Net!Spec

-----------------------------------------------------------------------------
(* The limit of writes.  The hits that are kept and all that were let      *)
(* through agree on those that are still in the window.                    *)
Follow(s, S, g, i) == IF i = 0 THEN <<>> ELSE IF s[i] \in S THEN Append(g[i - 1], s[i]) ELSE g[i - 1]

LEMMA FollowExists ==
  ASSUME NEW s, NEW S, NEW L \in Nat
  PROVE  \E g : g = [i \in 0..L |-> Follow(s, S, g, i)]
<1> DEFINE Is(n) == \E g : g = [i \in 0..n |-> Follow(s, S, g, i)]
<1> DEFINE T == {n \in Nat : ~Is(n)}
<1>1. Is(0)
  <2> DEFINE g == [i \in 0..0 |-> <<>>]
  <2>1. g = [i \in 0..0 |-> Follow(s, S, g, i)]
    BY DEF Follow
  <2> QED
    BY <2>1
<1>2. ASSUME NEW n \in Nat, Is(n) PROVE Is(n + 1)
  <2>1. PICK g : g = [i \in 0..n |-> Follow(s, S, g, i)]
    BY <1>2
  <2> DEFINE h == [i \in 0..(n + 1) |-> Follow(s, S, g, i)]
  <2>2. ASSUME NEW i \in 0..(n + 1) PROVE Follow(s, S, g, i) = Follow(s, S, h, i)
    <3>1. i # 0 => i - 1 \in 0..n /\ i - 1 \in 0..(n + 1)
      OBVIOUS
    <3>2. i # 0 => g[i - 1] = h[i - 1]
      BY <2>1, <3>1
    <3> QED
      BY <3>2 DEF Follow
  <2>3. h = [i \in 0..(n + 1) |-> Follow(s, S, h, i)]
    BY <2>2
  <2> QED
    BY <2>3
<1> HIDE DEF Is
<1>3. T = {}
  <2> SUFFICES ASSUME T # {} PROVE FALSE
    OBVIOUS
  <2>1. PICK x \in T : \A y \in T : x <= y
    BY Least
  <2>2. x # 0
    BY <1>1
  <2>3. x - 1 \in Nat /\ x - 1 \notin T
    BY <2>1, <2>2
  <2> QED
    BY <1>2, <2>3
<1>4. Is(L)
  BY <1>3
<1> QED
  BY <1>4 DEF Is

\* a set that has the empty sequence, and with a sequence every longer one
LEMMA SeqsBuilt ==
  ASSUME NEW X, NEW T, <<>> \in T,
         \A s \in Seq(X), e \in X : s \in T => Append(s, e) \in T,
         NEW s \in Seq(X)
  PROVE  s \in T
<1> DEFINE L == {n \in 0..Len(s) : SubSeq(s, 1, n) \notin T}
<1>1. Len(s) \in Nat /\ SubSeq(s, 1, 0) = <<>> /\ SubSeq(s, 1, Len(s)) = s
  OBVIOUS
<1>2. ASSUME NEW n \in 1..Len(s), SubSeq(s, 1, n - 1) \in T PROVE SubSeq(s, 1, n) \in T
  <2>1. SubSeq(s, 1, n - 1) \in Seq(X) /\ s[n] \in X
    OBVIOUS
  <2>2. SubSeq(s, 1, n) = Append(SubSeq(s, 1, n - 1), s[n])
    OBVIOUS
  <2> QED
    BY <1>2, <2>1, <2>2
<1>3. L = {}
  <2> SUFFICES ASSUME L # {} PROVE FALSE
    OBVIOUS
  <2>0. L \subseteq Nat
    BY <1>1
  <2>1. PICK x \in L : \A y \in L : x <= y
    <3> HIDE DEF L
    <3> QED
      BY <2>0, Least, Zenon
  <2>2. x # 0 /\ x \in 0..Len(s)
    BY <1>1
  <2>3. x - 1 \in 0..Len(s) /\ x - 1 \notin L
    BY <1>1, <2>1, <2>2
  <2> QED
    BY <1>1, <1>2, <2>2, <2>3
<1>4. Len(s) \notin L /\ Len(s) \in 0..Len(s)
  BY <1>1, <1>3
<1> QED
  BY <1>1, <1>4

LEMMA PickedNone == ASSUME NEW S PROVE Rate!Picked(<<>>, S) = <<>>
<1> DEFINE F(q) == CHOOSE g : g = [i \in 0..Len(q) |-> Follow(q, S, g, i)]
<1>1. ASSUME NEW q PROVE Rate!Picked(q, S) = F(q)[Len(q)]
  BY DEF Rate!Picked, Follow
<1>2. ASSUME NEW q, Len(q) \in Nat
      PROVE  F(q) = [i \in 0..Len(q) |-> Follow(q, S, F(q), i)]
  BY <1>2, FollowExists, Zenon
<1> HIDE DEF F
<1>3. Len(<<>>) = 0 /\ 0 \in 0..0 /\ 0 \in Nat
  OBVIOUS
<1>4. F(<<>>)[0] = Follow(<<>>, S, F(<<>>), 0)
  BY <1>2, <1>3
<1> QED
  BY <1>1, <1>3, <1>4 DEF Follow

LEMMA PickedAppends ==
  ASSUME NEW X, NEW S, NEW s \in Seq(X), NEW e \in X
  PROVE  Rate!Picked(Append(s, e), S)
           = IF e \in S THEN Append(Rate!Picked(s, S), e) ELSE Rate!Picked(s, S)
<1> DEFINE F(q) == CHOOSE g : g = [i \in 0..Len(q) |-> Follow(q, S, g, i)]
<1>1. ASSUME NEW q PROVE Rate!Picked(q, S) = F(q)[Len(q)]
  BY DEF Rate!Picked, Follow
<1>2. ASSUME NEW q, Len(q) \in Nat
      PROVE  F(q) = [i \in 0..Len(q) |-> Follow(q, S, F(q), i)]
  BY <1>2, FollowExists, Zenon
<1> HIDE DEF F
<1> QED
  <2>1. PICK l : l = Append(s, e)
    OBVIOUS
  <2>2. /\ Len(s) \in Nat /\ Len(l) = Len(s) + 1 /\ l[Len(s) + 1] = e
        /\ \A i \in 1..Len(s) : l[i] = s[i]
    BY <2>1
  <2>3. PICK f : f = F(s)
    OBVIOUS
  <2>4. PICK g : g = F(l)
    OBVIOUS
  <2>5. /\ \A i \in 0..Len(s) : f[i] = Follow(s, S, f, i)
        /\ \A i \in 0..Len(l) : g[i] = Follow(l, S, g, i)
    <3>1. Len(l) \in Nat
      BY <2>2
    <3>2. f = [i \in 0..Len(s) |-> Follow(s, S, f, i)]
      BY <1>2, <2>2, <2>3, Zenon
    <3>3. g = [i \in 0..Len(l) |-> Follow(l, S, g, i)]
      BY <1>2, <3>1, <2>4, Zenon
    <3> QED
      BY <3>2, <3>3, Zenon
  <2> DEFINE D == {i \in 0..Len(s) : f[i] # g[i]}
  <2>6. D = {}
    <3> SUFFICES ASSUME D # {} PROVE FALSE
      OBVIOUS
    <3>0. D \subseteq Nat
      BY <2>2
    <3>1. PICK x \in D : \A y \in D : x <= y
      <4> HIDE DEF D
      <4> QED
        BY <3>0, Least, Zenon
    <3>2. x \in 0..Len(s) /\ x \in 0..Len(l) /\ f[x] # g[x]
      BY <2>2
    <3>3. f[x] = Follow(s, S, f, x) /\ g[x] = Follow(l, S, g, x)
      BY <2>5, <3>2
    <3>4. x # 0
      BY <3>2, <3>3 DEF Follow
    <3>5. x - 1 \in 0..Len(s) /\ x - 1 \notin D /\ x \in 1..Len(s)
      BY <2>2, <3>1, <3>2, <3>4
    <3>6. f[x - 1] = g[x - 1] /\ l[x] = s[x]
      BY <2>2, <3>5
    <3> QED
      BY <3>2, <3>3, <3>6 DEF Follow
  <2>7. f[Len(s)] = g[Len(s)]
    <3>1. Len(s) \in 0..Len(s)
      BY <2>2
    <3> QED
      BY <2>6, <3>1
  <2>8. g[Len(l)] = Follow(l, S, g, Len(l))
    <3>1. Len(l) \in 0..Len(l)
      BY <2>2
    <3> QED
      BY <2>5, <3>1
  <2>9. g[Len(l)] = IF e \in S THEN Append(g[Len(s)], e) ELSE g[Len(s)]
    <3>1. Len(l) # 0 /\ Len(l) - 1 = Len(s)
      BY <2>2
    <3> QED
      BY <2>2, <2>8, <3>1 DEF Follow
  <2>10. Rate!Picked(l, S) = g[Len(l)] /\ Rate!Picked(s, S) = f[Len(s)]
    BY <1>1, <2>3, <2>4, Zenon
  <2> QED
    BY <2>1, <2>7, <2>9, <2>10, Zenon

LEMMA PickedIsSeq ==
  ASSUME NEW X, NEW S, NEW s \in Seq(X) PROVE Rate!Picked(s, S) \in Seq(X)
<1> DEFINE T == {x \in Seq(X) : Rate!Picked(x, S) \in Seq(X)}
<1>1. <<>> \in T
  <2>1. <<>> \in Seq(X) /\ Rate!Picked(<<>>, S) = <<>>
    BY PickedNone
  <2> QED
    BY <2>1, Zenon
<1>2. ASSUME NEW x \in Seq(X), NEW e \in X, x \in T PROVE Append(x, e) \in T
  <2>1. PICK r : r = Rate!Picked(x, S)
    OBVIOUS
  <2>2. r \in Seq(X)
    BY <1>2, <2>1, Zenon
  <2>3. PICK y : y = Rate!Picked(Append(x, e), S)
    OBVIOUS
  <2>4. y = IF e \in S THEN Append(r, e) ELSE r
    BY <2>1, <2>3, PickedAppends
  <2>5. y \in Seq(X) /\ Append(x, e) \in Seq(X)
    BY <2>2, <2>4
  <2> QED
    BY <2>3, <2>5, Zenon
<1> HIDE DEF T
<1>3. s \in T
  BY <1>1, <1>2, SeqsBuilt, Zenon
<1> QED
  BY <1>3, Zenon DEF T

\* what is picked of what was picked
LEMMA PickedTwice ==
  ASSUME NEW X, NEW S, NEW R, R \subseteq S, NEW s \in Seq(X)
  PROVE  Rate!Picked(Rate!Picked(s, S), R) = Rate!Picked(s, R)
<1> DEFINE T == {x \in Seq(X) : Rate!Picked(Rate!Picked(x, S), R) = Rate!Picked(x, R)}
<1>1. <<>> \in T
  BY PickedNone
<1>2. ASSUME NEW x \in Seq(X), NEW e \in X, x \in T PROVE Append(x, e) \in T
  <2>1. PICK y \in Seq(X) : y = Rate!Picked(x, S)
    BY PickedIsSeq
  <2>2. PICK z : z = Rate!Picked(x, R)
    OBVIOUS
  <2>3. Rate!Picked(y, R) = z
    BY <1>2, <2>1, <2>2
  <2>4. Rate!Picked(Append(x, e), S) = IF e \in S THEN Append(y, e) ELSE y
    BY <2>1, PickedAppends
  <2>5. Rate!Picked(Append(x, e), R) = IF e \in R THEN Append(z, e) ELSE z
    BY <2>2, PickedAppends
  <2>6. Rate!Picked(Append(y, e), R) = IF e \in R THEN Append(z, e) ELSE z
    BY <2>3, PickedAppends
  <2>7. Append(x, e) \in Seq(X)
    OBVIOUS
  <2> QED
    BY <2>3, <2>4, <2>5, <2>6, <2>7
<1> HIDE DEF T
<1>3. s \in T
  BY <1>1, <1>2, SeqsBuilt, Zenon
<1> QED
  BY <1>3 DEF T

\* a set that has more of the sequence picks more of it
LEMMA PickedIsMore ==
  ASSUME NEW X, NEW S, NEW R, R \cap X \subseteq S, NEW s \in Seq(X)
  PROVE  /\ Len(Rate!Picked(s, R)) \in Nat
         /\ Len(Rate!Picked(s, R)) <= Len(Rate!Picked(s, S))
<1> DEFINE T == {x \in Seq(X) : Len(Rate!Picked(x, R)) <= Len(Rate!Picked(x, S))}
<1>1. <<>> \in T
  BY PickedNone
<1>2. ASSUME NEW x \in Seq(X), NEW e \in X, x \in T PROVE Append(x, e) \in T
  <2>1. PICK y \in Seq(X) : y = Rate!Picked(x, S)
    BY PickedIsSeq
  <2>2. PICK z \in Seq(X) : z = Rate!Picked(x, R)
    BY PickedIsSeq
  <2>3. Len(z) <= Len(y)
    BY <1>2, <2>1, <2>2
  <2>4. Rate!Picked(Append(x, e), S) = IF e \in S THEN Append(y, e) ELSE y
    BY <2>1, PickedAppends
  <2>5. Rate!Picked(Append(x, e), R) = IF e \in R THEN Append(z, e) ELSE z
    BY <2>2, PickedAppends
  <2>6. /\ Len(Append(y, e)) = Len(y) + 1 /\ Len(Append(z, e)) = Len(z) + 1
        /\ Len(y) \in Nat /\ Len(z) \in Nat
    OBVIOUS
  <2>7. Append(x, e) \in Seq(X)
    OBVIOUS
  <2> QED
    BY <2>3, <2>4, <2>5, <2>6, <2>7
<1> HIDE DEF T
<1>3. s \in T
  BY <1>1, <1>2, SeqsBuilt, Zenon
<1>4. Rate!Picked(s, R) \in Seq(X)
  BY PickedIsSeq
<1> QED
  BY <1>3, <1>4 DEF T

LEMMA PickedAlike ==
  ASSUME NEW X, NEW S, NEW R, R \cap X = S \cap X, NEW s \in Seq(X)
  PROVE  Rate!Picked(s, R) = Rate!Picked(s, S)
<1> DEFINE T == {x \in Seq(X) : Rate!Picked(x, R) = Rate!Picked(x, S)}
<1>1. <<>> \in T
  BY PickedNone
<1>2. ASSUME NEW x \in Seq(X), NEW e \in X, x \in T PROVE Append(x, e) \in T
  <2>1. PICK y : y = Rate!Picked(x, S)
    OBVIOUS
  <2>2. Rate!Picked(Append(x, e), S) = IF e \in S THEN Append(y, e) ELSE y
    BY <2>1, PickedAppends
  <2>3. Rate!Picked(Append(x, e), R) = IF e \in R THEN Append(y, e) ELSE y
    BY <1>2, <2>1, PickedAppends
  <2>4. Append(x, e) \in Seq(X)
    OBVIOUS
  <2> QED
    BY <2>2, <2>3, <2>4
<1> HIDE DEF T
<1>3. s \in T
  BY <1>1, <1>2, SeqsBuilt, Zenon
<1> QED
  BY <1>3 DEF T

RateTypes == now \in Nat /\ granted \in Seq(0..now) /\ hits \in Seq(0..now)
RateInv ==
    /\ RateTypes /\ Rate!Live(hits) = Rate!Live(granted)
    /\ \A from \in Nat : Len(Rate!Within(from)) <= Limit
    /\ Rate!DeniedForAReason

Window(t) == {ts \in Nat : ts + WindowMs > t}
Reach(from) == {ts \in Nat : from < ts + WindowMs /\ ts <= from}

\* what is in the window that ends now is what still counts
LEMMA WindowIs == 
  ASSUME RateTypes
  PROVE  Rate!Within(now) = Rate!Live(granted)
<1>1. Reach(now) \cap (0..now) = Window(now) \cap (0..now)
  BY DEF RateTypes, Reach, Window
<1>2. Rate!Picked(granted, Reach(now)) = Rate!Picked(granted, Window(now))
  <2>1. granted \in Seq(0..now)
    BY DEF RateTypes
  <2>2. PICK X, R, S : X = 0..now /\ R = Reach(now) /\ S = Window(now)
    OBVIOUS
  <2>3. R \cap X = S \cap X /\ granted \in Seq(X)
    BY <1>1, <2>1, <2>2
  <2>4. Rate!Picked(granted, R) = Rate!Picked(granted, S)
    BY <2>3, PickedAlike
  <2> QED
    BY <2>2, <2>4, Zenon
<1> QED
  BY <1>2 DEF Rate!Within, Rate!Live, Reach, Window

LEMMA RateBegins == ASSUME Rate!BoundsAreSound, Rate!Init PROVE RateInv
<1>1. now = 0 /\ hits = <<>> /\ granted = <<>> /\ verdict = "none"
  BY DEF Rate!Init
<1>2. RateTypes
  BY <1>1 DEF RateTypes
<1>3. \A from : Len(Rate!Within(from)) = 0
  <2>1. \A S : Rate!Picked(<<>>, S) = <<>>
    BY PickedNone
  <2> QED
    BY <1>1, <2>1 DEF Rate!Within
<1> QED
  BY <1>1, <1>2, <1>3 DEF RateInv, Rate!BoundsAreSound, Rate!DeniedForAReason

LEMMA RateChecks ==
  ASSUME Rate!BoundsAreSound, RateInv, Rate!Check PROVE RateInv'
<1>1. PICK t \in Nat : t = now
  BY DEF RateInv, RateTypes
<1> DEFINE X == 0..t
           S == Window(t)
<1>2. granted \in Seq(X) /\ hits \in Seq(X) /\ t \in X
  BY <1>1 DEF RateInv, RateTypes
<1>3. PICK k \in Seq(X) : k = Rate!Picked(hits, S)
  BY <1>2, PickedIsSeq
<1>4. k = Rate!Picked(granted, S) /\ k = Rate!Live(hits) /\ k = Rate!Within(now)
  <2>1. Rate!Live(hits) = Rate!Picked(hits, S) /\ Rate!Live(granted) = Rate!Picked(granted, S)
    BY <1>1 DEF Rate!Live, Window
  <2> QED
    BY <1>3, <2>1, WindowIs, Zenon DEF RateInv
<1>5. Len(k) \in Nat /\ Len(k) <= Limit
  BY <1>1, <1>4 DEF RateInv
<1>6. Rate!Picked(k, S) = k
  BY <1>2, <1>3, PickedTwice
<1>7. now' = t /\ S = Window(now')
  BY <1>1 DEF Rate!Check
<1>8. CASE Len(k) >= Limit
  <2>1. hits' = k /\ verdict' = "denied" /\ UNCHANGED <<granted, now>>
    BY <1>4, <1>8 DEF Rate!Check
  <2>2. RateTypes'
    BY <1>1, <1>2, <1>3, <2>1 DEF RateTypes
  <2>3. (Rate!Live(hits) = Rate!Live(granted))'
    <3>1. Rate!Live(hits)' = Rate!Picked(k, S) /\ Rate!Live(granted)' = Rate!Picked(granted, S)
      BY <1>1, <2>1 DEF Rate!Live, Window
    <3> QED
      BY <1>4, <1>6, <3>1
  <2>4. Len(k) = Limit
    BY <1>5, <1>8 DEF Rate!BoundsAreSound
  <2>5. \A from : Rate!Within(from)' = Rate!Within(from)
    BY <2>1 DEF Rate!Within
  <2>6. Rate!DeniedForAReason'
    <3>1. Rate!Within(now)' = k
      BY <1>4, <2>1 DEF Rate!Within
    <3> QED
      BY <2>4, <3>1 DEF Rate!DeniedForAReason
  <2>7. (\A from \in Nat : Len(Rate!Within(from)) <= Limit)'
    BY <2>5 DEF RateInv
  <2> QED
    BY <2>2, <2>3, <2>6, <2>7 DEF RateInv
<1>9. CASE ~(Len(k) >= Limit)
  <2>1. /\ hits' = Append(k, t) /\ verdict' = "allowed" /\ granted' = Append(granted, t)
        /\ now' = now
    BY <1>1, <1>4, <1>9 DEF Rate!Check
  <2>2. RateTypes'
    <3>1. Append(k, t) \in Seq(X) /\ Append(granted, t) \in Seq(X)
      BY <1>2, <1>3
    <3> QED
      BY <1>1, <2>1, <3>1 DEF RateTypes
  <2>3. (Rate!Live(hits) = Rate!Live(granted))'
    <3>1. /\ Rate!Live(hits)' = Rate!Picked(Append(k, t), S)
          /\ Rate!Live(granted)' = Rate!Picked(Append(granted, t), S)
      BY <1>1, <2>1 DEF Rate!Live, Window
    <3>2. Rate!Picked(Append(k, t), S) = IF t \in S THEN Append(k, t) ELSE k
      BY <1>2, <1>3, <1>6, PickedAppends
    <3>3. Rate!Picked(Append(granted, t), S) = IF t \in S THEN Append(k, t) ELSE k
      <4>1. k = Rate!Picked(granted, S) /\ granted \in Seq(X) /\ t \in X
        BY <1>2, <1>4
      <4> HIDE DEF X, S
      <4>2. Rate!Picked(Append(granted, t), S)
              = IF t \in S THEN Append(Rate!Picked(granted, S), t) ELSE Rate!Picked(granted, S)
        BY <4>1, PickedAppends
      <4> QED
        BY <4>1, <4>2, Zenon
    <3> QED
      BY <3>1, <3>2, <3>3, Zenon
  <2>4. ASSUME NEW from \in Nat PROVE Len(Rate!Within(from)') <= Limit
    <3>1. Rate!Within(from)' = Rate!Picked(Append(granted, t), Reach(from))
      BY <2>1 DEF Rate!Within, Reach
    <3>2. PICK r \in Seq(X) : r = Rate!Picked(granted, Reach(from))
      BY <1>2, PickedIsSeq
    <3>3. r = Rate!Within(from)
      BY <3>2 DEF Rate!Within, Reach
    <3>4. Rate!Within(from)' = IF t \in Reach(from) THEN Append(r, t) ELSE r
      BY <1>2, <3>1, <3>2, PickedAppends
    <3>5. CASE t \in Reach(from)
      <4>1. Reach(from) \cap X \subseteq S
        BY <1>1, <3>5 DEF Reach, Window, Rate!BoundsAreSound
      <4>2. Len(Rate!Picked(granted, Reach(from))) <= Len(Rate!Picked(granted, S))
        BY <1>2, <4>1, PickedIsMore, Zenon
      <4>3. Len(r) <= Len(k)
        BY <1>4, <3>2, <4>2, Zenon
      <4>4. Len(Append(r, t)) = Len(r) + 1 /\ Len(r) \in Nat
        BY <1>2, <3>2
      <4>5. Len(r) + 1 <= Limit
        BY <1>5, <1>9, <4>3, <4>4 DEF Rate!BoundsAreSound
      <4> QED
        BY <3>4, <3>5, <4>4, <4>5
    <3>6. CASE t \notin Reach(from)
      BY <3>3, <3>4, <3>6 DEF RateInv
    <3> QED
      BY <3>5, <3>6
  <2>5. Rate!DeniedForAReason'
    BY <2>1 DEF Rate!DeniedForAReason
  <2>6. (\A from \in Nat : Len(Rate!Within(from)) <= Limit)'
    BY <2>4
  <2> QED
    BY <2>2, <2>3, <2>5, <2>6 DEF RateInv
<1> QED
  BY <1>8, <1>9

\* the sweeper and the clock only shorten what is kept
LEMMA RatePasses ==
  ASSUME Rate!BoundsAreSound, RateInv, Rate!Prune \/ Rate!Tick \/ UNCHANGED Rate!vars
  PROVE  RateInv'
<1>1. PICK t \in Nat, d \in Nat : t = now /\ d = now' /\ t <= d
  <2>1. now \in Nat /\ now' \in {now, now + 1}
    BY DEF RateInv, RateTypes, Rate!Prune, Rate!Tick, Rate!vars
  <2> QED
    BY <2>1
<1> DEFINE X == 0..t
<1>2. granted \in Seq(X) /\ hits \in Seq(X)
  BY <1>1 DEF RateInv, RateTypes
<1>3. PICK k \in Seq(X) : k = Rate!Picked(hits, Window(t))
  BY <1>2, PickedIsSeq
<1>4. k = Rate!Picked(granted, Window(t)) /\ k = Rate!Live(hits)
  <2>1. /\ Rate!Live(hits) = Rate!Picked(hits, Window(t))
        /\ Rate!Live(granted) = Rate!Picked(granted, Window(t))
    BY <1>1 DEF Rate!Live, Window
  <2> QED
    BY <1>3, <2>1, Zenon DEF RateInv
<1>5. granted' = granted /\ hits' \in {hits, k}
  BY <1>4 DEF Rate!Prune, Rate!Tick, Rate!vars
<1>6. RateTypes'
  <2>1. granted \in Seq(0..d) /\ hits \in Seq(0..d) /\ k \in Seq(0..d)
    <3>1. ASSUME NEW s \in Seq(X) PROVE s \in Seq(0..d)
      <4>1. \A i \in 1..Len(s) : s[i] \in X
        OBVIOUS
      <4>2. \A i \in 1..Len(s) : s[i] \in 0..d
        BY <1>1, <4>1
      <4> QED
        BY <4>2, IsASeq
    <3> QED
      BY <1>2, <3>1
  <2> QED
    BY <1>1, <1>5, <2>1 DEF RateTypes
<1>7. (Rate!Live(hits) = Rate!Live(granted))'
  <2>1. /\ Rate!Live(hits)' = Rate!Picked(hits', Window(d))
        /\ Rate!Live(granted)' = Rate!Picked(granted, Window(d))
    BY <1>1, <1>5 DEF Rate!Live, Window
  <2>2. Window(d) \subseteq Window(t)
    BY <1>1 DEF Window, Rate!BoundsAreSound
  <2>3. Rate!Picked(k, Window(d)) = Rate!Picked(hits, Window(d))
    BY <1>2, <1>3, <2>2, PickedTwice
  <2>4. Rate!Picked(k, Window(d)) = Rate!Picked(granted, Window(d))
    <3>1. k = Rate!Picked(granted, Window(t)) /\ granted \in Seq(X)
      BY <1>2, <1>4
    <3> HIDE DEF X
    <3>2. Rate!Picked(Rate!Picked(granted, Window(t)), Window(d)) = Rate!Picked(granted, Window(d))
      BY <2>2, <3>1, PickedTwice
    <3> QED
      BY <3>1, <3>2, Zenon
  <2> QED
    BY <1>5, <2>1, <2>3, <2>4
<1>8. \A from : Rate!Within(from)' = Rate!Within(from)
  BY <1>5 DEF Rate!Within
<1>9. (\A from \in Nat : Len(Rate!Within(from)) <= Limit)'
  BY <1>8 DEF RateInv
<1>10. Rate!DeniedForAReason'
  <2>1. CASE UNCHANGED Rate!vars
    BY <2>1 DEF RateInv, Rate!vars, Rate!DeniedForAReason, Rate!Within
  <2>2. CASE Rate!Prune \/ Rate!Tick
    BY <2>2 DEF Rate!Prune, Rate!Tick, Rate!DeniedForAReason
  <2> QED
    BY <2>1, <2>2
<1> QED
  BY <1>6, <1>7, <1>9, <1>10 DEF RateInv

(* For any window and any limit, whenever its requests come and the        *)
(* sweeper runs: no window, wherever it begins, holds more than the limit, *)
(* and who is denied has had as many in the one that ends now.             *)
THEOREM TheLimitHolds ==
  ASSUME Rate!BoundsAreSound
  PROVE  Rate!Init /\ [][Rate!Next]_(Rate!vars) => []Rate!LimitIsExact
<1>1. Rate!Init => RateInv
  BY RateBegins
<1>2. RateInv /\ [Rate!Next]_(Rate!vars) => RateInv'
  BY RateChecks, RatePasses DEF Rate!Next
<1>3. RateInv => Rate!LimitIsExact
  <2>1. \A from \in 0..MaxRateTime : from \in Nat
    OBVIOUS
  <2> QED
    BY <2>1 DEF RateInv, Rate!LimitIsExact, Rate!NeverMoreThanTheLimit
<1> QED
  BY <1>1, <1>2, <1>3, PTL

-----------------------------------------------------------------------------
(* The test of a connection.  What stops a run of smbclient is something   *)
(* that is wrong in that stage, and what it prints is classified as a kind *)
(* that this may be the cause of; what was seen while the test ran holds   *)
(* both; and as long as the page and the test speak of the same, the       *)
(* account of the test is the one its form would be saved with.            *)
Faults == {"unnamed", "silent", "closed", "away", "dialect", "skew", "locked", "expired",
           "password", "share", "rights", "path", "write"}

LEMMA Ordered ==
  /\ DOMAIN Test!Order = 1..14 /\ (\A i \in 1..13 : Test!Order[i] \in Faults)
  /\ Test!Order[14] = "altered"
BY DEF Test!Order, Faults

LEMMA UptoIs ==
  ASSUME NEW f \in Faults, \E i \in 1..13 : Test!Order[i] = f
  PROVE  Test!Upto(f) \subseteq Faults
<1> DEFINE last == CHOOSE i \in DOMAIN Test!Order : Test!Order[i] = f
<1>1. last \in 1..14 /\ Test!Order[last] = f
  BY Ordered
<1>2. last # 14
  BY <1>1, Ordered DEF Faults
<1>3. Test!Upto(f) = {Test!Order[i] : i \in 1..last}
  BY DEF Test!Upto
<1> HIDE DEF last
<1> QED
  BY <1>1, <1>2, <1>3, Ordered

LEMMA Shuts ==
  \A stage \in {"list", "connect", "put", "get", "del"} : Test!Shut[stage] \subseteq Faults
<1>1. /\ \E i \in 1..13 : Test!Order[i] = "rights"
      /\ \E i \in 1..13 : Test!Order[i] = "password"
      /\ \E i \in 1..13 : Test!Order[i] = "write"
      /\ \E i \in 1..13 : Test!Order[i] = "path"
  <2>1. Test!Order[11] = "rights" /\ Test!Order[9] = "password" /\ Test!Order[13] = "write"
        /\ Test!Order[12] = "path"
    BY DEF Test!Order
  <2>2. 11 \in 1..13 /\ 9 \in 1..13 /\ 13 \in 1..13 /\ 12 \in 1..13
    OBVIOUS
  <2> QED
    BY <2>1, <2>2
<1>2. {"rights", "password", "write", "path"} \subseteq Faults
  BY DEF Faults
<1>3. Test!Upto("rights") \subseteq Faults /\ Test!Upto("password") \subseteq Faults
      /\ Test!Upto("write") \subseteq Faults /\ Test!Upto("path") \subseteq Faults
  BY <1>1, <1>2, UptoIs
<1> QED
  BY <1>3 DEF Test!Shut

LEMMA StopsIs ==
  ASSUME NEW account, NEW stage, Test!Stops(account, stage) # "nothing"
  PROVE  Test!Stops(account, stage) \in Test!Wrong(account) \cap Test!Shut[stage]
<1> DEFINE met == {i \in DOMAIN Test!Order :
                     Test!Order[i] \in Test!Wrong(account) \cap Test!Shut[stage]}
<1>1. Test!Stops(account, stage) =
        IF met = {} THEN "nothing" ELSE Test!Order[CHOOSE i \in met : \A j \in met : i <= j]
  BY DEF Test!Stops
<1>2. met # {} /\ met \subseteq Nat
  BY <1>1, Ordered
<1>3. \E i \in met : \A j \in met : i <= j
  <2> HIDE DEF met
  <2> QED
    BY <1>2, Least
<1>4. (CHOOSE i \in met : \A j \in met : i <= j) \in met
  <2> HIDE DEF met
  <2> QED
    BY <1>3
<1> QED
  BY <1>1, <1>2, <1>4

LEMMA RulesAre ==
  /\ DOMAIN Test!Rules = 1..10
  /\ Test!Rules[1] = Test!Rule("account_locked", {"ACCOUNT_LOCKED_OUT"})
  /\ Test!Rules[2] = Test!Rule("account_expired", {"PASSWORD_EXPIRED"})
  /\ Test!Rules[3] = Test!Rule("auth_failed", {"LOGON_FAILURE"})
  /\ Test!Rules[4] = Test!Rule("share_not_found", {"BAD_NETWORK_NAME", "OBJECT_PATH_NOT_FOUND"})
  /\ Test!Rules[5] = Test!Rule("access_denied", {"ACCESS_DENIED"})
  /\ Test!Rules[6] = Test!Rule("clock_skew", {"TIME_DIFFERENCE_AT_DC"})
  /\ Test!Rules[7] = Test!Rule("name_resolution_failed", {"RESOURCE_NAME_NOT_FOUND"})
  /\ Test!Rules[8] = Test!Rule("protocol_negotiation_failed", {"INVALID_NETWORK_RESPONSE"})
  /\ Test!Rules[9] = Test!Rule("port_blocked", {"CONNECTION_REFUSED"})
  /\ Test!Rules[10] = Test!Rule("host_unreachable", {"HOST_UNREACHABLE", "CONNECTION TO "})
BY DEF Test!Rules, Test!Unreachable

LEMMA RulePatterns ==
  /\ Test!Rules[1].kind = "account_locked" /\ Test!Rules[1].patterns = {"ACCOUNT_LOCKED_OUT"}
  /\ Test!Rules[2].kind = "account_expired" /\ Test!Rules[2].patterns = {"PASSWORD_EXPIRED"}
  /\ Test!Rules[3].kind = "auth_failed" /\ Test!Rules[3].patterns = {"LOGON_FAILURE"}
  /\ Test!Rules[4].kind = "share_not_found" /\ Test!Rules[4].patterns = {"BAD_NETWORK_NAME", "OBJECT_PATH_NOT_FOUND"}
  /\ Test!Rules[5].kind = "access_denied" /\ Test!Rules[5].patterns = {"ACCESS_DENIED"}
  /\ Test!Rules[6].kind = "clock_skew" /\ Test!Rules[6].patterns = {"TIME_DIFFERENCE_AT_DC"}
  /\ Test!Rules[7].kind = "name_resolution_failed" /\ Test!Rules[7].patterns = {"RESOURCE_NAME_NOT_FOUND"}
  /\ Test!Rules[8].kind = "protocol_negotiation_failed" /\ Test!Rules[8].patterns = {"INVALID_NETWORK_RESPONSE"}
  /\ Test!Rules[9].kind = "port_blocked" /\ Test!Rules[9].patterns = {"CONNECTION_REFUSED"}
  /\ Test!Rules[10].kind = "host_unreachable" /\ Test!Rules[10].patterns = {"HOST_UNREACHABLE", "CONNECTION TO "}
<1>1. Test!Rules[1].kind = "account_locked" /\ Test!Rules[1].patterns = {"ACCOUNT_LOCKED_OUT"}
  <2>1. Test!Rules[1] = Test!Rule("account_locked", {"ACCOUNT_LOCKED_OUT"})
    BY RulesAre
  <2> QED
    BY <2>1 DEF Test!Rule
<1>2. Test!Rules[2].kind = "account_expired" /\ Test!Rules[2].patterns = {"PASSWORD_EXPIRED"}
  <2>1. Test!Rules[2] = Test!Rule("account_expired", {"PASSWORD_EXPIRED"})
    BY RulesAre
  <2> QED
    BY <2>1 DEF Test!Rule
<1>3. Test!Rules[3].kind = "auth_failed" /\ Test!Rules[3].patterns = {"LOGON_FAILURE"}
  <2>1. Test!Rules[3] = Test!Rule("auth_failed", {"LOGON_FAILURE"})
    BY RulesAre
  <2> QED
    BY <2>1 DEF Test!Rule
<1>4. Test!Rules[4].kind = "share_not_found" /\ Test!Rules[4].patterns = {"BAD_NETWORK_NAME", "OBJECT_PATH_NOT_FOUND"}
  <2>1. Test!Rules[4] = Test!Rule("share_not_found", {"BAD_NETWORK_NAME", "OBJECT_PATH_NOT_FOUND"})
    BY RulesAre
  <2> QED
    BY <2>1 DEF Test!Rule
<1>5. Test!Rules[5].kind = "access_denied" /\ Test!Rules[5].patterns = {"ACCESS_DENIED"}
  <2>1. Test!Rules[5] = Test!Rule("access_denied", {"ACCESS_DENIED"})
    BY RulesAre
  <2> QED
    BY <2>1 DEF Test!Rule
<1>6. Test!Rules[6].kind = "clock_skew" /\ Test!Rules[6].patterns = {"TIME_DIFFERENCE_AT_DC"}
  <2>1. Test!Rules[6] = Test!Rule("clock_skew", {"TIME_DIFFERENCE_AT_DC"})
    BY RulesAre
  <2> QED
    BY <2>1 DEF Test!Rule
<1>7. Test!Rules[7].kind = "name_resolution_failed" /\ Test!Rules[7].patterns = {"RESOURCE_NAME_NOT_FOUND"}
  <2>1. Test!Rules[7] = Test!Rule("name_resolution_failed", {"RESOURCE_NAME_NOT_FOUND"})
    BY RulesAre
  <2> QED
    BY <2>1 DEF Test!Rule
<1>8. Test!Rules[8].kind = "protocol_negotiation_failed" /\ Test!Rules[8].patterns = {"INVALID_NETWORK_RESPONSE"}
  <2>1. Test!Rules[8] = Test!Rule("protocol_negotiation_failed", {"INVALID_NETWORK_RESPONSE"})
    BY RulesAre
  <2> QED
    BY <2>1 DEF Test!Rule
<1>9. Test!Rules[9].kind = "port_blocked" /\ Test!Rules[9].patterns = {"CONNECTION_REFUSED"}
  <2>1. Test!Rules[9] = Test!Rule("port_blocked", {"CONNECTION_REFUSED"})
    BY RulesAre
  <2> QED
    BY <2>1 DEF Test!Rule
<1>10. Test!Rules[10].kind = "host_unreachable" /\ Test!Rules[10].patterns = {"HOST_UNREACHABLE", "CONNECTION TO "}
  <2> DEFINE both == {"HOST_UNREACHABLE", "CONNECTION TO "}
  <2>1. Test!Rules[10] = Test!Rule("host_unreachable", both)
    BY RulesAre
  <2> HIDE DEF both
  <2>2. Test!Rules[10].kind = "host_unreachable" /\ Test!Rules[10].patterns = both
    BY <2>1 DEF Test!Rule
  <2> QED
    BY <2>2 DEF both
<1> QED
  BY <1>1, <1>2, <1>3, <1>4, <1>5, <1>6, <1>7, <1>8, <1>9, <1>10

LEMMA FirstRule ==
  ASSUME NEW text, NEW n \in 1..10, Test!Rules[n].patterns \cap text # {},
         \A j \in 1..10 : j < n => Test!Rules[j].patterns \cap text = {}
  PROVE  Test!Classified(text) = Test!Rules[n].kind
<1> DEFINE matching == {i \in DOMAIN Test!Rules : Test!Rules[i].patterns \cap text # {}}
<1>0. DOMAIN Test!Rules = 1..10
  BY RulesAre
<1>1. n \in matching /\ \A j \in matching : n <= j
  <2>1. n \in matching
    BY <1>0
  <2>2. ASSUME NEW j \in matching PROVE n <= j
    <3>1. j \in 1..10 /\ ~(Test!Rules[j].patterns \cap text = {})
      BY <1>0
    <3>2. ~(j < n)
      BY <3>1
    <3> QED
      BY <3>1, <3>2
  <2> QED
    BY <2>1, <2>2
<1>2. matching \subseteq 1..10
  BY <1>0
<1>3. Test!Classified(text) = IF matching = {} THEN "unknown"
                              ELSE Test!Rules[CHOOSE i \in matching : \A j \in matching : i <= j].kind
  BY DEF Test!Classified
<1> HIDE DEF matching
<1>4. (CHOOSE i \in matching : \A j \in matching : i <= j) = n
  <2> DEFINE c == CHOOSE i \in matching : \A j \in matching : i <= j
  <2>1. c \in matching /\ \A j \in matching : c <= j
    BY <1>1
  <2>2. c \in 1..10 /\ c <= n /\ n <= c
    BY <2>1, <1>1, <1>2
  <2> HIDE DEF c
  <2>3. c = n
    BY <2>2
  <2> QED
    BY <2>3, Zenon DEF c
<1> QED
  BY <1>1, <1>3, <1>4

LEMMA NoRule ==
  ASSUME NEW text, \A j \in 1..10 : Test!Rules[j].patterns \cap text = {}
  PROVE  Test!Classified(text) = "unknown"
BY RulesAre, Zenon DEF Test!Classified

\* the patterns that a text must not have for the rules before one to be passed by
IsPassed(text, n) ==
    /\ n > 1 => "ACCOUNT_LOCKED_OUT" \notin text
    /\ n > 2 => "PASSWORD_EXPIRED" \notin text
    /\ n > 3 => "LOGON_FAILURE" \notin text
    /\ n > 4 => "BAD_NETWORK_NAME" \notin text /\ "OBJECT_PATH_NOT_FOUND" \notin text
    /\ n > 5 => "ACCESS_DENIED" \notin text
    /\ n > 6 => "TIME_DIFFERENCE_AT_DC" \notin text
    /\ n > 7 => "RESOURCE_NAME_NOT_FOUND" \notin text
    /\ n > 8 => "INVALID_NETWORK_RESPONSE" \notin text
    /\ n > 9 => "CONNECTION_REFUSED" \notin text

LEMMA Passed ==
  ASSUME NEW text, NEW n \in 1..10, IsPassed(text, n)
  PROVE  \A j \in 1..10 : j < n => Test!Rules[j].patterns \cap text = {}
<1> SUFFICES ASSUME NEW j \in 1..10, j < n PROVE Test!Rules[j].patterns \cap text = {}
  OBVIOUS
<1>0. /\ \A a : a \notin text => {a} \cap text = {}
      /\ \A a, b : a \notin text /\ b \notin text => {a, b} \cap text = {}
  OBVIOUS
<1>1. CASE j = 1
  <2>1. "ACCOUNT_LOCKED_OUT" \notin text
    BY <1>1 DEF IsPassed
  <2>2. Test!Rules[j].patterns = {"ACCOUNT_LOCKED_OUT"}
    BY <1>1, RulePatterns
  <2> QED
    BY <2>1, <2>2, <1>0, Zenon
<1>2. CASE j = 2
  <2>1. "PASSWORD_EXPIRED" \notin text
    BY <1>2 DEF IsPassed
  <2>2. Test!Rules[j].patterns = {"PASSWORD_EXPIRED"}
    BY <1>2, RulePatterns
  <2> QED
    BY <2>1, <2>2, <1>0, Zenon
<1>3. CASE j = 3
  <2>1. "LOGON_FAILURE" \notin text
    BY <1>3 DEF IsPassed
  <2>2. Test!Rules[j].patterns = {"LOGON_FAILURE"}
    BY <1>3, RulePatterns
  <2> QED
    BY <2>1, <2>2, <1>0, Zenon
<1>4. CASE j = 4
  <2>1. "BAD_NETWORK_NAME" \notin text /\ "OBJECT_PATH_NOT_FOUND" \notin text
    BY <1>4 DEF IsPassed
  <2>2. Test!Rules[j].patterns = {"BAD_NETWORK_NAME", "OBJECT_PATH_NOT_FOUND"}
    BY <1>4, RulePatterns
  <2> QED
    BY <2>1, <2>2, <1>0, Zenon
<1>5. CASE j = 5
  <2>1. "ACCESS_DENIED" \notin text
    BY <1>5 DEF IsPassed
  <2>2. Test!Rules[j].patterns = {"ACCESS_DENIED"}
    BY <1>5, RulePatterns
  <2> QED
    BY <2>1, <2>2, <1>0, Zenon
<1>6. CASE j = 6
  <2>1. "TIME_DIFFERENCE_AT_DC" \notin text
    BY <1>6 DEF IsPassed
  <2>2. Test!Rules[j].patterns = {"TIME_DIFFERENCE_AT_DC"}
    BY <1>6, RulePatterns
  <2> QED
    BY <2>1, <2>2, <1>0, Zenon
<1>7. CASE j = 7
  <2>1. "RESOURCE_NAME_NOT_FOUND" \notin text
    BY <1>7 DEF IsPassed
  <2>2. Test!Rules[j].patterns = {"RESOURCE_NAME_NOT_FOUND"}
    BY <1>7, RulePatterns
  <2> QED
    BY <2>1, <2>2, <1>0, Zenon
<1>8. CASE j = 8
  <2>1. "INVALID_NETWORK_RESPONSE" \notin text
    BY <1>8 DEF IsPassed
  <2>2. Test!Rules[j].patterns = {"INVALID_NETWORK_RESPONSE"}
    BY <1>8, RulePatterns
  <2> QED
    BY <2>1, <2>2, <1>0, Zenon
<1>9. CASE j = 9
  <2>1. "CONNECTION_REFUSED" \notin text
    BY <1>9 DEF IsPassed
  <2>2. Test!Rules[j].patterns = {"CONNECTION_REFUSED"}
    BY <1>9, RulePatterns
  <2> QED
    BY <2>1, <2>2, <1>0, Zenon
<1> QED
  BY <1>1, <1>2, <1>3, <1>4, <1>5, <1>6, <1>7, <1>8, <1>9

LEMMA FailureIsCaused ==
  ASSUME NEW cause \in Faults, NEW stage \in {"list", "connect", "put", "get"}
  PROVE  /\ Test!Failure(cause, stage) \in DOMAIN Test!Causes \ {"none", "success"}
         /\ cause \in Test!Causes[Test!Failure(cause, stage)]
<1> DEFINE kind == Test!Classified(Test!Printed[cause])
<1>1. CASE cause = "locked"
  <2>1. Test!Printed[cause] = {"ACCOUNT_LOCKED_OUT", "ACCESS_DENIED"}
    BY <1>1 DEF Test!Printed
  <2>2. "ACCOUNT_LOCKED_OUT" \in Test!Rules[1].patterns \cap Test!Printed[cause]
    BY <2>1, RulePatterns
  <2>3. IsPassed(Test!Printed[cause], 1)
    BY <2>1 DEF IsPassed
  <2>4. \A j \in 1..10 : j < 1 => Test!Rules[j].patterns \cap Test!Printed[cause] = {}
    BY <2>3, Passed
  <2>5. kind = Test!Rules[1].kind
    BY <2>2, <2>4, FirstRule
  <2>6. kind = "account_locked"
    BY <2>5, RulePatterns
  <2> QED
    BY <1>1, <2>6 DEF Test!Failure, Test!Causes
<1>2. CASE cause = "expired"
  <2>1. Test!Printed[cause] = {"PASSWORD_EXPIRED"}
    BY <1>2 DEF Test!Printed
  <2>2. "PASSWORD_EXPIRED" \in Test!Rules[2].patterns \cap Test!Printed[cause]
    BY <2>1, RulePatterns
  <2>3. IsPassed(Test!Printed[cause], 2)
    BY <2>1 DEF IsPassed
  <2>4. \A j \in 1..10 : j < 2 => Test!Rules[j].patterns \cap Test!Printed[cause] = {}
    BY <2>3, Passed
  <2>5. kind = Test!Rules[2].kind
    BY <2>2, <2>4, FirstRule
  <2>6. kind = "account_expired"
    BY <2>5, RulePatterns
  <2> QED
    BY <1>2, <2>6 DEF Test!Failure, Test!Causes
<1>3. CASE cause = "password"
  <2>1. Test!Printed[cause] = {"LOGON_FAILURE"}
    BY <1>3 DEF Test!Printed
  <2>2. "LOGON_FAILURE" \in Test!Rules[3].patterns \cap Test!Printed[cause]
    BY <2>1, RulePatterns
  <2>3. IsPassed(Test!Printed[cause], 3)
    BY <2>1 DEF IsPassed
  <2>4. \A j \in 1..10 : j < 3 => Test!Rules[j].patterns \cap Test!Printed[cause] = {}
    BY <2>3, Passed
  <2>5. kind = Test!Rules[3].kind
    BY <2>2, <2>4, FirstRule
  <2>6. kind = "auth_failed"
    BY <2>5, RulePatterns
  <2> QED
    BY <1>3, <2>6 DEF Test!Failure, Test!Causes
<1>4. CASE cause = "share"
  <2>1. Test!Printed[cause] = {"BAD_NETWORK_NAME"}
    BY <1>4 DEF Test!Printed
  <2>2. "BAD_NETWORK_NAME" \in Test!Rules[4].patterns \cap Test!Printed[cause]
    BY <2>1, RulePatterns
  <2>3. IsPassed(Test!Printed[cause], 4)
    BY <2>1 DEF IsPassed
  <2>4. \A j \in 1..10 : j < 4 => Test!Rules[j].patterns \cap Test!Printed[cause] = {}
    BY <2>3, Passed
  <2>5. kind = Test!Rules[4].kind
    BY <2>2, <2>4, FirstRule
  <2>6. kind = "share_not_found"
    BY <2>5, RulePatterns
  <2> QED
    BY <1>4, <2>6 DEF Test!Failure, Test!Causes
<1>5. CASE cause = "path"
  <2>1. Test!Printed[cause] = {"OBJECT_PATH_NOT_FOUND"}
    BY <1>5 DEF Test!Printed
  <2>2. "OBJECT_PATH_NOT_FOUND" \in Test!Rules[4].patterns \cap Test!Printed[cause]
    BY <2>1, RulePatterns
  <2>3. IsPassed(Test!Printed[cause], 4)
    BY <2>1 DEF IsPassed
  <2>4. \A j \in 1..10 : j < 4 => Test!Rules[j].patterns \cap Test!Printed[cause] = {}
    BY <2>3, Passed
  <2>5. kind = Test!Rules[4].kind
    BY <2>2, <2>4, FirstRule
  <2>6. kind = "share_not_found"
    BY <2>5, RulePatterns
  <2> QED
    BY <1>5, <2>6 DEF Test!Failure, Test!Causes
<1>6. CASE cause = "rights"
  <2>1. Test!Printed[cause] = {"ACCESS_DENIED"}
    BY <1>6 DEF Test!Printed
  <2>2. "ACCESS_DENIED" \in Test!Rules[5].patterns \cap Test!Printed[cause]
    BY <2>1, RulePatterns
  <2>3. IsPassed(Test!Printed[cause], 5)
    BY <2>1 DEF IsPassed
  <2>4. \A j \in 1..10 : j < 5 => Test!Rules[j].patterns \cap Test!Printed[cause] = {}
    BY <2>3, Passed
  <2>5. kind = Test!Rules[5].kind
    BY <2>2, <2>4, FirstRule
  <2>6. kind = "access_denied"
    BY <2>5, RulePatterns
  <2> QED
    BY <1>6, <2>6 DEF Test!Failure, Test!Causes
<1>7. CASE cause = "write"
  <2>1. Test!Printed[cause] = {"ACCESS_DENIED"}
    BY <1>7 DEF Test!Printed
  <2>2. "ACCESS_DENIED" \in Test!Rules[5].patterns \cap Test!Printed[cause]
    BY <2>1, RulePatterns
  <2>3. IsPassed(Test!Printed[cause], 5)
    BY <2>1 DEF IsPassed
  <2>4. \A j \in 1..10 : j < 5 => Test!Rules[j].patterns \cap Test!Printed[cause] = {}
    BY <2>3, Passed
  <2>5. kind = Test!Rules[5].kind
    BY <2>2, <2>4, FirstRule
  <2>6. kind = "access_denied"
    BY <2>5, RulePatterns
  <2> QED
    BY <1>7, <2>6 DEF Test!Failure, Test!Causes
<1>8. CASE cause = "skew"
  <2>1. Test!Printed[cause] = {"TIME_DIFFERENCE_AT_DC"}
    BY <1>8 DEF Test!Printed
  <2>2. "TIME_DIFFERENCE_AT_DC" \in Test!Rules[6].patterns \cap Test!Printed[cause]
    BY <2>1, RulePatterns
  <2>3. IsPassed(Test!Printed[cause], 6)
    BY <2>1 DEF IsPassed
  <2>4. \A j \in 1..10 : j < 6 => Test!Rules[j].patterns \cap Test!Printed[cause] = {}
    BY <2>3, Passed
  <2>5. kind = Test!Rules[6].kind
    BY <2>2, <2>4, FirstRule
  <2>6. kind = "clock_skew"
    BY <2>5, RulePatterns
  <2> QED
    BY <1>8, <2>6 DEF Test!Failure, Test!Causes
<1>9. CASE cause = "unnamed"
  <2>1. Test!Printed[cause] = {"CONNECTION TO ", "RESOURCE_NAME_NOT_FOUND"}
    BY <1>9 DEF Test!Printed
  <2>2. "RESOURCE_NAME_NOT_FOUND" \in Test!Rules[7].patterns \cap Test!Printed[cause]
    BY <2>1, RulePatterns
  <2> DEFINE text == Test!Printed[cause]
  <2>7. /\ "ACCOUNT_LOCKED_OUT" \notin text
        /\ "PASSWORD_EXPIRED" \notin text
        /\ "LOGON_FAILURE" \notin text
        /\ "BAD_NETWORK_NAME" \notin text
        /\ "OBJECT_PATH_NOT_FOUND" \notin text
        /\ "ACCESS_DENIED" \notin text
        /\ "TIME_DIFFERENCE_AT_DC" \notin text
    BY <2>1
  <2>3. IsPassed(text, 7)
    BY <2>7 DEF IsPassed
  <2>4. \A j \in 1..10 : j < 7 => Test!Rules[j].patterns \cap Test!Printed[cause] = {}
    BY <2>3, Passed
  <2>5. kind = Test!Rules[7].kind
    BY <2>2, <2>4, FirstRule
  <2>6. kind = "name_resolution_failed"
    BY <2>5, RulePatterns
  <2> QED
    BY <1>9, <2>6 DEF Test!Failure, Test!Causes
<1>10. CASE cause = "dialect"
  <2>1. Test!Printed[cause] = {"CONNECTION TO ", "INVALID_NETWORK_RESPONSE"}
    BY <1>10 DEF Test!Printed
  <2>2. "INVALID_NETWORK_RESPONSE" \in Test!Rules[8].patterns \cap Test!Printed[cause]
    BY <2>1, RulePatterns
  <2> DEFINE text == Test!Printed[cause]
  <2>7. /\ "ACCOUNT_LOCKED_OUT" \notin text
        /\ "PASSWORD_EXPIRED" \notin text
        /\ "LOGON_FAILURE" \notin text
        /\ "BAD_NETWORK_NAME" \notin text
        /\ "OBJECT_PATH_NOT_FOUND" \notin text
        /\ "ACCESS_DENIED" \notin text
        /\ "TIME_DIFFERENCE_AT_DC" \notin text
        /\ "RESOURCE_NAME_NOT_FOUND" \notin text
    BY <2>1
  <2>3. IsPassed(text, 8)
    BY <2>7 DEF IsPassed
  <2>4. \A j \in 1..10 : j < 8 => Test!Rules[j].patterns \cap Test!Printed[cause] = {}
    BY <2>3, Passed
  <2>8. Test!Rules[8].patterns \cap text # {}
    BY <2>2, Zenon
  <2>9. 8 \in 1..10
    OBVIOUS
  <2>5. kind = Test!Rules[8].kind
    BY <2>8, <2>9, <2>4, FirstRule
  <2>6. kind = "protocol_negotiation_failed"
    BY <2>5, RulePatterns
  <2> QED
    BY <1>10, <2>6 DEF Test!Failure, Test!Causes
<1>11. CASE cause = "closed"
  <2>1. Test!Printed[cause] = {"CONNECTION TO ", "CONNECTION_REFUSED"}
    BY <1>11 DEF Test!Printed
  <2>2. "CONNECTION_REFUSED" \in Test!Rules[9].patterns \cap Test!Printed[cause]
    BY <2>1, RulePatterns
  <2> DEFINE text == Test!Printed[cause]
  <2>7. /\ "ACCOUNT_LOCKED_OUT" \notin text
        /\ "PASSWORD_EXPIRED" \notin text
        /\ "LOGON_FAILURE" \notin text
        /\ "BAD_NETWORK_NAME" \notin text
        /\ "OBJECT_PATH_NOT_FOUND" \notin text
        /\ "ACCESS_DENIED" \notin text
        /\ "TIME_DIFFERENCE_AT_DC" \notin text
        /\ "RESOURCE_NAME_NOT_FOUND" \notin text
        /\ "INVALID_NETWORK_RESPONSE" \notin text
    BY <2>1
  <2>3. IsPassed(text, 9)
    BY <2>7 DEF IsPassed
  <2>4. \A j \in 1..10 : j < 9 => Test!Rules[j].patterns \cap Test!Printed[cause] = {}
    BY <2>3, Passed
  <2>8. Test!Rules[9].patterns \cap text # {}
    BY <2>2, Zenon
  <2>9. 9 \in 1..10
    OBVIOUS
  <2>5. kind = Test!Rules[9].kind
    BY <2>8, <2>9, <2>4, FirstRule
  <2>6. kind = "port_blocked"
    BY <2>5, RulePatterns
  <2> QED
    BY <1>11, <2>6 DEF Test!Failure, Test!Causes
<1>12. CASE cause = "away"
  <2>1. Test!Printed[cause] = {"CONNECTION TO ", "HOST_UNREACHABLE"}
    BY <1>12 DEF Test!Printed
  <2>2. "CONNECTION TO " \in Test!Rules[10].patterns \cap Test!Printed[cause]
    BY <2>1, RulePatterns
  <2> DEFINE text == Test!Printed[cause]
  <2>7. /\ "ACCOUNT_LOCKED_OUT" \notin text
        /\ "PASSWORD_EXPIRED" \notin text
        /\ "LOGON_FAILURE" \notin text
        /\ "BAD_NETWORK_NAME" \notin text
        /\ "OBJECT_PATH_NOT_FOUND" \notin text
        /\ "ACCESS_DENIED" \notin text
        /\ "TIME_DIFFERENCE_AT_DC" \notin text
        /\ "RESOURCE_NAME_NOT_FOUND" \notin text
        /\ "INVALID_NETWORK_RESPONSE" \notin text
        /\ "CONNECTION_REFUSED" \notin text
    BY <2>1
  <2>3. IsPassed(text, 10)
    BY <2>7 DEF IsPassed
  <2>4. \A j \in 1..10 : j < 10 => Test!Rules[j].patterns \cap Test!Printed[cause] = {}
    BY <2>3, Passed
  <2>8. Test!Rules[10].patterns \cap text # {}
    BY <2>2, Zenon
  <2>9. 10 \in 1..10
    OBVIOUS
  <2>5. kind = Test!Rules[10].kind
    BY <2>8, <2>9, <2>4, FirstRule
  <2>6. kind = "host_unreachable"
    BY <2>5, RulePatterns
  <2> QED
    BY <1>12, <2>6 DEF Test!Failure, Test!Causes
<1>13. CASE cause = "silent"
  <2>1. Test!Printed[cause] = {}
    BY <1>13 DEF Test!Printed
  <2>2. kind = "unknown"
    BY <2>1, NoRule
  <2> QED
    BY <1>13, <2>2 DEF Test!Failure, Test!Causes
<1> QED
  BY <1>1, <1>2, <1>3, <1>4, <1>5, <1>6, <1>7, <1>8, <1>9, <1>10, <1>11, <1>12, <1>13 DEF Faults

\* what is known of a test that runs, and of the answer on the page, with these faults,
\* this row and this form, and with or without its file on the server
StopsWith(F, account, stage) ==
    LET wrong == IF account \in Test!Accounts THEN F ELSE F \cup {"password"}
        met == {i \in DOMAIN Test!Order : Test!Order[i] \in wrong \cap Test!Shut[stage]} IN
    IF met = {} THEN "nothing" ELSE Test!Order[CHOOSE i \in met : \A j \in met : i <= j]
Kinds == DOMAIN Test!Causes \ {"none", "success"}
Explained(kind, seen) == kind = "success" \/ (kind \in Kinds /\ Test!Causes[kind] \cap seen # {})
IsAsked(p, F, f, left) ==
    /\ p \in [step : {"asked"}, fields : {p.fields}, probe : BOOLEAN, seen : {p.seen},
              refused : {0}, current : BOOLEAN]
    /\ F \subseteq p.seen /\ (p.current => p.fields = f) /\ ~left
IsRun(p) ==
    p \in [step : {"list", "connect", "put", "get", "delete", "end"}, account : {p.account},
           probe : BOOLEAN, seen : {p.seen}, refused : Nat, current : BOOLEAN, answer : {p.answer}]
RunIsSound(p, F, r, f, left) ==
    /\ IsRun(p) /\ F \subseteq p.seen
    /\ p.current => p.account = Test!Tests(r, f)
    /\ p.step \in {"list", "connect", "put"} => ~left
    /\ p.step \in {"list", "connect", "put", "get"} => p.refused = 0
    /\ p.step \in {"put", "get", "delete"} => p.probe
    /\ p.step = "delete" => p.refused <= 1
    /\ p.step = "end" => p.refused <= IF p.probe THEN 2 ELSE 1
    /\ p.step \in {"delete", "end"} => Explained(p.answer, p.seen)
    /\ p.step = "end" /\ left => p.seen \cap Test!Shut.del # {}
    /\ p.current /\ (p.step \in {"put", "get", "delete"} \/ (p.step = "end" /\ p.answer = "success")) =>
         StopsWith(F, p.account, "connect") = "nothing"
AnswerIsSound(t, F, r, f, left) ==
    /\ t \in [state : {t.state}, seen : {t.seen}, refused : Nat, probe : BOOLEAN,
              current : BOOLEAN, account : {t.account}]
    /\ Explained(t.state, t.seen)
    /\ t.refused <= IF t.probe THEN 2 ELSE 1
    /\ left => t.seen \cap Test!Shut.del # {}
    /\ t.current => t.account = Test!Tests(r, f)
    /\ t.current /\ t.state = "success" => StopsWith(F, t.account, "connect") = "nothing"
FormTypes == /\ fields \in Test!Fields /\ row \in Test!Fields \cup {NoShare} /\ litter \in BOOLEAN
ProbeInv ==
    \/ probe = Test!Idle
    \/ /\ tested = Test!NoAnswer
       /\ \/ IsAsked(probe, faultsOfServer, fields, litter)
          \/ RunIsSound(probe, faultsOfServer, row, fields, litter)
ShownInv == tested = Test!NoAnswer \/ AnswerIsSound(tested, faultsOfServer, row, fields, litter)
TesterInv == FormTypes /\ ProbeInv /\ ShownInv

LEMMA StopsAre == \A account, stage : Test!Stops(account, stage) = StopsWith(faultsOfServer, account, stage)
BY Zenon DEF Test!Stops, StopsWith, Test!Wrong

LEMMA TesterBegins == Test!TesterInit => TesterInv
<1> SUFFICES ASSUME Test!TesterInit PROVE TesterInv
  OBVIOUS
<1>1. fields \in Test!Fields /\ row = NoShare /\ litter \in BOOLEAN
  BY DEF Test!TesterInit, Test!Fields
<1>2. probe = Test!Idle /\ tested = Test!NoAnswer
  BY DEF Test!TesterInit
<1> QED
  BY <1>1, <1>2 DEF TesterInv, FormTypes, ProbeInv, ShownInv

LEMMA StagesApart ==
  /\ Test!Idle.step = "idle"
  /\ \A p, F, f, left : IsAsked(p, F, f, left) => p.step = "asked"
  /\ \A p, F, r, f, left : RunIsSound(p, F, r, f, left) =>
        p.step \in {"list", "connect", "put", "get", "delete", "end"}
BY DEF Test!Idle, IsAsked, RunIsSound, IsRun

\* a run of smbclient is noted in the test: what stopped it, and whether that was the logon
Noted(q, p, cause) ==
    /\ IsRun(q) /\ q.step = p.step /\ q.account = p.account /\ q.probe = p.probe
    /\ q.current = p.current /\ q.answer = p.answer
    /\ q.seen = IF cause = "nothing" THEN p.seen ELSE p.seen \cup {cause}
    /\ q.refused = IF cause \in {"password", "locked"} THEN p.refused + 1 ELSE p.refused
LEMMA RanIs ==
  ASSUME NEW stage, IsRun(probe), NEW p, p = Test!Ran(stage),
         NEW cause, cause = Test!Stops(probe.account, stage)
  PROVE  Noted(p, probe, cause)
<1> DEFINE n == IF cause \in {"password", "locked"} THEN probe.refused + 1 ELSE probe.refused
<1> DEFINE w == IF cause = "nothing" THEN probe.seen ELSE probe.seen \cup {cause}
<1>1. p = [probe EXCEPT !.refused = n, !.seen = w]
  BY DEF Test!Ran
<1>2. n \in Nat
  BY DEF IsRun
<1> HIDE DEF n, w
<1>3. /\ p \in [step : {"list", "connect", "put", "get", "delete", "end"}, account : {probe.account},
                probe : BOOLEAN, seen : {w}, refused : Nat, current : BOOLEAN,
                answer : {probe.answer}]
      /\ p.step = probe.step /\ p.account = probe.account /\ p.probe = probe.probe
      /\ p.current = probe.current /\ p.answer = probe.answer /\ p.seen = w /\ p.refused = n
  BY <1>1, <1>2 DEF IsRun
<1> QED
  BY <1>3 DEF IsRun, Noted, n, w

\* the next step of a test, with its verdict so far
After(p, q, step, kind) ==
    /\ IsRun(p) /\ p.step = step /\ p.account = q.account /\ p.probe = q.probe
    /\ p.current = q.current /\ p.answer = kind /\ p.seen = q.seen /\ p.refused = q.refused
LEMMA Moved ==
  ASSUME NEW q, IsRun(q), NEW step \in {"connect", "put", "get", "delete", "end"}, NEW kind, NEW p
  PROVE  /\ p = [q EXCEPT !.step = step] => After(p, q, step, q.answer)
         /\ p = [q EXCEPT !.step = step, !.answer = kind] => After(p, q, step, kind)
BY DEF IsRun, After

\* what stops a run in a stage explains the verdict that it leads to
LEMMA Verdict ==
  ASSUME NEW stage \in {"list", "connect", "put", "get"}, NEW account, NEW cause,
         cause = Test!Stops(account, stage), cause # "nothing", NEW seen, cause \in seen
  PROVE  Explained(Test!Failure(cause, stage), seen)
<1>1. cause \in Faults
  BY StopsIs, Shuts
<1> QED
  BY <1>1, FailureIsCaused DEF Explained, Kinds

\* the steps of a test before the file is written
LEMMA TesterLists ==
  ASSUME TesterInv, Test!List \/ Test!Connect
  PROVE  TesterInv'
<1>1. /\ UNCHANGED <<faultsOfServer, fields, row, tested, litter>>
      /\ probe.step \in {"list", "connect"}
  BY DEF Test!List, Test!Connect
<1>2. RunIsSound(probe, faultsOfServer, row, fields, litter) /\ tested = Test!NoAnswer
  BY <1>1, StagesApart DEF TesterInv, ProbeInv
<1>3. PICK stage \in {"list", "connect"} : stage = probe.step
  BY <1>1
<1>4. PICK cause : cause = Test!Stops(probe.account, stage)
  OBVIOUS
<1>5. PICK q : q = Test!Ran(stage)
  OBVIOUS
<1>6. IsRun(probe) /\ ~litter /\ probe.refused = 0 /\ litter \in BOOLEAN
  BY <1>1, <1>2 DEF RunIsSound, TesterInv, FormTypes
<1>7. /\ IsRun(q) /\ q.account = probe.account /\ q.probe = probe.probe
      /\ q.current = probe.current
      /\ q.seen = IF cause = "nothing" THEN probe.seen ELSE probe.seen \cup {cause}
      /\ q.refused = IF cause \in {"password", "locked"} THEN probe.refused + 1 ELSE probe.refused
  <2>1. Noted(q, probe, cause)
    BY <1>4, <1>5, <1>6, RanIs
  <2> QED
    BY <2>1 DEF Noted
<1>8. /\ q.refused <= 1 /\ (cause = "nothing" => q.refused = 0) /\ faultsOfServer \subseteq q.seen
      /\ q.current => q.account = Test!Tests(row, fields)
  BY <1>2, <1>6, <1>7 DEF RunIsSound
<1>9. ASSUME cause # "nothing" PROVE Explained(Test!Failure(cause, stage), q.seen)
  <2>1. cause \in q.seen
    BY <1>7, <1>9
  <2> QED
    BY <1>3, <1>4, <1>9, <2>1, Verdict
<1>10. \/ cause # "nothing" /\ probe' = [q EXCEPT !.step = "end", !.answer = Test!Failure(cause, stage)]
       \/ cause = "nothing" /\ stage = "list" /\ probe' = [q EXCEPT !.step = "connect"]
       \/ cause = "nothing" /\ stage = "connect" /\ probe.probe /\ probe' = [q EXCEPT !.step = "put"]
       \/ cause = "nothing" /\ stage = "connect" /\ probe' = [q EXCEPT !.step = "end", !.answer = "success"]
  <2>1. CASE Test!List
    <3>1. stage = "list"
      BY <2>1, <1>3 DEF Test!List
    <3> QED
      BY <2>1, <3>1, <1>4, <1>5 DEF Test!List, Test!Goes, Test!Fails
  <2>2. CASE Test!Connect
    <3>1. stage = "connect"
      BY <2>2, <1>3 DEF Test!Connect
    <3>2. CASE cause # "nothing"
      BY <2>2, <3>1, <3>2, <1>4, <1>5 DEF Test!Connect, Test!Fails
    <3>3. CASE cause = "nothing" /\ probe.probe
      BY <2>2, <3>1, <3>3, <1>4, <1>5 DEF Test!Connect, Test!Goes
    <3>4. CASE cause = "nothing" /\ ~probe.probe
      BY <2>2, <3>1, <3>4, <1>4, <1>5 DEF Test!Connect, Test!Fails
    <3> QED
      BY <3>2, <3>3, <3>4
  <2> QED
    BY <2>1, <2>2
<1>11. cause = "nothing" /\ stage = "connect" =>
         StopsWith(faultsOfServer, q.account, "connect") = "nothing"
  BY <1>4, <1>7, StopsAre
<1>12. PICK p : p = probe'
  OBVIOUS
<1>13. RunIsSound(p, faultsOfServer, row, fields, litter)
  <2>1. CASE cause # "nothing" /\ p = [q EXCEPT !.step = "end", !.answer = Test!Failure(cause, stage)]
    <3>1. After(p, q, "end", Test!Failure(cause, stage))
      BY <2>1, <1>7, Moved
    <3>2. Explained(p.answer, p.seen) /\ p.answer # "success"
      <4>1. Test!Failure(cause, stage) \in DOMAIN Test!Causes \ {"none", "success"}
        BY <2>1, <1>3, <1>4, StopsIs, Shuts, FailureIsCaused
      <4> QED
        BY <3>1, <4>1, <1>9, <2>1 DEF After
    <3> QED
      BY <3>1, <3>2, <1>6, <1>8 DEF RunIsSound, IsRun, After
  <2>2. CASE cause = "nothing" /\ stage = "list" /\ p = [q EXCEPT !.step = "connect"]
    <3>1. After(p, q, "connect", q.answer)
      BY <2>2, <1>7, Moved
    <3> QED
      BY <3>1, <2>2, <1>6, <1>8 DEF RunIsSound, After
  <2>3. CASE cause = "nothing" /\ stage = "connect" /\ probe.probe /\ p = [q EXCEPT !.step = "put"]
    <3>1. After(p, q, "put", q.answer)
      BY <2>3, <1>7, Moved
    <3> QED
      BY <3>1, <2>3, <1>6, <1>7, <1>8, <1>11 DEF RunIsSound, After
  <2>4. CASE cause = "nothing" /\ stage = "connect" /\ p = [q EXCEPT !.step = "end", !.answer = "success"]
    <3>1. After(p, q, "end", "success")
      BY <2>4, <1>7, Moved
    <3> QED
      BY <3>1, <2>4, <1>6, <1>8, <1>11 DEF RunIsSound, Explained, After
  <2> QED
    BY <1>10, <1>12, <2>1, <2>2, <2>3, <2>4
<1> QED
  BY <1>1, <1>2, <1>12, <1>13 DEF TesterInv, FormTypes, ProbeInv, ShownInv

\* the steps of a test with its file: it is written, read and deleted
LEMMA TesterWrites ==
  ASSUME TesterInv, Test!Put \/ Test!Get \/ Test!Delete
  PROVE  TesterInv'
<1>1. /\ UNCHANGED <<faultsOfServer, fields, row, tested>>
      /\ probe.step \in {"put", "get", "delete"}
  BY DEF Test!Put, Test!Get, Test!Delete
<1>2. RunIsSound(probe, faultsOfServer, row, fields, litter) /\ tested = Test!NoAnswer
  BY <1>1, StagesApart DEF TesterInv, ProbeInv
<1>3. PICK stage \in {"put", "get", "del"} :
         stage = IF probe.step = "delete" THEN "del" ELSE probe.step
  BY <1>1
<1>4. PICK cause : cause = Test!Stops(probe.account, stage)
  OBVIOUS
<1>5. PICK q : q = Test!Ran(stage)
  OBVIOUS
<1>6. IsRun(probe) /\ probe.probe /\ probe.refused \in Nat /\ litter \in BOOLEAN
  BY <1>1, <1>2 DEF RunIsSound, TesterInv, FormTypes, IsRun
<1>7. /\ IsRun(q) /\ q.account = probe.account /\ q.probe = probe.probe
      /\ q.current = probe.current /\ q.answer = probe.answer
      /\ q.seen = IF cause = "nothing" THEN probe.seen ELSE probe.seen \cup {cause}
      /\ q.refused = IF cause \in {"password", "locked"} THEN probe.refused + 1 ELSE probe.refused
  <2>1. Noted(q, probe, cause)
    BY <1>4, <1>5, <1>6, RanIs
  <2> QED
    BY <2>1 DEF Noted
<1>8. /\ faultsOfServer \subseteq q.seen /\ probe.seen \subseteq q.seen
      /\ (cause # "nothing" => cause \in q.seen)
      /\ q.current => q.account = Test!Tests(row, fields)
      /\ q.probe
  BY <1>2, <1>6, <1>7 DEF RunIsSound
<1>9. /\ stage # "del" => q.refused <= 1 /\ (cause = "nothing" => q.refused = 0)
      /\ stage = "del" => q.refused <= 2
  BY <1>1, <1>2, <1>3, <1>6, <1>7 DEF RunIsSound
<1>10. q.current => StopsWith(faultsOfServer, q.account, "connect") = "nothing"
  BY <1>1, <1>2, <1>7 DEF RunIsSound
<1>11. ASSUME cause # "nothing", stage # "del" PROVE Explained(Test!Failure(cause, stage), q.seen)
  <2>1. stage \in {"put", "get"}
    BY <1>3, <1>11
  <2> QED
    BY <2>1, <1>4, <1>8, <1>11, Verdict
<1>12. PICK p : p = probe'
  OBVIOUS
<1>13. litter' \in BOOLEAN
  BY <1>6 DEF Test!Put, Test!Get, Test!Delete
<1>14. RunIsSound(p, faultsOfServer, row, fields, litter')
  <2>1. CASE Test!Put /\ cause = "nothing"
    <3>0. stage = "put"
      BY <2>1, <1>3 DEF Test!Put
    <3>1. p = [q EXCEPT !.step = "get"]
      BY <2>1, <3>0, <1>4, <1>5, <1>12 DEF Test!Put
    <3>2. After(p, q, "get", q.answer)
      BY <3>1, <1>7, Moved
    <3> QED
      BY <2>1, <3>0, <3>2, <1>8, <1>9, <1>10 DEF RunIsSound, After
  <2>2. CASE Test!Put /\ cause # "nothing"
    <3>0. stage = "put"
      BY <2>2, <1>3 DEF Test!Put
    <3>1. p = [q EXCEPT !.step = "delete", !.answer = Test!Failure(cause, stage)]
      BY <2>2, <3>0, <1>4, <1>5, <1>12 DEF Test!Put, Test!Fails
    <3>2. After(p, q, "delete", Test!Failure(cause, stage))
      BY <3>1, <1>7, Moved
    <3>3. Explained(p.answer, p.seen)
      BY <2>2, <3>0, <3>2, <1>11 DEF After
    <3> QED
      BY <2>2, <3>0, <3>2, <3>3, <1>8, <1>9, <1>10 DEF RunIsSound, After
  <2>3. CASE Test!Get
    <3>0. stage = "get"
      BY <2>3, <1>3 DEF Test!Get
    <3>1. \E kind : p = [q EXCEPT !.step = "delete", !.answer = kind] /\ Explained(kind, q.seen)
      <4>1. CASE cause # "nothing"
        <5>1. p = [q EXCEPT !.step = "delete", !.answer = Test!Failure(cause, stage)]
          BY <2>3, <3>0, <4>1, <1>4, <1>5, <1>12 DEF Test!Get, Test!Fails
        <5> QED
          BY <5>1, <4>1, <3>0, <1>11
      <4>2. CASE cause = "nothing" /\ "altered" \in faultsOfServer
        <5>1. p = [q EXCEPT !.step = "delete", !.answer = "unknown"]
          BY <2>3, <3>0, <4>2, <1>4, <1>5, <1>12 DEF Test!Get, Test!Fails
        <5>2. "unknown" \in Kinds /\ "altered" \in Test!Causes["unknown"]
          BY DEF Kinds, Test!Causes
        <5>3. "altered" \in q.seen
          BY <4>2, <1>8
        <5>4. Explained("unknown", q.seen)
          BY <5>2, <5>3 DEF Explained
        <5> QED
          BY <5>1, <5>4
      <4>3. CASE cause = "nothing" /\ "altered" \notin faultsOfServer
        <5>1. p = [q EXCEPT !.step = "delete", !.answer = "success"]
          BY <2>3, <3>0, <4>3, <1>4, <1>5, <1>12 DEF Test!Get, Test!Fails
        <5> QED
          BY <5>1 DEF Explained
      <4> QED
        BY <4>1, <4>2, <4>3
    <3>2. PICK kind : After(p, q, "delete", kind) /\ Explained(kind, q.seen)
      BY <3>1, <1>7, Moved
    <3> QED
      BY <3>0, <3>2, <1>8, <1>9, <1>10 DEF RunIsSound, After
  <2>4. CASE Test!Delete
    <3>0. stage = "del" /\ probe.step = "delete"
      BY <2>4, <1>3 DEF Test!Delete
    <3>1. p = [q EXCEPT !.step = "end"]
      BY <2>4, <3>0, <1>5, <1>12 DEF Test!Delete, Test!Goes
    <3>2. After(p, q, "end", q.answer)
      BY <3>1, <1>7, Moved
    <3>3. Explained(q.answer, q.seen)
      BY <3>0, <1>2, <1>7, <1>8 DEF RunIsSound, Explained
    <3>4. litter' => cause # "nothing"
      BY <2>4, <3>0, <1>4 DEF Test!Delete
    <3>5. litter' => cause \in Test!Shut.del
      BY <3>0, <3>4, <1>4, StopsIs
    <3> QED
      BY <3>0, <3>2, <3>3, <3>4, <3>5, <1>8, <1>9, <1>10 DEF RunIsSound, After
  <2> QED
    BY <2>1, <2>2, <2>3, <2>4
<1> QED
  BY <1>1, <1>2, <1>12, <1>13, <1>14 DEF TesterInv, FormTypes, ProbeInv, ShownInv

\* where a test begins and ends
LEMMA TesterEnds ==
  ASSUME TesterInv, (\E b \in BOOLEAN : Test!Press(b)) \/ Test!Arrive \/ Test!Answer
  PROVE  TesterInv'
<1>1. UNCHANGED <<faultsOfServer, fields, row>>
  BY DEF Test!Press, Test!Arrive, Test!Answer
<1>2. ASSUME NEW b \in BOOLEAN, Test!Press(b) PROVE TesterInv'
  <2>1. PICK p : p = [step |-> "asked", fields |-> fields, probe |-> b, seen |-> faultsOfServer,
                      refused |-> 0, current |-> TRUE]
    OBVIOUS
  <2>2. probe' = p /\ tested' = Test!NoAnswer /\ litter' = FALSE
    BY <1>2, <2>1 DEF Test!Press
  <2>3. IsAsked(p, faultsOfServer, fields, FALSE)
    BY <2>1 DEF IsAsked
  <2>4. litter' \in BOOLEAN
    BY <2>2
  <2> QED
    BY <1>1, <2>2, <2>3, <2>4 DEF TesterInv, FormTypes, ProbeInv, ShownInv
<1>3. CASE Test!Arrive
  <2>1. IsAsked(probe, faultsOfServer, fields, litter) /\ tested = Test!NoAnswer
    BY <1>3, StagesApart DEF Test!Arrive, TesterInv, ProbeInv
  <2>2. PICK p : p = [step |-> "list", account |-> Test!Tests(row, probe.fields),
                      probe |-> probe.probe, seen |-> probe.seen, refused |-> 0,
                      current |-> probe.current, answer |-> "none"]
    OBVIOUS
  <2>3. probe' = p /\ tested' = tested /\ litter' = litter
    BY <1>3, <2>2 DEF Test!Arrive
  <2>4. RunIsSound(p, faultsOfServer, row, fields, litter)
    <3>1. /\ probe.probe \in BOOLEAN /\ probe.current \in BOOLEAN /\ ~litter
          /\ faultsOfServer \subseteq probe.seen /\ (probe.current => probe.fields = fields)
      BY <2>1 DEF IsAsked
    <3>2. /\ p.step = "list" /\ p.account = Test!Tests(row, probe.fields) /\ p.seen = probe.seen
          /\ p.refused = 0 /\ p.current = probe.current /\ IsRun(p)
      BY <2>2, <3>1 DEF IsRun
    <3> QED
      BY <3>1, <3>2 DEF RunIsSound
  <2> QED
    BY <1>1, <2>1, <2>3, <2>4 DEF TesterInv, FormTypes, ProbeInv, ShownInv
<1>4. CASE Test!Answer
  <2>1. RunIsSound(probe, faultsOfServer, row, fields, litter) /\ probe.step = "end"
    BY <1>4, StagesApart DEF Test!Answer, TesterInv, ProbeInv
  <2>2. PICK t : t = [state |-> probe.answer, seen |-> probe.seen, refused |-> probe.refused,
                      probe |-> probe.probe, current |-> probe.current, account |-> probe.account]
    OBVIOUS
  <2>3. probe' = Test!Idle /\ tested' = t /\ litter' = litter
    BY <1>4, <2>2 DEF Test!Answer
  <2>4. AnswerIsSound(t, faultsOfServer, row, fields, litter)
    <3>1. probe.probe \in BOOLEAN /\ probe.current \in BOOLEAN /\ probe.refused \in Nat
      BY <2>1 DEF RunIsSound, IsRun
    <3>2. /\ t \in [state : {t.state}, seen : {t.seen}, refused : Nat, probe : BOOLEAN,
                    current : BOOLEAN, account : {t.account}]
          /\ t.state = probe.answer /\ t.seen = probe.seen /\ t.refused = probe.refused
          /\ t.probe = probe.probe /\ t.current = probe.current /\ t.account = probe.account
      BY <2>2, <3>1
    <3> QED
      BY <2>1, <3>2 DEF RunIsSound, AnswerIsSound
  <2> QED
    BY <1>1, <2>3, <2>4 DEF TesterInv, FormTypes, ProbeInv, ShownInv
<1> QED
  BY <1>2, <1>3, <1>4

\* what was said no longer holds for the page, and is not said to
LEMMA StaleIs ==
  /\ Test!Stale(Test!Idle) = Test!Idle /\ Test!Stale(Test!NoAnswer) = Test!NoAnswer
  /\ \A p, F, f, left : IsAsked(p, F, f, left) =>
        /\ \A g : IsAsked(Test!Stale(p), F, g, left)
        /\ \A G, q : q = [Test!Stale(p) EXCEPT !.seen = @ \cup G] => IsAsked(q, G, f, left)
  /\ \A p, F, r, f, left : RunIsSound(p, F, r, f, left) =>
        /\ \A g : RunIsSound(Test!Stale(p), F, r, g, left)
        /\ \A G, q : q = [Test!Stale(p) EXCEPT !.seen = @ \cup G] => RunIsSound(q, G, r, f, left)
  /\ \A t, F, r, f, left : AnswerIsSound(t, F, r, f, left) =>
        \A G, g : AnswerIsSound(Test!Stale(t), G, r, g, left)
<1>1. Test!Stale(Test!Idle) = Test!Idle /\ Test!Stale(Test!NoAnswer) = Test!NoAnswer
  BY DEF Test!Stale, Test!Idle, Test!NoAnswer
<1>2. ASSUME NEW p, NEW F, NEW f, NEW left, IsAsked(p, F, f, left)
      PROVE  /\ \A g : IsAsked(Test!Stale(p), F, g, left)
             /\ \A G, q : q = [Test!Stale(p) EXCEPT !.seen = @ \cup G] => IsAsked(q, G, f, left)
  <2>1. "current" \in DOMAIN p
    BY <1>2 DEF IsAsked
  <2>2. PICK o : o = Test!Stale(p)
    OBVIOUS
  <2>3. o = [p EXCEPT !.current = FALSE]
    BY <2>1, <2>2 DEF Test!Stale
  <2>4. /\ o \in [step : {"asked"}, fields : {o.fields}, probe : BOOLEAN, seen : {o.seen},
                  refused : {0}, current : BOOLEAN]
        /\ o.seen = p.seen /\ ~o.current
    BY <1>2, <2>3 DEF IsAsked
  <2>5. \A g : IsAsked(o, F, g, left)
    BY <1>2, <2>4 DEF IsAsked
  <2>6. ASSUME NEW G, NEW q, q = [o EXCEPT !.seen = @ \cup G] PROVE IsAsked(q, G, f, left)
    <3> DEFINE w == o.seen \cup G
    <3>1. q = [o EXCEPT !.seen = w]
      BY <2>6
    <3> HIDE DEF w
    <3>2. /\ q \in [step : {"asked"}, fields : {q.fields}, probe : BOOLEAN, seen : {q.seen},
                    refused : {0}, current : BOOLEAN]
          /\ q.seen = w /\ q.current = o.current
      BY <3>1, <2>4
    <3> QED
      BY <3>2, <2>4, <1>2 DEF IsAsked, w
  <2> QED
    BY <2>2, <2>5, <2>6
<1>3. ASSUME NEW p, NEW F, NEW r, NEW f, NEW left, RunIsSound(p, F, r, f, left)
      PROVE  /\ \A g : RunIsSound(Test!Stale(p), F, r, g, left)
             /\ \A G, q : q = [Test!Stale(p) EXCEPT !.seen = @ \cup G] => RunIsSound(q, G, r, f, left)
  <2>1. IsRun(p) /\ "current" \in DOMAIN p
    BY <1>3 DEF RunIsSound, IsRun
  <2>2. PICK o : o = Test!Stale(p)
    OBVIOUS
  <2>3. o = [p EXCEPT !.current = FALSE]
    BY <2>1, <2>2 DEF Test!Stale
  <2>4. /\ IsRun(o) /\ o.step = p.step /\ o.account = p.account /\ o.probe = p.probe
        /\ o.seen = p.seen /\ o.refused = p.refused /\ ~o.current /\ o.answer = p.answer
    BY <2>1, <2>3 DEF IsRun
  <2>5. \A g : RunIsSound(o, F, r, g, left)
    BY <1>3, <2>4 DEF RunIsSound
  <2>6. ASSUME NEW G, NEW q, q = [o EXCEPT !.seen = @ \cup G] PROVE RunIsSound(q, G, r, f, left)
    <3> DEFINE w == o.seen \cup G
    <3>1. q = [o EXCEPT !.seen = w]
      BY <2>6
    <3> HIDE DEF w
    <3>2. /\ IsRun(q) /\ q.step = o.step /\ q.account = o.account /\ q.probe = o.probe
          /\ q.seen = w /\ q.refused = o.refused /\ q.current = o.current /\ q.answer = o.answer
      BY <3>1, <2>4 DEF IsRun
    <3>3. G \subseteq q.seen /\ p.seen \subseteq q.seen
      BY <3>2, <2>4 DEF w
    <3>4. Explained(p.answer, p.seen) => Explained(q.answer, q.seen)
      BY <3>2, <3>3, <2>4 DEF Explained
    <3> QED
      BY <3>2, <3>3, <3>4, <2>4, <1>3 DEF RunIsSound
  <2> QED
    BY <2>2, <2>5, <2>6
<1>4. ASSUME NEW t, NEW F, NEW r, NEW f, NEW left, AnswerIsSound(t, F, r, f, left), NEW G, NEW g
      PROVE  AnswerIsSound(Test!Stale(t), G, r, g, left)
  <2>1. "current" \in DOMAIN t
    BY <1>4 DEF AnswerIsSound
  <2>2. PICK o : o = Test!Stale(t)
    OBVIOUS
  <2>3. o = [t EXCEPT !.current = FALSE]
    BY <2>1, <2>2 DEF Test!Stale
  <2>4. /\ o \in [state : {o.state}, seen : {o.seen}, refused : Nat, probe : BOOLEAN,
                  current : BOOLEAN, account : {o.account}]
        /\ o.state = t.state /\ o.seen = t.seen /\ o.refused = t.refused /\ o.probe = t.probe
        /\ ~o.current
    BY <1>4, <2>3 DEF AnswerIsSound
  <2> QED
    BY <2>2, <2>4, <1>4 DEF AnswerIsSound
<1> QED
  BY <1>1, <1>2, <1>3, <1>4

\* a row that is saved from the form is tested like the form was before
LEMMA SavedIsTested ==
  ASSUME Test!NoShareIsNoForm, NEW r \in Test!Fields \cup {NoShare}, NEW f \in Test!Fields
  PROVE  /\ Test!Saved(r, f) \in Test!Fields
         /\ Test!Tests(Test!Saved(r, f), f) = Test!Tests(r, f)
         /\ r # NoShare /\ r = Test!Saved(r, f) => Test!Mounts(r) = Test!Tests(r, f)
<1> DEFINE w == IF f.password = Blank /\ r # NoShare THEN r.password ELSE f.password
<1>1. PICK n : n = Test!Saved(r, f)
  OBVIOUS
<1>2. n = [f EXCEPT !.password = w]
  BY <1>1 DEF Test!Saved
<1>3. w \in {Blank, "s", "o"}
  BY DEF Test!Fields
<1>4. n \in Test!Fields /\ n.user = f.user /\ n.password = w
  BY <1>2, <1>3 DEF Test!Fields
<1> DEFINE tested1(x) == Test!Or(f.password, IF x = NoShare THEN Test!Service.password
                                             ELSE Test!Or(x.password, Test!Service.password))
<1>5. \A x : Test!Tests(x, f) = [user |-> Test!Or(f.user, Test!Service.user), password |-> tested1(x)]
  BY DEF Test!Tests
<1>6. tested1(n) = tested1(r)
  <2>1. n # NoShare
    BY <1>4 DEF Test!NoShareIsNoForm
  <2>2. CASE f.password = Blank /\ r # NoShare
    BY <2>1, <2>2, <1>4
  <2>3. CASE f.password = Blank /\ r = NoShare
    BY <2>1, <2>3, <1>4 DEF Test!Or
  <2>4. CASE f.password # Blank
    BY <2>4 DEF Test!Or
  <2> QED
    BY <2>2, <2>3, <2>4
<1>7. Test!Tests(n, f) = Test!Tests(r, f)
  BY <1>5, <1>6
<1>8. ASSUME r # NoShare, r = n PROVE Test!Mounts(r) = Test!Tests(r, f)
  <2>1. Test!Or(r.password, Test!Service.password) = tested1(r)
    BY <1>4, <1>8 DEF Test!Or
  <2>2. Test!Mounts(r) = [user |-> Test!Or(r.user, Test!Service.user),
                          password |-> Test!Or(r.password, Test!Service.password)]
    BY DEF Test!Mounts
  <2>3. r.user = f.user
    BY <1>4, <1>8
  <2> QED
    BY <2>1, <2>2, <2>3, <1>5
<1> QED
  BY <1>1, <1>4, <1>7, <1>8

LEMMA TesterNext ==
  ASSUME Test!NoShareIsNoForm, TesterInv, [Test!TesterNext]_(Test!testerVars) PROVE TesterInv'
<1>1. FormTypes
  BY DEF TesterInv
<1>2. CASE (\E b \in BOOLEAN : Test!Press(b)) \/ Test!Arrive \/ Test!Answer
  BY <1>2, TesterEnds
<1>3. CASE Test!List \/ Test!Connect
  BY <1>3, TesterLists
<1>4. CASE Test!Put \/ Test!Get \/ Test!Delete
  BY <1>4, TesterWrites
<1>5. ASSUME NEW fault, Test!Turn(fault) PROVE TesterInv'
  <2>1. UNCHANGED <<fields, row, litter>> /\ tested' = Test!Stale(tested)
    BY <1>5 DEF Test!Turn
  <2>2. PICK G : G = faultsOfServer'
    OBVIOUS
  <2>3. probe' = IF probe = Test!Idle THEN probe
                 ELSE [Test!Stale(probe) EXCEPT !.seen = @ \cup G]
    BY <1>5, <2>2 DEF Test!Turn
  <2>4. ShownInv'
    <3>1. tested = Test!NoAnswer => tested' = Test!NoAnswer
      BY <2>1, StaleIs
    <3>2. AnswerIsSound(tested, faultsOfServer, row, fields, litter) =>
            AnswerIsSound(tested', G, row, fields, litter)
      BY <2>1, StaleIs
    <3> QED
      BY <2>1, <2>2, <3>1, <3>2 DEF TesterInv, ShownInv
  <2>5. ProbeInv'
    <3>1. CASE probe = Test!Idle
      BY <2>3, <3>1 DEF ProbeInv
    <3>2. CASE probe # Test!Idle
      <4>1. tested' = Test!NoAnswer
        BY <2>1, <3>2, StaleIs DEF TesterInv, ProbeInv
      <4>2. PICK q : q = [Test!Stale(probe) EXCEPT !.seen = @ \cup G]
        OBVIOUS
      <4>3. \/ IsAsked(q, G, fields, litter) \/ RunIsSound(q, G, row, fields, litter)
        BY <3>2, <4>2, StaleIs DEF TesterInv, ProbeInv
      <4> QED
        BY <2>1, <2>2, <2>3, <3>2, <4>1, <4>2, <4>3 DEF ProbeInv
    <3> QED
      BY <3>1, <3>2
  <2>6. FormTypes'
    BY <2>1, <1>1 DEF FormTypes
  <2> QED
    BY <2>4, <2>5, <2>6 DEF TesterInv
<1>6. CASE Test!Edit \/ Test!Reset
  <2>1. /\ UNCHANGED <<faultsOfServer, row, litter>>
        /\ tested' = Test!Stale(tested) /\ probe' = Test!Stale(probe)
    BY <1>6 DEF Test!Edit, Test!Reset
  <2>2. fields' \in Test!Fields
    <3>1. CASE Test!Edit
      BY <3>1 DEF Test!Edit
    <3>2. CASE Test!Reset
      <4>1. row \in Test!Fields /\ fields' = [row EXCEPT !.password = Blank]
        BY <3>2, <1>1 DEF Test!Reset, FormTypes
      <4> QED
        BY <4>1 DEF Test!Fields
    <3> QED
      BY <3>1, <3>2, <1>6
  <2>3. PICK g : g = fields'
    OBVIOUS
  <2>4. ShownInv'
    <3>1. tested = Test!NoAnswer => tested' = Test!NoAnswer
      BY <2>1, StaleIs
    <3>2. AnswerIsSound(tested, faultsOfServer, row, fields, litter) =>
            AnswerIsSound(tested', faultsOfServer, row, g, litter)
      BY <2>1, StaleIs
    <3> QED
      BY <2>1, <2>3, <3>1, <3>2 DEF TesterInv, ShownInv
  <2>5. ProbeInv'
    <3>1. CASE probe = Test!Idle
      BY <2>1, <3>1, StaleIs DEF ProbeInv
    <3>2. CASE probe # Test!Idle
      <4>1. tested' = Test!NoAnswer
        BY <2>1, <3>2, StaleIs DEF TesterInv, ProbeInv
      <4>2. \/ IsAsked(probe', faultsOfServer, g, litter)
            \/ RunIsSound(probe', faultsOfServer, row, g, litter)
        BY <2>1, <3>2, StaleIs DEF TesterInv, ProbeInv
      <4> QED
        BY <2>1, <2>3, <4>1, <4>2 DEF ProbeInv
    <3> QED
      BY <3>1, <3>2
  <2>6. FormTypes'
    BY <2>1, <2>2, <1>1 DEF FormTypes
  <2> QED
    BY <2>4, <2>5, <2>6 DEF TesterInv
<1>7. CASE Test!Create \/ Test!Update
  <2>1. UNCHANGED <<faultsOfServer, fields, litter, tested, probe>> /\ row' = Test!Saved(row, fields)
    BY <1>7 DEF Test!Create, Test!Update
  <2>2. PICK n : n = row'
    OBVIOUS
  <2>3. n \in Test!Fields /\ Test!Tests(n, fields) = Test!Tests(row, fields)
    BY <2>1, <2>2, <1>1, SavedIsTested DEF FormTypes
  <2>4. \A p : RunIsSound(p, faultsOfServer, row, fields, litter) =>
                 RunIsSound(p, faultsOfServer, n, fields, litter)
    BY <2>3 DEF RunIsSound
  <2>5. \A t : AnswerIsSound(t, faultsOfServer, row, fields, litter) =>
                 AnswerIsSound(t, faultsOfServer, n, fields, litter)
    BY <2>3 DEF AnswerIsSound
  <2> QED
    BY <2>1, <2>2, <2>3, <2>4, <2>5, <1>1 DEF TesterInv, FormTypes, ProbeInv, ShownInv
<1>8. CASE UNCHANGED Test!testerVars
  BY <1>8 DEF Test!testerVars, TesterInv, FormTypes, ProbeInv, ShownInv
<1> QED
  BY <1>2, <1>3, <1>4, <1>5, <1>6, <1>7, <1>8 DEF Test!TesterNext

(* Whatever goes wrong with the server and is edited while the test runs:  *)
(* the cause that is told was there; what is saved as it was tested is     *)
(* mounted so; one press is two refused logons at most; and the file stays *)
(* only when something stood in the way of its deletion.                   *)
THEOREM TestsHold == ASSUME Test!NoShareIsNoForm PROVE Test!TesterSpec => []Test!TestsAreTrue
<1>1. TesterInv => Test!TestsAreTrue
  <2> SUFFICES ASSUME TesterInv PROVE Test!TestsAreTrue
    OBVIOUS
  <2>1. CASE tested = Test!NoAnswer
    BY <2>1 DEF Test!NoAnswer, Test!TestsAreTrue, Test!AnswersAreTrue, Test!MountedAsTested,
                Test!FewRefusals, Test!NothingIsLeft
  <2>2. CASE AnswerIsSound(tested, faultsOfServer, row, fields, litter)
    <3>1. Test!AnswersAreTrue
      BY <2>2 DEF AnswerIsSound, Explained, Test!AnswersAreTrue
    <3>2. Test!MountedAsTested
      <4> SUFFICES ASSUME tested.state = "success", tested.current, row # NoShare,
                          row = Test!Saved(row, fields)
                   PROVE  Test!Mounts(row) = tested.account
                          /\ Test!Stops(Test!Mounts(row), "connect") = "nothing"
        BY DEF Test!MountedAsTested
      <4>1. Test!Mounts(row) = Test!Tests(row, fields)
        BY SavedIsTested DEF TesterInv, FormTypes
      <4>2. tested.account = Test!Tests(row, fields)
            /\ StopsWith(faultsOfServer, tested.account, "connect") = "nothing"
        BY <2>2 DEF AnswerIsSound
      <4> QED
        BY <4>1, <4>2, StopsAre
    <3>3. Test!FewRefusals /\ Test!NothingIsLeft
      BY <2>2 DEF AnswerIsSound, Test!FewRefusals, Test!NothingIsLeft
    <3> QED
      BY <3>1, <3>2, <3>3 DEF Test!TestsAreTrue
  <2> QED
    BY <2>1, <2>2 DEF TesterInv, ShownInv
<1> QED
  BY <1>1, TesterBegins, TesterNext, PTL DEF Test!TesterSpec

-----------------------------------------------------------------------------
(* The file browser.  A request that has looked at a file, and has not     *)
(* been told that it is another since, knows its length; a preview that    *)
(* still counts is of the row that is chosen; and a list that still counts *)
(* is of the filter that is set.                                           *)
IsTransfer(r) ==
    r \in [kind : {r.kind}, file : {r.file}, step : {r.step}, path : {r.path}, size : {r.size},
           raced : BOOLEAN, current : BOOLEAN, number : {r.number}]
IsQuery(a) == a \in [filter : {a.filter}, current : BOOLEAN, number : {a.number}]
FileTypes ==
    /\ held \in [Paths -> File!Contents \cup {None}]
    /\ \A r \in transfers : IsTransfer(r)
    /\ \A a \in queries : IsQuery(a)
    /\ page = [rows |-> page.rows, filter |-> page.filter, failed |-> page.failed]
    /\ page.failed \in BOOLEAN
Measured(r) == r.step = "open" =>
    /\ r.path \in Paths
    /\ ~r.raced => r.path = r.file.path /\ held[r.path] # None /\ r.size = File!SizeOf(r.path)
OfTheChoice(r) == r.kind = "preview" /\ r.current => r.file = previewed /\ previewed = chosen
Transferring == /\ \A r \in transfers : Measured(r) /\ OfTheChoice(r)
                /\ File!PreviewIsOfTheFile /\ File!SavedIsWhole
Querying == /\ \A a \in queries : a.current => a.filter = filter
            /\ File!ListIsOfTheFilter
FilesInv == FileTypes /\ Transferring /\ Querying

LEMMA FilesBegin == File!FilesInit => FilesInv
BY DEF File!FilesInit, FilesInv, FileTypes, Transferring, Querying, File!PreviewIsOfTheFile,
       File!SavedIsWhole, File!ListIsOfTheFilter

LEMMA Sizes ==
  ASSUME FileTypes, NEW p \in Paths, held[p] # None
  PROVE  File!SizeOf(p) \in {1, 2}
<1>1. held[p] \in {"short", "long", "binary"}
  BY DEF FileTypes, File!Contents, File!Size
<1> QED
  BY <1>1 DEF File!SizeOf, File!Size

\* what the rest of the page asks does not disturb a list
LEMMA ListsAnswered ==
  ASSUME FileTypes, Querying, NEW a \in queries, File!Listed(a) \/ File!ListFails(a)
  PROVE  /\ Querying'
         /\ page' = [rows |-> page'.rows, filter |-> page'.filter, failed |-> page'.failed]
         /\ page'.failed \in BOOLEAN /\ queries' \subseteq queries
         /\ UNCHANGED <<held, transfers, preview, previewed, chosen, saved>>
<1>1. queries' = queries \ {a} /\ UNCHANGED <<filter, held, transfers, preview, previewed, chosen, saved>>
  BY DEF File!Listed, File!ListFails
<1>2. /\ page' = [rows |-> page'.rows, filter |-> page'.filter, failed |-> page'.failed]
      /\ page'.failed \in BOOLEAN
      /\ a.current => page'.filter = filter \/ page'.failed
      /\ ~a.current => page' = page
  <2>1. a.current \in BOOLEAN
    BY DEF FileTypes, IsQuery
  <2>2. CASE File!Listed(a)
    BY <2>1, <2>2 DEF File!Listed, FileTypes, Querying
  <2>3. CASE File!ListFails(a)
    <3>1. page' = [page EXCEPT !.failed = page.failed \/ a.current]
      BY <2>3 DEF File!ListFails
    <3>2. page'.rows = page.rows /\ page'.filter = page.filter
          /\ page'.failed = (page.failed \/ a.current)
          /\ page' = [rows |-> page.rows, filter |-> page.filter, failed |-> page.failed \/ a.current]
      BY <3>1 DEF FileTypes
    <3>3. ~a.current => (page.failed \/ a.current) = page.failed
      BY <2>1 DEF FileTypes
    <3>4. ~a.current => page' = page
      BY <3>2, <3>3 DEF FileTypes
    <3> QED
      BY <3>2, <3>4, <2>1 DEF FileTypes
  <2> QED
    BY <2>2, <2>3
<1>3. Querying'
  <2>1. \A b \in queries' : b.current => b.filter = filter'
    BY <1>1 DEF Querying
  <2>2. File!ListIsOfTheFilter'
    <3>1. CASE a.current
      BY <3>1, <1>1, <1>2 DEF File!ListIsOfTheFilter
    <3>2. CASE ~a.current
      BY <3>2, <1>1, <1>2 DEF File!ListIsOfTheFilter, Querying
    <3> QED
      BY <3>1, <3>2
  <2> QED
    BY <2>1, <2>2 DEF Querying
<1> QED
  BY <1>1, <1>2, <1>3

LEMMA ListsAskedFor ==
  ASSUME FileTypes, Querying, NEW f, File!Filter(f)
  PROVE  /\ Querying' /\ (\A a \in queries' : IsQuery(a))
<1> DEFINE new == [filter |-> f, current |-> TRUE, number |-> lists]
<1>1. /\ queries' = {[a EXCEPT !.current = FALSE] : a \in queries} \cup {new}
      /\ filter' = f
  BY DEF File!Filter
<1>2. IsQuery(new) /\ new.current /\ new.filter = f
  BY DEF IsQuery
<1>3. ASSUME NEW a \in queries, NEW b, b = [a EXCEPT !.current = FALSE]
      PROVE IsQuery(b) /\ ~b.current
  <2>1. IsQuery(a)
    BY DEF FileTypes
  <2>2. b.filter = a.filter /\ b.number = a.number /\ ~b.current
        /\ b \in [filter : {a.filter}, current : BOOLEAN, number : {a.number}]
    BY <2>1, <1>3 DEF IsQuery
  <2> QED
    BY <2>2 DEF IsQuery
<1> HIDE DEF new
<1>4. \A a \in queries' : IsQuery(a) /\ (a.current => a.filter = filter')
  BY <1>1, <1>2, <1>3
<1>5. File!ListIsOfTheFilter'
  BY <1>1, <1>2 DEF File!ListIsOfTheFilter
<1> QED
  BY <1>4, <1>5 DEF Querying

LEMMA FilesAreWritten ==
  ASSUME FileTypes, Transferring, NEW p \in Paths, File!Write(p)
  PROVE  /\ Transferring' /\ held' \in [Paths -> File!Contents \cup {None}]
         /\ \A r \in transfers' : IsTransfer(r)
<1> DEFINE Told(r) == [r EXCEPT !.raced = @ \/ (r.step = "open" /\ r.path = p)]
<1>1. /\ UNCHANGED <<chosen, previewed, preview, saved>>
      /\ transfers' = {Told(r) : r \in transfers}
      /\ held' \in [Paths -> File!Contents \cup {None}]
      /\ \A q \in Paths : q # p => held'[q] = held[q]
  BY DEF File!Write, File!Raced, FileTypes
<1>2. ASSUME NEW r \in transfers
      PROVE  /\ IsTransfer(Told(r)) /\ Told(r).kind = r.kind /\ Told(r).file = r.file
             /\ Told(r).step = r.step /\ Told(r).path = r.path /\ Told(r).size = r.size
             /\ Told(r).current = r.current
             /\ Told(r).raced = (r.raced \/ (r.step = "open" /\ r.path = p))
  BY DEF FileTypes, IsTransfer
<1> HIDE DEF Told
<1>3. ASSUME NEW t \in transfers' PROVE IsTransfer(t) /\ Measured(t)' /\ OfTheChoice(t)'
  <2>1. PICK r \in transfers : t = Told(r)
    BY <1>1
  <2>2. Measured(r) /\ OfTheChoice(r)
    BY DEF Transferring
  <2>3. OfTheChoice(t)'
    BY <2>1, <2>2, <1>1, <1>2 DEF OfTheChoice
  <2>4. Measured(t)'
    <3>1. CASE r.step = "open" /\ ~Told(r).raced
      <4>1. r.path # p /\ ~r.raced
        BY <3>1, <1>2
      <4>2. held'[r.path] = held[r.path]
        BY <4>1, <3>1, <2>2, <1>1 DEF Measured
      <4> QED
        BY <2>1, <2>2, <3>1, <4>1, <4>2, <1>2 DEF Measured, File!SizeOf
    <3>2. CASE ~(r.step = "open" /\ ~Told(r).raced)
      BY <2>1, <2>2, <3>2, <1>2 DEF Measured
    <3> QED
      BY <3>1, <3>2
  <2> QED
    BY <2>1, <2>3, <2>4, <1>2
<1>4. File!PreviewIsOfTheFile' /\ File!SavedIsWhole'
  BY <1>1 DEF Transferring, File!PreviewIsOfTheFile, File!SavedIsWhole
<1> QED
  BY <1>1, <1>3, <1>4 DEF Transferring

\* what a click does: an earlier preview no longer counts
LEMMA FilesClicked ==
  ASSUME FileTypes, Transferring,
         (\E r \in page.rows : File!Select(r)) \/ File!Preview \/ File!Download
  PROVE  Transferring' /\ \A r \in transfers' : IsTransfer(r)
<1> DEFINE Off(r) == [r EXCEPT !.current = @ /\ r.kind # "preview"]
<1>1. File!Cancelled = {Off(r) : r \in transfers}
  BY DEF File!Cancelled
<1>2. ASSUME NEW r \in transfers
      PROVE  /\ IsTransfer(Off(r)) /\ Off(r).kind = r.kind /\ Off(r).file = r.file
             /\ Off(r).step = r.step /\ Off(r).path = r.path /\ Off(r).size = r.size
             /\ Off(r).raced = r.raced /\ Off(r).current = (r.current /\ r.kind # "preview")
  BY DEF FileTypes, IsTransfer
<1>3. ASSUME NEW kind
      PROVE  /\ IsTransfer(File!Request(kind)) /\ File!Request(kind).step = "asked"
             /\ File!Request(kind).kind = kind /\ File!Request(kind).file = chosen
  BY DEF File!Request, IsTransfer
<1>4. held' = held /\ saved' = saved
  BY DEF File!Select, File!Preview, File!Download
<1>5. \A r : Measured(r) => Measured(r)'
  BY <1>4 DEF Measured, File!SizeOf
<1>6. ASSUME NEW t \in File!Cancelled PROVE IsTransfer(t) /\ Measured(t)' /\ OfTheChoice(t)'
  <2>1. PICK r \in transfers : t = Off(r)
    BY <1>1
  <2> HIDE DEF Off
  <2>2. Measured(t)
    BY <2>1, <1>2 DEF Transferring, Measured
  <2>3. ~(t.kind = "preview" /\ t.current)
    BY <2>1, <1>2
  <2> QED
    BY <2>1, <2>2, <2>3, <1>2, <1>5 DEF OfTheChoice
<1> HIDE DEF Off
<1>7. ASSUME NEW kind, NEW t, t = File!Request(kind)
      PROVE  IsTransfer(t) /\ Measured(t)' /\ t.kind = kind /\ t.file = chosen
  BY <1>3, <1>7 DEF Measured
<1>8. File!SavedIsWhole'
  BY <1>4 DEF Transferring, File!SavedIsWhole
<1>9. ASSUME NEW r \in page.rows, File!Select(r) PROVE Transferring' /\ \A t \in transfers' : IsTransfer(t)
  <2>1. transfers' = File!Cancelled /\ preview' = None
    BY <1>9 DEF File!Select
  <2>2. File!PreviewIsOfTheFile'
    BY <2>1 DEF File!PreviewIsOfTheFile
  <2> QED
    BY <2>1, <2>2, <1>6, <1>8 DEF Transferring
<1>10. CASE File!Preview
  <2>0. PICK t : t = File!Request("preview")
    OBVIOUS
  <2>1. /\ transfers' = File!Cancelled \cup {t} /\ preview' = None
        /\ previewed' = chosen /\ chosen' = chosen
    BY <1>10, <2>0 DEF File!Preview
  <2>2. File!PreviewIsOfTheFile'
    BY <2>1 DEF File!PreviewIsOfTheFile
  <2>3. OfTheChoice(t)'
    BY <2>0, <2>1, <1>7 DEF OfTheChoice
  <2> QED
    BY <2>0, <2>1, <2>2, <2>3, <1>6, <1>7, <1>8 DEF Transferring
<1>11. CASE File!Download
  <2>0. PICK t : t = File!Request("download")
    OBVIOUS
  <2>1. /\ transfers' = transfers \cup {t}
        /\ UNCHANGED <<preview, previewed, chosen>>
    BY <1>11, <2>0 DEF File!Download
  <2>2. File!PreviewIsOfTheFile'
    BY <2>1 DEF File!PreviewIsOfTheFile, Transferring
  <2>3. OfTheChoice(t)'
    BY <2>0, <1>7 DEF OfTheChoice
  <2>4. \A r \in transfers : IsTransfer(r) /\ Measured(r)' /\ OfTheChoice(r)'
    BY <2>1, <1>5 DEF FileTypes, Transferring, OfTheChoice
  <2> QED
    BY <2>0, <2>1, <2>2, <2>3, <2>4, <1>7, <1>8 DEF Transferring
<1> QED
  BY <1>9, <1>10, <1>11

\* what the server answers to a preview or a download
LEMMA FilesLookedUp ==
  ASSUME FileTypes, Transferring, NEW r \in transfers, File!Resolve(r)
  PROVE  Transferring' /\ \A t \in transfers' : IsTransfer(t)
<1>1. UNCHANGED <<held, chosen, previewed, preview, saved>>
  BY DEF File!Resolve
<1>2. PICK p \in File!Found(r) :
        transfers' = (transfers \ {r}) \cup
          {[r EXCEPT !.step = "open", !.path = p, !.size = File!SizeOf(p), !.raced = p # r.file.path]}
  BY DEF File!Resolve
<1>3. p \in Paths /\ held[p] # None
  BY DEF File!Found, File!Known
<1>4. PICK t : t = [r EXCEPT !.step = "open", !.path = p, !.size = File!SizeOf(p),
                            !.raced = p # r.file.path]
  OBVIOUS
<1>5. /\ t.kind = r.kind /\ t.file = r.file /\ t.step = "open" /\ t.path = p
      /\ t.size = File!SizeOf(p) /\ t.raced = (p # r.file.path) /\ t.current = r.current
      /\ IsTransfer(t)
  BY <1>4 DEF FileTypes, IsTransfer
<1>6. Measured(t)' /\ OfTheChoice(t)'
  BY <1>1, <1>3, <1>5 DEF Measured, OfTheChoice, Transferring, File!SizeOf
<1>7. \A q \in transfers : IsTransfer(q) /\ Measured(q)' /\ OfTheChoice(q)'
  BY <1>1 DEF FileTypes, Transferring, Measured, OfTheChoice, File!SizeOf
<1>8. File!PreviewIsOfTheFile' /\ File!SavedIsWhole'
  BY <1>1 DEF Transferring, File!PreviewIsOfTheFile, File!SavedIsWhole
<1> QED
  BY <1>2, <1>4, <1>5, <1>6, <1>7, <1>8 DEF Transferring

LEMMA FilesPreviewed ==
  ASSUME FileTypes, Transferring, NEW r \in transfers, File!PreviewRead(r)
  PROVE  Transferring' /\ \A t \in transfers' : IsTransfer(t)
<1>1. transfers' = transfers \ {r} /\ UNCHANGED <<held, chosen, previewed, saved>>
  BY DEF File!PreviewRead
<1>2. \A q \in transfers' : IsTransfer(q) /\ Measured(q)' /\ OfTheChoice(q)'
  BY <1>1 DEF FileTypes, Transferring, Measured, OfTheChoice, File!SizeOf
<1>3. r.path \in Paths /\ held[r.path] # None /\ r.kind = "preview" /\ r.current \in BOOLEAN
  BY DEF File!PreviewRead, Transferring, Measured, FileTypes, IsTransfer
<1>4. File!PreviewIsOfTheFile'
  <2>1. CASE ~r.current
    <3>1. preview' = preview
      BY <2>1 DEF File!PreviewRead, File!Show
    <3> QED
      BY <3>1, <1>1 DEF Transferring, File!PreviewIsOfTheFile
  <2>2. CASE r.current /\ held[r.path] = "binary"
    <3>1. preview' = [of |-> "refused"]
      BY <2>2 DEF File!PreviewRead, File!Show
    <3> QED
      BY <3>1 DEF File!PreviewIsOfTheFile
  <2>3. CASE r.current /\ held[r.path] # "binary"
    <3> DEFINE n == File!Size[held[r.path]]
    <3> DEFINE buffer == File!Smaller(r.size, File!PreviewMax)
    <3>1. preview' = [of |-> held[r.path], whole |-> File!Read(held[r.path], buffer).whole,
                      truncated |-> r.size > File!Smaller(n, buffer), file |-> r.file,
                      raced |-> r.raced]
      BY <2>3 DEF File!PreviewRead, File!Show
    <3>2. File!Read(held[r.path], buffer).whole = (n <= buffer)
      BY DEF File!Read
    <3>3. n \in {1, 2}
      BY <1>3, Sizes DEF File!SizeOf
    <3>4. ~r.raced => r.size = n
      BY <1>3 DEF Transferring, Measured, File!SizeOf, File!PreviewRead
    <3>5. ~r.raced => (r.size > File!Smaller(n, buffer)) = ~(n <= buffer)
      BY <3>3, <3>4 DEF File!Smaller, File!PreviewMax
    <3> HIDE DEF n, buffer
    <3>6. r.file = previewed /\ previewed = chosen
      BY <2>3, <1>3 DEF Transferring, OfTheChoice
    <3>7. /\ preview'.file = previewed' /\ previewed' = chosen'
          /\ preview'.raced = r.raced /\ preview'.whole = (n <= buffer)
          /\ preview'.truncated = (r.size > File!Smaller(n, buffer))
      BY <3>1, <3>2, <3>6, <1>1
    <3> QED
      BY <3>5, <3>7 DEF File!PreviewIsOfTheFile
  <2> QED
    BY <2>1, <2>2, <2>3, <1>3
<1>5. File!SavedIsWhole'
  BY <1>1 DEF Transferring, File!SavedIsWhole
<1> QED
  BY <1>2, <1>4, <1>5 DEF Transferring

LEMMA FilesDownloaded ==
  ASSUME FileTypes, Transferring, NEW r \in transfers, File!DownloadRead(r)
  PROVE  Transferring' /\ \A t \in transfers' : IsTransfer(t)
<1>1. transfers' = transfers \ {r} /\ UNCHANGED <<held, chosen, previewed, preview>>
  BY DEF File!DownloadRead
<1>2. \A q \in transfers' : IsTransfer(q) /\ Measured(q)' /\ OfTheChoice(q)'
  BY <1>1 DEF FileTypes, Transferring, Measured, OfTheChoice, File!SizeOf
<1>3. File!PreviewIsOfTheFile'
  BY <1>1 DEF Transferring, File!PreviewIsOfTheFile
<1>4. File!SavedIsWhole'
  <2>1. CASE saved' = saved
    BY <2>1 DEF Transferring, File!SavedIsWhole
  <2>2. CASE saved' # saved
    <3>1. /\ saved'.got = [of |-> held[r.path], whole |-> File!Size[held[r.path]] <= r.size]
          /\ saved'.raced = r.raced /\ saved'.there = held[r.file.path]
      BY <2>2 DEF File!DownloadRead, File!Read
    <3>2. ~r.raced => r.path = r.file.path /\ r.size = File!Size[held[r.path]]
      BY DEF File!DownloadRead, Transferring, Measured, File!SizeOf
    <3>3. File!Size[held[r.path]] \in {1, 2}
      BY Sizes DEF File!DownloadRead, Transferring, Measured, File!SizeOf
    <3>4. ~r.raced => (File!Size[held[r.path]] <= r.size) = TRUE
      BY <3>2, <3>3
    <3> QED
      BY <3>1, <3>2, <3>4 DEF File!SavedIsWhole
  <2> QED
    BY <2>1, <2>2
<1> QED
  BY <1>2, <1>3, <1>4 DEF Transferring

LEMMA FilesRefused ==
  ASSUME FileTypes, Transferring, NEW r \in transfers,
         File!NotFound(r) \/ File!PreviewGone(r) \/ File!DownloadGone(r)
  PROVE  Transferring' /\ \A t \in transfers' : IsTransfer(t)
<1>1. transfers' \subseteq transfers /\ UNCHANGED <<held, chosen, previewed, saved>>
  BY DEF File!NotFound, File!PreviewGone, File!DownloadGone, File!Fails
<1>2. preview' = preview \/ preview' = [of |-> "refused"]
  BY DEF File!NotFound, File!PreviewGone, File!DownloadGone, File!Fails
<1>3. \A q \in transfers' : IsTransfer(q) /\ Measured(q)' /\ OfTheChoice(q)'
  BY <1>1 DEF FileTypes, Transferring, Measured, OfTheChoice, File!SizeOf
<1>4. File!PreviewIsOfTheFile' /\ File!SavedIsWhole'
  BY <1>1, <1>2 DEF Transferring, File!PreviewIsOfTheFile, File!SavedIsWhole
<1> QED
  BY <1>3, <1>4 DEF Transferring

LEMMA FilesNext == FilesInv /\ [File!FilesNext]_(File!filesVars) => FilesInv'
<1> SUFFICES ASSUME FilesInv, [File!FilesNext]_(File!filesVars) PROVE FilesInv'
  OBVIOUS
<1>1. FileTypes /\ Transferring /\ Querying
  BY DEF FilesInv
<1>2. ASSUME UNCHANGED <<held, transfers, queries, page>> PROVE FileTypes'
  BY <1>1, <1>2 DEF FileTypes
<1>3. ASSUME UNCHANGED <<held, transfers, chosen, previewed, preview, saved>> PROVE Transferring'
  BY <1>1, <1>3 DEF Transferring, Measured, OfTheChoice, File!SizeOf, File!PreviewIsOfTheFile,
                    File!SavedIsWhole
<1>4. ASSUME UNCHANGED <<queries, filter, page>> PROVE Querying'
  BY <1>1, <1>4 DEF Querying, File!ListIsOfTheFilter
<1>5. ASSUME UNCHANGED <<held, queries, page>>, \A t \in transfers' : IsTransfer(t) PROVE FileTypes'
  BY <1>1, <1>5 DEF FileTypes
<1>6. ASSUME NEW p \in Paths, File!Write(p) PROVE FilesInv'
  <2>1. UNCHANGED <<queries, page, filter>>
    BY <1>6 DEF File!Write
  <2>2. /\ Transferring' /\ held' \in [Paths -> File!Contents \cup {None}]
        /\ \A r \in transfers' : IsTransfer(r)
    BY <1>1, <1>6, FilesAreWritten
  <2>3. FileTypes'
    BY <1>1, <2>1, <2>2 DEF FileTypes
  <2> QED
    BY <2>1, <2>2, <2>3, <1>4 DEF FilesInv
<1>7. ASSUME NEW p \in Paths, File!Sync(p) PROVE FilesInv'
  <2>1. UNCHANGED <<held, filter, queries, page, chosen, previewed, transfers, preview, saved>>
    BY <1>7 DEF File!Sync
  <2> QED
    BY <2>1, <1>2, <1>3, <1>4 DEF FilesInv
<1>8. ASSUME NEW f \in Paths \cup {None}, File!Filter(f) PROVE FilesInv'
  <2>1. UNCHANGED <<held, page, chosen, previewed, transfers, preview, saved>>
    BY <1>8 DEF File!Filter
  <2>2. Querying' /\ \A a \in queries' : IsQuery(a)
    BY <1>1, <1>8, ListsAskedFor
  <2>3. FileTypes'
    BY <2>1, <2>2, <1>1 DEF FileTypes
  <2> QED
    BY <2>1, <2>2, <2>3, <1>3 DEF FilesInv
<1>9. ASSUME NEW a \in queries, File!Listed(a) \/ File!ListFails(a) PROVE FilesInv'
  <2>1. /\ Querying'
        /\ page' = [rows |-> page'.rows, filter |-> page'.filter, failed |-> page'.failed]
        /\ page'.failed \in BOOLEAN /\ queries' \subseteq queries
        /\ UNCHANGED <<held, transfers, preview, previewed, chosen, saved>>
    BY <1>1, <1>9, ListsAnswered
  <2>2. FileTypes'
    BY <2>1, <1>1 DEF FileTypes
  <2> QED
    BY <2>1, <2>2, <1>3 DEF FilesInv
<1>10. CASE (\E r \in page.rows : File!Select(r)) \/ File!Preview \/ File!Download
  <2>1. UNCHANGED <<held, queries, page, filter>>
    BY <1>10 DEF File!Select, File!Preview, File!Download
  <2>2. Transferring' /\ \A t \in transfers' : IsTransfer(t)
    BY <1>1, <1>10, FilesClicked
  <2> QED
    BY <2>1, <2>2, <1>4, <1>5 DEF FilesInv
<1>11. ASSUME NEW r \in transfers,
              \/ File!Resolve(r) \/ File!NotFound(r) \/ File!PreviewRead(r) \/ File!PreviewGone(r)
              \/ File!DownloadRead(r)
       PROVE  FilesInv'
  <2>1. UNCHANGED <<held, queries, page, filter>>
    BY <1>11 DEF File!Resolve, File!NotFound, File!PreviewRead, File!PreviewGone,
                 File!DownloadRead, File!Fails
  <2>2. Transferring' /\ \A t \in transfers' : IsTransfer(t)
    BY <1>1, <1>11, FilesLookedUp, FilesPreviewed, FilesDownloaded, FilesRefused
  <2> QED
    BY <2>1, <2>2, <1>4, <1>5 DEF FilesInv
<1>12. ASSUME NEW r \in transfers, File!DownloadGone(r) PROVE FilesInv'
  <2>1. /\ UNCHANGED <<held, filter>> /\ queries' = {}
        /\ page' = [page EXCEPT !.failed = page.failed \/ queries # {}]
    BY <1>12 DEF File!DownloadGone
  <2>2. Transferring' /\ \A t \in transfers' : IsTransfer(t)
    BY <1>1, <1>12, FilesRefused
  <2>3. /\ page' = [rows |-> page.rows, filter |-> page.filter, failed |-> page'.failed]
        /\ page'.failed = (page.failed \/ queries # {})
        /\ page'.rows = page.rows /\ page'.filter = page.filter
    BY <2>1, <1>1 DEF FileTypes
  <2>4. page'.failed \in BOOLEAN
    BY <2>3, <1>1 DEF FileTypes
  <2>5. FileTypes'
    BY <2>1, <2>2, <2>3, <2>4, <1>1 DEF FileTypes
  <2>6. page'.filter = filter' \/ page'.failed
    BY <2>1, <2>3, <1>1 DEF Querying, File!ListIsOfTheFilter
  <2>7. Querying'
    BY <2>1, <2>6 DEF Querying, File!ListIsOfTheFilter
  <2> QED
    BY <2>2, <2>5, <2>7 DEF FilesInv
<1>13. CASE UNCHANGED File!filesVars
  BY <1>13, <1>2, <1>3, <1>4 DEF File!filesVars, FilesInv
<1> QED
  BY <1>6, <1>7, <1>8, <1>9, <1>10, <1>11, <1>12, <1>13 DEF File!FilesNext

(* Whatever is written and clicked meanwhile: what is saved is all of the  *)
(* file it is named after, or it was told that the file changed; a preview *)
(* is of the row chosen and says when it is cut off; the list is of the    *)
(* filter set.                                                             *)
THEOREM FilesHold == File!FilesSpec => []File!FilesAreTrue
<1>1. FilesInv => File!FilesAreTrue
  BY DEF FilesInv, Transferring, Querying, File!FilesAreTrue
<1> QED
  BY <1>1, FilesBegin, FilesNext, PTL DEF File!FilesSpec

-----------------------------------------------------------------------------
(* The addresses of the machine side.  A row that reserves an address is   *)
(* the last answer for the spelling it is kept under, and the other way    *)
(* round; no pass over the leases ever gets a row into the table of the    *)
(* machines seen; and the range on the page is the stored one, or typed,   *)
(* as soon as a person chose one.                                          *)
Leased == Leasable \cup {None}
ClientRows == [mac : Dhc!Macs, ip : Leased, name : {None, "named"}, reserved : BOOLEAN]
Sections == [form : Dhc!Settings \cup {None}, dirty : BOOLEAN, saving : BOOLEAN, typed : BOOLEAN]
DhcpTypes == /\ settings \in Dhc!Settings /\ section \in Sections
             /\ section = Dhc!NoPage \/ section.form \in Dhc!Settings
RowsArePromised ==
    /\ clients \in SUBSET ClientRows
    /\ DOMAIN promised = Dhc!Macs
    /\ \A entry \in clients : entry.reserved /\ entry.ip # None => promised[entry.mac] = entry.ip
    /\ \A mac \in Dhc!Macs : promised[mac] # None =>
           \E entry \in clients : entry.mac = mac /\ entry.reserved /\ entry.ip = promised[mac]
ListIsFresh == DOMAIN discovered = {} /\ Dhc!MachinesAreCurrent
RangeIsKept ==
    /\ choice \in BOOLEAN
    /\ choice => settings.range # "factory"
    /\ choice => section = Dhc!NoPage \/ section.typed \/ section.form.range = settings.range
DhcpInv == DhcpTypes /\ RowsArePromised /\ ListIsFresh /\ RangeIsKept

LEMMA DhcpBegins == Dhc!DhcpInit => DhcpInv
<1> SUFFICES ASSUME Dhc!DhcpInit PROVE DhcpInv
  OBVIOUS
<1>1. DhcpTypes
  BY DEF Dhc!DhcpInit, DhcpTypes, Dhc!Settings, Dhc!Ranges, Sections, Dhc!NoPage
<1>2. RowsArePromised
  <2>1. \A mac \in Dhc!Macs :
          /\ [mac |-> mac, ip |-> None, name |-> None, reserved |-> FALSE] \in ClientRows
          /\ ~[mac |-> mac, ip |-> None, name |-> None, reserved |-> FALSE].reserved
    BY DEF ClientRows, Leased
  <2>2. \A entry \in clients : entry \in ClientRows /\ ~entry.reserved
    BY <2>1 DEF Dhc!DhcpInit
  <2> QED
    BY <2>2 DEF Dhc!DhcpInit, RowsArePromised
<1>3. ListIsFresh
  BY DEF Dhc!DhcpInit, ListIsFresh, Dhc!MachinesAreCurrent
<1>4. RangeIsKept
  BY DEF Dhc!DhcpInit, RangeIsKept
<1> QED
  BY <1>1, <1>2, <1>3, <1>4 DEF DhcpInv

LEMMA DhcpReserves ==
    ASSUME RowsArePromised, NEW mac \in Dhc!Macs, NEW ip \in Leasable, NEW name \in {None, "named"},
           Dhc!Reserve(mac, ip, name)
    PROVE  RowsArePromised'
<1> DEFINE new == Dhc!Kept(mac, ip, name)
<1>1. /\ new \in ClientRows /\ new.mac = mac /\ new.ip = ip /\ new.reserved
  BY DEF Dhc!Kept, ClientRows, Leased
<1>2. clients' = {entry \in clients : entry.mac # mac} \cup {new}
  BY DEF Dhc!Reserve, Dhc!RowsAfter, Dhc!RowsOf
<1>3. promised' = [promised EXCEPT ![mac] = ip]
  BY DEF Dhc!Reserve
<1> HIDE DEF new
<1>4. clients' \in SUBSET ClientRows /\ DOMAIN promised' = Dhc!Macs
  BY <1>1, <1>2, <1>3 DEF RowsArePromised
<1>5. ASSUME NEW entry \in clients', entry.reserved, entry.ip # None
      PROVE promised'[entry.mac] = entry.ip
  <2>1. CASE entry = new
    BY <2>1, <1>1, <1>3 DEF RowsArePromised
  <2>2. CASE entry \in clients /\ entry.mac # mac
    <3>1. entry.mac \in Dhc!Macs
      BY <2>2 DEF RowsArePromised, ClientRows
    <3> QED
      BY <3>1, <2>2, <1>5, <1>3 DEF RowsArePromised
  <2> QED
    BY <2>1, <2>2, <1>2
<1>6. ASSUME NEW n \in Dhc!Macs, promised'[n] # None
      PROVE \E entry \in clients' : entry.mac = n /\ entry.reserved /\ entry.ip = promised'[n]
  <2>1. CASE n = mac
    BY <2>1, <1>1, <1>2, <1>3 DEF RowsArePromised
  <2>2. CASE n # mac
    <3>1. promised'[n] = promised[n]
      BY <2>2, <1>3 DEF RowsArePromised
    <3>2. PICK entry \in clients : entry.mac = n /\ entry.reserved /\ entry.ip = promised[n]
      BY <3>1, <1>6 DEF RowsArePromised
    <3> QED
      BY <3>1, <3>2, <2>2, <1>2
  <2> QED
    BY <2>1, <2>2
<1> QED
  BY <1>4, <1>5, <1>6 DEF RowsArePromised

LEMMA DhcpGivesUp ==
    ASSUME RowsArePromised, NEW mac \in Dhc!Macs, Dhc!Unreserve(mac)
    PROVE  RowsArePromised'
<1> DEFINE Bare(entry) == [entry EXCEPT !.ip = None, !.reserved = FALSE]
<1>1. clients' = {IF entry.mac = mac THEN Bare(entry) ELSE entry : entry \in clients}
  BY DEF Dhc!Unreserve
<1>2. \A entry \in ClientRows : Bare(entry) \in ClientRows /\ Bare(entry).mac = entry.mac
                               /\ ~Bare(entry).reserved
  BY DEF ClientRows, Leased
<1>3. promised' = [promised EXCEPT ![mac] = None]
  BY DEF Dhc!Unreserve
<1> HIDE DEF Bare
<1>4. clients' \in SUBSET ClientRows /\ DOMAIN promised' = Dhc!Macs
  BY <1>1, <1>2, <1>3 DEF RowsArePromised
<1>5. ASSUME NEW entry \in clients', entry.reserved, entry.ip # None
      PROVE promised'[entry.mac] = entry.ip
  <2>1. PICK old \in clients : entry = IF old.mac = mac THEN Bare(old) ELSE old
    BY <1>1
  <2>2. old \in ClientRows
    BY DEF RowsArePromised
  <2>3. entry = old /\ old.mac # mac
    BY <2>1, <2>2, <1>2, <1>5
  <2>4. entry.mac \in Dhc!Macs
    BY <2>2, <2>3 DEF ClientRows
  <2> QED
    BY <2>3, <2>4, <1>5, <1>3 DEF RowsArePromised
<1>6. ASSUME NEW n \in Dhc!Macs, promised'[n] # None
      PROVE \E entry \in clients' : entry.mac = n /\ entry.reserved /\ entry.ip = promised'[n]
  <2>1. n # mac /\ promised'[n] = promised[n]
    BY <1>3, <1>6 DEF RowsArePromised
  <2>2. PICK entry \in clients : entry.mac = n /\ entry.reserved /\ entry.ip = promised[n]
    BY <2>1, <1>6 DEF RowsArePromised
  <2>3. entry \in clients'
    BY <2>1, <2>2, <1>1
  <2> QED
    BY <2>1, <2>2, <2>3
<1> QED
  BY <1>4, <1>5, <1>6 DEF RowsArePromised

\* no row is ever accepted: the pass is taken back, or there was nothing in it
LEMMA DhcpPasses ==
    ASSUME ListIsFresh, Dhc!UpdateDiscovered PROVE ListIsFresh'
<1>1. UNCHANGED <<leases, machines>>
  BY DEF Dhc!UpdateDiscovered
<1>2. DOMAIN discovered' = {}
  <2>1. CASE \A machine \in DOMAIN leases : Dhc!Accepted(Dhc!RowFor(machine))
    <3>1. DOMAIN leases = {}
      <4> SUFFICES ASSUME NEW machine \in DOMAIN leases PROVE FALSE
        OBVIOUS
      <4>1. Dhc!RowFor(machine) = Dhc!NewRow(machine)
        BY DEF Dhc!RowFor, ListIsFresh
      <4> QED
        BY <4>1, <2>1 DEF Dhc!Accepted, Dhc!NewRow
    <3>2. DOMAIN discovered' = DOMAIN discovered \cup DOMAIN leases
      BY <2>1 DEF Dhc!UpdateDiscovered
    <3> QED
      BY <3>1, <3>2 DEF ListIsFresh
  <2>2. CASE ~\A machine \in DOMAIN leases : Dhc!Accepted(Dhc!RowFor(machine))
    BY <2>2 DEF Dhc!UpdateDiscovered, ListIsFresh
  <2> QED
    BY <2>1, <2>2
<1> QED
  BY <1>1, <1>2 DEF ListIsFresh, Dhc!MachinesAreCurrent

LEMMA DhcpLists == ASSUME ListIsFresh, Dhc!List PROVE ListIsFresh'
<1>1. UNCHANGED <<leases, discovered>>
  BY DEF Dhc!List
<1>2. \A machine \in DOMAIN leases : machines'[machine] = leases[machine]
  BY DEF Dhc!List, ListIsFresh
<1> QED
  BY <1>1, <1>2 DEF ListIsFresh, Dhc!MachinesAreCurrent

\* what the section of the page does
LEMMA DhcpPages ==
    ASSUME DhcpTypes, RangeIsKept,
           \/ Dhc!Load \/ Dhc!Save \/ Dhc!Saved \/ Dhc!SaveFails \/ Dhc!Leave
           \/ \E typed \in Dhc!Settings : Dhc!Edit(typed)
    PROVE  DhcpTypes' /\ RangeIsKept'
<1>1. \A s \in Dhc!Settings : Dhc!Form(s) \in Sections /\ Dhc!Form(s).form = s
  BY DEF Dhc!Form, Sections
<1>2. Dhc!NoPage \in Sections /\ ~Dhc!NoPage.dirty /\ ~Dhc!NoPage.saving
  BY DEF Dhc!NoPage, Sections
<1>3. CASE Dhc!Load
  <2>1. UNCHANGED <<settings, choice>>
    BY <1>3 DEF Dhc!Load
  <2>2. CASE Dhc!ProposeNarrow(settings)
    <3>1. [settings EXCEPT !.range = "single"] \in Dhc!Settings
      BY DEF DhcpTypes, Dhc!Settings, Dhc!Ranges
    <3>2. section' = [Dhc!Form([settings EXCEPT !.range = "single"]) EXCEPT !.dirty = TRUE]
      BY <1>3, <2>2 DEF Dhc!Load
    <3>3. section' \in Sections /\ section'.form \in Dhc!Settings
      BY <3>1, <3>2, <1>1 DEF Sections, Dhc!Form
    <3>4. ~choice
      BY <2>2 DEF Dhc!ProposeNarrow, RangeIsKept
    <3> QED
      BY <2>1, <3>3, <3>4 DEF DhcpTypes, RangeIsKept
  <2>3. CASE ~Dhc!ProposeNarrow(settings)
    <3>1. section' = Dhc!Form(settings)
      BY <1>3, <2>3 DEF Dhc!Load
    <3> QED
      BY <2>1, <3>1, <1>1 DEF DhcpTypes, RangeIsKept
  <2> QED
    BY <2>2, <2>3
<1>4. CASE Dhc!Save
  <2>1. section # Dhc!NoPage /\ section.form \in Dhc!Settings
    BY <1>4, <1>2 DEF Dhc!Save, DhcpTypes
  <2>2. settings' = section.form /\ section' = [section EXCEPT !.saving = TRUE]
    BY <1>4 DEF Dhc!Save
  <2>3. choice' \in BOOLEAN /\ (choice' => section.form.range # "factory")
    BY <1>4 DEF Dhc!Save
  <2>4. section' \in Sections /\ section'.form = section.form
    BY <2>2 DEF DhcpTypes, Sections
  <2> QED
    BY <2>1, <2>2, <2>3, <2>4 DEF DhcpTypes, RangeIsKept
<1>5. CASE Dhc!Saved
  BY <1>5, <1>1 DEF Dhc!Saved, DhcpTypes, RangeIsKept
<1>6. CASE Dhc!SaveFails
  <2>1. section # Dhc!NoPage /\ UNCHANGED <<settings, choice>>
    BY <1>6, <1>2 DEF Dhc!SaveFails
  <2>2. section' = [section EXCEPT !.saving = FALSE]
    BY <1>6 DEF Dhc!SaveFails
  <2>3. section' \in Sections /\ section'.form = section.form /\ section'.typed = section.typed
    BY <2>2 DEF DhcpTypes, Sections
  <2> QED
    BY <2>1, <2>3 DEF DhcpTypes, RangeIsKept
<1>7. CASE Dhc!Leave
  BY <1>7, <1>2 DEF Dhc!Leave, DhcpTypes, RangeIsKept
<1>8. ASSUME NEW typed \in Dhc!Settings, Dhc!Edit(typed) PROVE DhcpTypes' /\ RangeIsKept'
  <2>1. section # Dhc!NoPage /\ UNCHANGED <<settings, choice>>
    BY <1>8 DEF Dhc!Edit
  <2>2. section' = [section EXCEPT !.form = typed, !.dirty = TRUE,
                                   !.typed = @ \/ typed.range # section.form.range]
    BY <1>8 DEF Dhc!Edit
  <2>3. /\ section' \in Sections /\ section'.form = typed
        /\ section'.typed = (section.typed \/ typed.range # section.form.range)
    BY <2>2 DEF DhcpTypes, Sections
  <2>4. DhcpTypes'
    BY <2>1, <2>3 DEF DhcpTypes
  <2>5. choice => section'.typed \/ typed.range = settings.range
    BY <2>1, <2>3 DEF RangeIsKept
  <2> QED
    BY <2>1, <2>3, <2>4, <2>5 DEF RangeIsKept
<1> QED
  BY <1>3, <1>4, <1>5, <1>6, <1>7, <1>8

LEMMA DhcpSteps == DhcpInv /\ [Dhc!DhcpNext]_(Dhc!dhcpVars) => DhcpInv'
<1> SUFFICES ASSUME DhcpInv, [Dhc!DhcpNext]_(Dhc!dhcpVars) PROVE DhcpInv'
  OBVIOUS
<1>1. DhcpTypes /\ RowsArePromised /\ ListIsFresh /\ RangeIsKept
  BY DEF DhcpInv
<1>2. ASSUME UNCHANGED <<settings, section>> PROVE DhcpTypes'
  BY <1>1, <1>2 DEF DhcpTypes
<1>3. ASSUME UNCHANGED <<clients, promised>> PROVE RowsArePromised'
  BY <1>1, <1>3 DEF RowsArePromised
<1>4. ASSUME UNCHANGED <<discovered, machines, leases>> PROVE ListIsFresh'
  BY <1>1, <1>4 DEF ListIsFresh, Dhc!MachinesAreCurrent
<1>5. ASSUME UNCHANGED <<choice, settings, section>> PROVE RangeIsKept'
  BY <1>1, <1>5 DEF RangeIsKept
<1>6. ASSUME NEW mac \in Dhc!Macs, NEW ip \in Leasable, NEW name \in {None, "named"},
             Dhc!Reserve(mac, ip, name)
      PROVE DhcpInv'
  <2>1. UNCHANGED <<settings, leases, discovered, machines, section, choice>>
    BY <1>6 DEF Dhc!Reserve
  <2> QED
    BY <2>1, <1>1, <1>2, <1>4, <1>5, <1>6, DhcpReserves DEF DhcpInv
<1>7. ASSUME NEW mac \in Dhc!Macs, Dhc!Unreserve(mac) PROVE DhcpInv'
  <2>1. UNCHANGED <<settings, leases, discovered, machines, section, choice>>
    BY <1>7 DEF Dhc!Unreserve
  <2> QED
    BY <2>1, <1>1, <1>2, <1>4, <1>5, <1>7, DhcpGivesUp DEF DhcpInv
<1>8. ASSUME NEW machine \in Machines, \/ \E ip \in Leasable : Dhc!Lease(machine, ip)
                                       \/ Dhc!Expire(machine)
      PROVE DhcpInv'
  <2>1. /\ UNCHANGED <<settings, clients, discovered, section, choice, promised>>
        /\ machines' = None
    BY <1>8 DEF Dhc!Lease, Dhc!Expire
  <2>2. ListIsFresh'
    BY <2>1, <1>1 DEF ListIsFresh, Dhc!MachinesAreCurrent
  <2> QED
    BY <2>1, <2>2, <1>2, <1>3, <1>5 DEF DhcpInv
<1>9. CASE Dhc!UpdateDiscovered \/ Dhc!List
  <2>1. UNCHANGED <<settings, clients, section, choice, promised>>
    BY <1>9 DEF Dhc!UpdateDiscovered, Dhc!List
  <2> QED
    BY <2>1, <1>1, <1>2, <1>3, <1>5, <1>9, DhcpPasses, DhcpLists DEF DhcpInv
<1>10. CASE \/ Dhc!Load \/ Dhc!Save \/ Dhc!Saved \/ Dhc!SaveFails \/ Dhc!Leave
            \/ \E typed \in Dhc!Settings : Dhc!Edit(typed)
  <2>1. UNCHANGED <<clients, leases, discovered, machines, promised>>
    BY <1>10 DEF Dhc!Load, Dhc!Save, Dhc!Saved, Dhc!SaveFails, Dhc!Leave, Dhc!Edit
  <2> QED
    BY <2>1, <1>1, <1>3, <1>4, <1>10, DhcpPages DEF DhcpInv
<1>11. CASE UNCHANGED Dhc!dhcpVars
  BY <1>11, <1>2, <1>3, <1>4, <1>5 DEF Dhc!dhcpVars, DhcpInv
<1> QED
  BY <1>6, <1>7, <1>8, <1>9, <1>10, <1>11 DEF Dhc!DhcpNext

(* Whatever else was asked for, each spelling has the line it was last     *)
(* answered; a machine with a lease is listed under it; and a range that   *)
(* a person chose stays: for any machines, addresses and edits.            *)
THEOREM AddressesStay == Dhc!DhcpInit /\ [][Dhc!DhcpNext]_(Dhc!dhcpVars) => []Dhc!AddressesHold
<1>1. DhcpInv => Dhc!AddressesHold
  <2> SUFFICES ASSUME DhcpInv PROVE Dhc!AddressesHold
    OBVIOUS
  <2>1. Dhc!ReservationsAreKept
    <3> SUFFICES ASSUME NEW machine \in Machines
                 PROVE  /\ \A h \in Dhc!BuildConfiguration.hosts : h.mac = machine =>
                              \E mac \in Dhc!Macs : Dhc!Lower(mac) = machine /\ promised[mac] = h.ip
                        /\ \A mac \in Dhc!Macs : Dhc!Lower(mac) = machine /\ promised[mac] # None =>
                              \E h \in Dhc!BuildConfiguration.hosts :
                                 h.mac = machine /\ h.ip = promised[mac]
      BY DEF Dhc!ReservationsAreKept
    <3>1. Dhc!BuildConfiguration.hosts = {Dhc!Host(entry) : entry \in Dhc!Reservations}
      BY DEF Dhc!BuildConfiguration
    <3>2. \A entry : Dhc!Host(entry).mac = Dhc!Lower(entry.mac) /\ Dhc!Host(entry).ip = entry.ip
      BY DEF Dhc!Host
    <3>3. \A entry \in Dhc!Reservations : entry \in clients /\ entry.reserved /\ entry.ip # None
      BY DEF Dhc!Reservations
    <3>4. \A entry \in clients : entry.mac \in Dhc!Macs
      BY DEF DhcpInv, RowsArePromised, ClientRows
    <3>5. ASSUME NEW h \in Dhc!BuildConfiguration.hosts, h.mac = machine
          PROVE \E mac \in Dhc!Macs : Dhc!Lower(mac) = machine /\ promised[mac] = h.ip
      <4>1. PICK entry \in Dhc!Reservations : h = Dhc!Host(entry)
        BY <3>1
      <4>2. promised[entry.mac] = entry.ip
        BY <3>3 DEF DhcpInv, RowsArePromised
      <4> QED
        BY <4>1, <4>2, <3>2, <3>3, <3>4, <3>5
    <3>6. ASSUME NEW mac \in Dhc!Macs, Dhc!Lower(mac) = machine, promised[mac] # None
          PROVE \E h \in Dhc!BuildConfiguration.hosts : h.mac = machine /\ h.ip = promised[mac]
      <4>1. PICK entry \in clients : entry.mac = mac /\ entry.reserved /\ entry.ip = promised[mac]
        BY <3>6 DEF DhcpInv, RowsArePromised
      <4>2. entry \in Dhc!Reservations
        BY <4>1, <3>6 DEF Dhc!Reservations
      <4> QED
        BY <4>1, <4>2, <3>1, <3>2, <3>6
    <3> QED
      BY <3>5, <3>6
  <2>2. Dhc!MachinesAreCurrent
    BY DEF DhcpInv, ListIsFresh
  <2>3. Dhc!RangesAreRespected
    BY DEF DhcpInv, RangeIsKept, Dhc!RangesAreRespected
  <2> QED
    BY <2>1, <2>2, <2>3 DEF Dhc!AddressesHold
<1> QED
  BY <1>1, DhcpBegins, DhcpSteps, PTL

-----------------------------------------------------------------------------
(* The configuration.  What ConfigStore says of the release that runs, of  *)
(* any release.                                                            *)
StoredAt(rel, s, t) ==
    [f \in Conf!Fields[s] |-> CASE t[f] = NoRow -> Conf!Default(f, rel)
                                [] t[f] # NoRow /\ f \in Conf!Secrets -> Sentinel
                                [] OTHER -> t[f]]
ReadableAt(rel, s, t) == Conf!Satisfies(s, rel, StoredAt(rel, s, t))
GetAt(rel, s, t) == IF ReadableAt(rel, s, t) THEN StoredAt(rel, s, t) ELSE Conf!Defaults(s, rel)
InForceAt(rel, s, t) ==
    [f \in Conf!Fields[s] |-> IF f \in Conf!Secrets THEN t[f] ELSE GetAt(rel, s, t)[f]]
IsReplaced(s, values, after) ==
    /\ DOMAIN after = Conf!AllFields
    /\ \A f \in Conf!AllFields :
         after[f] = IF f \in Conf!Fields[s] /\ ~Conf!Keeps(values, f) THEN values[f] ELSE table[f]

LEMMA FieldsAre ==
  /\ Conf!Sections = {"network", "smb"} /\ Conf!Secrets = {"password"}
  /\ Conf!Fields["network"] = {"mode", "lan", "gateway"}
  /\ Conf!Fields["smb"] = {"workgroup", "password"}
  /\ Conf!AllFields = {"mode", "lan", "gateway", "workgroup", "password"}
<1>1. /\ Conf!Sections = {"network", "smb"} /\ Conf!Secrets = {"password"}
      /\ Conf!Fields["network"] = {"mode", "lan", "gateway"}
      /\ Conf!Fields["smb"] = {"workgroup", "password"}
  BY DEF Conf!Sections, Conf!Secrets, Conf!Fields
<1>2. Conf!AllFields = Conf!Fields["network"] \cup Conf!Fields["smb"]
  BY <1>1 DEF Conf!AllFields
<1> QED
  BY <1>1, <1>2

LEMMA KnownAre ==
  ASSUME NEW rel
  PROVE  /\ Conf!Known("mode", rel) = IF rel = 1 THEN {"server", "bridge"} ELSE {"existing", "single"}
         /\ Conf!Known("lan", rel) = {"dhcp", "static"} /\ Conf!Known("gateway", rel) = {NoRow, "g"}
         /\ Conf!Known("workgroup", rel) = {"w", "x"}
         /\ Conf!Known("password", rel) = {"", "secret", Sentinel}
BY DEF Conf!Known

LEMMA DefaultsAre ==
  ASSUME NEW rel
  PROVE  /\ Conf!Default("mode", rel) = IF rel = 1 THEN "server" ELSE "existing"
         /\ Conf!Default("lan", rel) = "dhcp" /\ Conf!Default("gateway", rel) = NoRow
         /\ Conf!Default("workgroup", rel) = "w" /\ Conf!Default("password", rel) = ""
BY DEF Conf!Default

LEMMA StoredReads ==
  ASSUME NEW rel, NEW s \in Conf!Sections, NEW t, NEW f \in Conf!Fields[s]
  PROVE  StoredAt(rel, s, t)[f] = IF t[f] = NoRow THEN Conf!Default(f, rel)
                                  ELSE IF f \in Conf!Secrets THEN Sentinel ELSE t[f]
BY DEF StoredAt

LEMMA NetworkIsReadable ==
  ASSUME Conf!MarkersAreApart, NEW rel, NEW t,
         t["mode"] \in {NoRow} \cup Conf!Known("mode", rel),
         t["lan"] \in {NoRow, "dhcp", "static"}, t["gateway"] \in {NoRow, "g"},
         t["lan"] = "static" => t["gateway"] # NoRow
  PROVE  ReadableAt(rel, "network", t)
<1>1. PICK values : values = StoredAt(rel, "network", t)
  OBVIOUS
<1>2. /\ values["mode"] \in Conf!Known("mode", rel)
      /\ values["lan"] \in Conf!Known("lan", rel)
      /\ values["gateway"] \in Conf!Known("gateway", rel)
      /\ values["lan"] = "static" => values["gateway"] # NoRow
  <2>1. /\ values["mode"] = IF t["mode"] = NoRow THEN Conf!Default("mode", rel) ELSE t["mode"]
        /\ values["lan"] = IF t["lan"] = NoRow THEN Conf!Default("lan", rel) ELSE t["lan"]
        /\ values["gateway"] = IF t["gateway"] = NoRow THEN Conf!Default("gateway", rel) ELSE t["gateway"]
    BY <1>1, FieldsAre, StoredReads
  <2>2. Conf!Default("mode", rel) \in Conf!Known("mode", rel)
    BY KnownAre, DefaultsAre
  <2>3. values["mode"] \in Conf!Known("mode", rel)
    BY <2>1, <2>2
  <2>4. /\ values["lan"] \in {"dhcp", "static"} /\ values["gateway"] \in {NoRow, "g"}
        /\ values["lan"] = "static" => values["gateway"] # NoRow
    BY <2>1, DefaultsAre
  <2> QED
    BY <2>3, <2>4, KnownAre
<1>3. \A f \in Conf!Fields["network"] : values[f] \in Conf!Known(f, rel)
  BY <1>2, FieldsAre
<1>4. Conf!Satisfies("network", rel, values)
  BY <1>2, <1>3 DEF Conf!Satisfies
<1> QED
  BY <1>1, <1>4 DEF ReadableAt

LEMMA SmbIsReadable ==
  ASSUME NEW rel, NEW t, t["workgroup"] \in {NoRow, "w", "x"}
  PROVE  ReadableAt(rel, "smb", t)
<1>1. PICK values : values = StoredAt(rel, "smb", t)
  OBVIOUS
<1>2. /\ values["workgroup"] \in Conf!Known("workgroup", rel)
      /\ values["password"] \in Conf!Known("password", rel)
  <2>1. /\ values["workgroup"] = IF t["workgroup"] = NoRow THEN Conf!Default("workgroup", rel) ELSE t["workgroup"]
        /\ values["password"] = IF t["password"] = NoRow THEN Conf!Default("password", rel) ELSE Sentinel
    BY <1>1, FieldsAre, StoredReads
  <2> QED
    BY <2>1, KnownAre, DefaultsAre
<1>3. \A f \in Conf!Fields["smb"] : values[f] \in Conf!Known(f, rel)
  BY <1>2, FieldsAre
<1>4. Conf!Satisfies("smb", rel, values)
  BY <1>3 DEF Conf!Satisfies
<1> QED
  BY <1>1, <1>4 DEF ReadableAt

-----------------------------------------------------------------------------
(* The invariant.  The rows are what the schema in the database accepts,   *)
(* unless a release has run over a newer one; and what a page shows, and   *)
(* was neither edited nor overtaken, is what is stored.                    *)
RowsFit(t, version, over) ==
    /\ DOMAIN t = Conf!AllFields
    /\ t["lan"] \in {NoRow, "dhcp", "static"} /\ t["gateway"] \in {NoRow, "g"}
    /\ t["lan"] = "static" => t["gateway"] # NoRow
    /\ t["workgroup"] \in {NoRow, "w", "x"}
    /\ ~over => t["mode"] \in {NoRow} \cup
         (IF version >= 2 THEN {"existing", "single"} ELSE {"server", "bridge"})
ViewFits(view, t) ==
    view # Conf!Closed =>
      /\ view \in [section : Conf!Sections, values : {view.values}, edited : {view.edited},
                   behind : {view.behind}, fell : BOOLEAN]
      /\ DOMAIN view.values = Conf!Fields[view.section]
      /\ ~view.fell => \A f \in Conf!Fields[view.section] \ (view.edited \cup view.behind) :
           t[f] # NoRow => view.values[f] = IF f \in Conf!Secrets THEN Sentinel ELSE t[f]
Current(rel, t, heard, unheard) ==
    /\ DOMAIN heard = Conf!Sections
    /\ \A s \in Conf!Sections \ unheard : heard[s] = InForceAt(rel, s, t)

ConfigTypes ==
    /\ release \in Conf!Releases /\ schema \in Nat
    /\ up \in {"down", "migrating", "up"} /\ rolledBack \in BOOLEAN
    /\ form = [w \in Windows |-> form[w]] /\ DOMAIN form = Windows
    /\ ~rolledBack /\ up # "down" => schema <= release
    /\ up = "up" => schema >= release
    /\ control # Conf!Closed => up = "up" /\ control.section = "network"
Views == ViewFits(control, table) /\ \A w \in Windows : ViewFits(form[w], table)
Heard == up = "up" => Current(release, table, told, deaf)
ConfigInv == ConfigTypes /\ RowsFit(table, schema, rolledBack) /\ Views /\ Heard

LEMMA ClosedFits == ASSUME NEW t PROVE ViewFits(Conf!Closed, t)
BY DEF ViewFits

LEMMA RowsAreReadable ==
  ASSUME Conf!MarkersAreApart, NEW rel \in Conf!Releases, NEW t, NEW version \in Nat,
         RowsFit(t, version, FALSE), version = rel, NEW s \in Conf!Sections
  PROVE  ReadableAt(rel, s, t)
<1>1. rel \in Nat /\ rel >= 1
  BY DEF Conf!Releases
<1>2. t["mode"] \in {NoRow} \cup Conf!Known("mode", rel)
  <2>1. /\ rel >= 2 => t["mode"] \in {NoRow, "existing", "single"}
        /\ ~(rel >= 2) => t["mode"] \in {NoRow, "server", "bridge"}
    BY DEF RowsFit
  <2>2. (rel >= 2) = (rel # 1)
    BY <1>1
  <2>3. Conf!Known("mode", rel) = IF rel = 1 THEN {"server", "bridge"} ELSE {"existing", "single"}
    BY KnownAre
  <2> QED
    BY <2>1, <2>2, <2>3
<1>3. CASE s = "network"
  BY <1>2, <1>3, NetworkIsReadable DEF RowsFit
<1>4. CASE s = "smb"
  BY <1>4, SmbIsReadable DEF RowsFit
<1> QED
  BY <1>3, <1>4, FieldsAre

LEMMA FreshView ==
  ASSUME NEW s \in Conf!Sections, NEW t, NEW view, view = Conf!View(s, t)
  PROVE  /\ view # Conf!Closed /\ ViewFits(view, t) /\ view.section = s
         /\ view.edited = {} /\ view.behind = {} /\ view.fell = ~ReadableAt(release, s, t)
         /\ view \in [section : Conf!Sections, values : {view.values}, edited : {view.edited},
                      behind : {view.behind}, fell : BOOLEAN]
<1>1. PICK values : values = GetAt(release, s, t)
  OBVIOUS
<1>2. PICK fell \in BOOLEAN : fell = ~ReadableAt(release, s, t)
  OBVIOUS
<1>3. view = [section |-> s, values |-> values, edited |-> {}, behind |-> {}, fell |-> fell]
  BY <1>1, <1>2 DEF Conf!View, Conf!Get, Conf!Readable, Conf!Stored, GetAt, ReadableAt, StoredAt
<1>4. view # Conf!Closed
  <2>1. Conf!Closed.section = "none"
    BY DEF Conf!Closed
  <2>2. s # "none"
    BY FieldsAre
  <2> QED
    BY <1>3, <2>1, <2>2
<1>5. /\ view.section = s /\ view.values = values /\ view.edited = {} /\ view.behind = {}
      /\ view.fell = fell
      /\ view \in [section : Conf!Sections, values : {view.values}, edited : {view.edited},
                   behind : {view.behind}, fell : BOOLEAN]
  BY <1>3
<1>6. DOMAIN values = Conf!Fields[s]
  BY <1>1 DEF GetAt, StoredAt, Conf!Defaults
<1>7. ~fell => \A f \in Conf!Fields[s] :
        t[f] # NoRow => values[f] = IF f \in Conf!Secrets THEN Sentinel ELSE t[f]
  <2>1. ~fell => values = StoredAt(release, s, t)
    BY <1>1, <1>2 DEF GetAt
  <2> QED
    BY <2>1, StoredReads
<1>8. ViewFits(view, t)
  BY <1>5, <1>6, <1>7 DEF ViewFits
<1> QED
  BY <1>2, <1>4, <1>5, <1>8

LEMMA OvertakenView ==
  ASSUME RowsFit(table, schema, rolledBack), NEW view, ViewFits(view, table)
  PROVE  /\ ViewFits(Conf!Overtaken(view), table')
         /\ Conf!Overtaken(view) = Conf!Closed <=> view = Conf!Closed
         /\ view # Conf!Closed => Conf!Overtaken(view).section = view.section
<1>1. CASE view = Conf!Closed
  BY <1>1, ClosedFits DEF Conf!Overtaken
<1>2. CASE view # Conf!Closed
  <2>1. PICK overtaken : overtaken = Conf!Written \cap Conf!Fields[view.section]
    OBVIOUS
  <2>2. PICK after : after = Conf!Overtaken(view)
    OBVIOUS
  <2>3. after = [view EXCEPT !.behind = @ \cup overtaken]
    BY <1>2, <2>1, <2>2 DEF Conf!Overtaken
  <2>4. /\ view \in [section : Conf!Sections, values : {view.values}, edited : {view.edited},
                     behind : {view.behind}, fell : BOOLEAN]
        /\ DOMAIN view.values = Conf!Fields[view.section]
    BY <1>2 DEF ViewFits
  <2>5. /\ after.section = view.section /\ after.values = view.values
        /\ after.edited = view.edited /\ after.behind = view.behind \cup overtaken
        /\ after.fell = view.fell
        /\ after \in [section : Conf!Sections, values : {after.values}, edited : {after.edited},
                      behind : {after.behind}, fell : BOOLEAN]
    BY <2>3, <2>4
  <2>6. after # Conf!Closed
    <3>1. Conf!Closed.section = "none" /\ view.section \in {"network", "smb"}
      BY <2>4, FieldsAre DEF Conf!Closed
    <3> QED
      BY <2>5, <3>1
  <2>7. ASSUME ~after.fell, NEW f \in Conf!Fields[after.section] \ (after.edited \cup after.behind),
               table'[f] # NoRow
        PROVE  after.values[f] = IF f \in Conf!Secrets THEN Sentinel ELSE table'[f]
    <3>1. f \in Conf!AllFields
      BY <2>4, <2>5, FieldsAre
    <3>2. f \notin Conf!Written /\ f \notin view.behind /\ f \notin view.edited
      BY <2>1, <2>5, <2>7
    <3>3. table'[f] = table[f]
      BY <3>1, <3>2 DEF Conf!Written
    <3> QED
      BY <1>2, <2>5, <2>7, <3>2, <3>3 DEF ViewFits
  <2>8. ViewFits(after, table')
    BY <2>4, <2>5, <2>7 DEF ViewFits
  <2> QED
    BY <1>2, <2>2, <2>5, <2>6, <2>8
<1> QED
  BY <1>1, <1>2

-----------------------------------------------------------------------------
(* A save, and what the parts of the service are told of it.               *)
Fitting == RowsFit(table, schema, rolledBack) /\ (~rolledBack => schema = release)

LEMMA SectionIsReplaced ==
  ASSUME Conf!MarkersAreApart, ConfigTypes, Fitting, NEW s \in Conf!Sections, NEW values,
         Conf!Satisfies(s, release, values), NEW after, IsReplaced(s, values, after)
  PROVE  RowsFit(after, schema, rolledBack) /\ ReadableAt(release, s, after)
<1>1. /\ DOMAIN after = Conf!AllFields
      /\ \A f \in Conf!AllFields :
           after[f] = IF f \in Conf!Fields[s] /\ ~Conf!Keeps(values, f) THEN values[f] ELSE table[f]
  BY DEF IsReplaced
<1>2. \A f \in Conf!Fields[s] : values[f] \in Conf!Known(f, release)
  BY DEF Conf!Satisfies
<1>3. release \in Nat /\ release >= 1 /\ (~rolledBack => schema = release)
  BY DEF ConfigTypes, Conf!Releases, Fitting
<1>4. RowsFit(table, schema, rolledBack)
  BY DEF Fitting
<1>5. NoRow \notin {"server", "bridge", "existing", "single", "dhcp", "static", "g", "w", "x"}
  BY DEF Conf!MarkersAreApart, Conf!Words
<1>6. CASE s = "network"
  <2>1. /\ values["mode"] \in Conf!Known("mode", release)
        /\ values["lan"] \in {"dhcp", "static"} /\ values["gateway"] \in {NoRow, "g"}
        /\ values["lan"] = "static" => values["gateway"] # NoRow
    BY <1>2, <1>6, FieldsAre, KnownAre DEF Conf!Satisfies
  <2>2. Conf!Known("mode", release)
          = IF release = 1 THEN {"server", "bridge"} ELSE {"existing", "single"}
    BY KnownAre
  <2>3. \A f \in {"mode", "lan", "gateway"} : Conf!Keeps(values, f) = (values[f] = NoRow)
    BY FieldsAre DEF Conf!Keeps
  <2>4. after["mode"] = values["mode"] /\ after["lan"] = values["lan"]
    <3>1. values["mode"] # NoRow /\ values["lan"] # NoRow
      BY <1>5, <2>1, <2>2
    <3> QED
      BY <1>1, <1>6, <2>3, <3>1, FieldsAre
  <2>5. /\ after["gateway"] = IF values["gateway"] = NoRow THEN table["gateway"] ELSE values["gateway"]
        /\ after["workgroup"] = table["workgroup"]
    BY <1>1, <1>6, <2>3, FieldsAre
  <2>6. /\ after["gateway"] \in {NoRow, "g"} /\ after["workgroup"] \in {NoRow, "w", "x"}
        /\ after["lan"] = "static" => after["gateway"] # NoRow
    BY <1>4, <2>1, <2>4, <2>5 DEF RowsFit
  <2>7. ~rolledBack => after["mode"] \in {NoRow} \cup
          (IF schema >= 2 THEN {"existing", "single"} ELSE {"server", "bridge"})
    BY <1>3, <2>1, <2>2, <2>4
  <2>8. RowsFit(after, schema, rolledBack)
    BY <1>1, <2>1, <2>4, <2>6, <2>7 DEF RowsFit
  <2>9. ReadableAt(release, "network", after)
    <3>1. after["lan"] \in {NoRow, "dhcp", "static"}
      BY <2>1, <2>4
    <3>2. after["mode"] \in {NoRow} \cup Conf!Known("mode", release)
      BY <2>1, <2>4
    <3> QED
      BY <2>6, <3>1, <3>2, NetworkIsReadable
  <2> QED
    BY <1>6, <2>8, <2>9
<1>7. CASE s = "smb"
  <2>1. values["workgroup"] \in {"w", "x"}
    BY <1>2, <1>7, FieldsAre, KnownAre
  <2>2. /\ after["mode"] = table["mode"] /\ after["lan"] = table["lan"]
        /\ after["gateway"] = table["gateway"] /\ after["workgroup"] \in {values["workgroup"], table["workgroup"]}
    BY <1>1, <1>7, FieldsAre
  <2>3. after["workgroup"] \in {NoRow, "w", "x"}
    BY <1>4, <2>1, <2>2 DEF RowsFit
  <2>4. RowsFit(after, schema, rolledBack)
    BY <1>1, <1>4, <2>2, <2>3 DEF RowsFit
  <2> QED
    BY <1>7, <2>3, <2>4, SmbIsReadable
<1> QED
  BY <1>6, <1>7, FieldsAre

LEMMA SameRowsRead ==
  ASSUME NEW s \in Conf!Sections, NEW t1, NEW t2, NEW rel,
         \A f \in Conf!Fields[s] : t1[f] = t2[f]
  PROVE  InForceAt(rel, s, t1) = InForceAt(rel, s, t2)
<1>1. StoredAt(rel, s, t1) = StoredAt(rel, s, t2)
  BY DEF StoredAt
<1>2. GetAt(rel, s, t1) = GetAt(rel, s, t2)
  BY <1>1 DEF GetAt, ReadableAt
<1> QED
  BY <1>2 DEF InForceAt

LEMMA InForceIs ==
  ASSUME NEW s, NEW t PROVE Conf!InForce(s, t) = InForceAt(release, s, t)
BY DEF Conf!InForce, Conf!Get, Conf!Readable, Conf!Stored, InForceAt, GetAt, ReadableAt, StoredAt

LEMMA SectionIsSet ==
  ASSUME Conf!MarkersAreApart, ConfigTypes, Fitting, Current(release, table, told, deaf),
         NEW s \in Conf!Sections, NEW values, Conf!Set(s, values)
  PROVE  /\ RowsFit(table', schema, rolledBack) /\ ReadableAt(release, s, table')
         /\ IsReplaced(s, values, table')
         /\ Current(release, table', told', deaf')
<1>1. PICK after : after = Conf!Replaced(s, values)
  OBVIOUS
<1>2. IsReplaced(s, values, after)
  BY <1>1 DEF IsReplaced, Conf!Replaced
<1>3. table' = after /\ Conf!Satisfies(s, release, values)
  BY <1>1 DEF Conf!Set
<1>4. RowsFit(after, schema, rolledBack) /\ ReadableAt(release, s, after)
  BY <1>2, <1>3, SectionIsReplaced
<1>5. /\ \A f \in Conf!AllFields :
           after[f] = IF f \in Conf!Fields[s] /\ ~Conf!Keeps(values, f) THEN values[f] ELSE table[f]
      /\ \A u \in Conf!Sections : Conf!Fields[u] \subseteq Conf!AllFields
      /\ \A u \in Conf!Sections : u # s => Conf!Fields[u] \cap Conf!Fields[s] = {}
  BY <1>2, FieldsAre DEF IsReplaced
<1>6. CASE Conf!ChangedKeys(s, values) = {}
  <2>1. told' = told /\ deaf' = deaf
    BY <1>6 DEF Conf!Set, Conf!ears
  <2>2. \A f \in Conf!AllFields : after[f] = table[f]
    BY <1>5, <1>6 DEF Conf!ChangedKeys
  <2>3. \A u \in Conf!Sections : InForceAt(release, u, after) = InForceAt(release, u, table)
    BY <1>5, <2>2, SameRowsRead
  <2>4. Current(release, after, told', deaf')
    BY <2>1, <2>3 DEF Current
  <2> QED
    BY <1>2, <1>3, <1>4, <2>4
<1>7. CASE Conf!ChangedKeys(s, values) # {}
  <2>1. \/ told' = [told EXCEPT ![s] = Conf!InForce(s, after)] /\ deaf' = deaf \ {s}
        \/ told' = told /\ deaf' = deaf \cup {s}
    BY <1>3, <1>7 DEF Conf!Set, Conf!Emit
  <2>2. \A u \in Conf!Sections : u # s => InForceAt(release, u, after) = InForceAt(release, u, table)
    <3> SUFFICES ASSUME NEW u \in Conf!Sections, u # s
                 PROVE  InForceAt(release, u, after) = InForceAt(release, u, table)
      OBVIOUS
    <3>1. \A f \in Conf!Fields[u] : after[f] = table[f]
      BY <1>5
    <3> QED
      BY <3>1, SameRowsRead
  <2>3. PICK new : new = Conf!InForce(s, after)
    OBVIOUS
  <2>4. new = InForceAt(release, s, after)
    BY <2>3, InForceIs
  <2>5. Current(release, after, told', deaf')
    BY <2>1, <2>2, <2>3, <2>4 DEF Current
  <2> QED
    BY <1>2, <1>3, <1>4, <2>5
<1> QED
  BY <1>6, <1>7

\* what a save changes, its view was edited or overtaken for, or refused
LEMMA ChangesAreMeant ==
  ASSUME NEW view, ViewFits(view, table), view # Conf!Closed,
         IsReplaced(view.section, view.values, table'),
         NEW f \in Conf!AllFields, table[f] # NoRow, table'[f] # table[f]
  PROVE  Conf!Changes(view, f)
<1>1. /\ f \in Conf!Fields[view.section] /\ ~Conf!Keeps(view.values, f)
      /\ table'[f] = view.values[f]
  BY DEF IsReplaced
<1>2. SUFFICES ASSUME f \notin view.edited, f \notin view.behind, ~view.fell PROVE FALSE
  BY DEF Conf!Changes
<1>3. view.values[f] = IF f \in Conf!Secrets THEN Sentinel ELSE table[f]
  BY <1>1, <1>2 DEF ViewFits
<1> QED
  BY <1>1, <1>3 DEF Conf!Keeps

-----------------------------------------------------------------------------
(* The steps.                                                              *)
Stands ==
    \A f \in Conf!AllFields : (table[f] # NoRow /\ table'[f] # table[f]) =>
        \/ schema' # schema
        \/ \E w \in Windows : Conf!Saves(form[w], form'[w]) /\ Conf!Changes(form[w], f)
        \/ Conf!Saves(control, control') /\ Conf!Changes(control, f)

LEMMA ConfigBegins == ASSUME Conf!MarkersAreApart, Conf!Init PROVE ConfigInv
<1>1. /\ release \in Conf!Releases /\ up = "down" /\ schema = 0 /\ rolledBack = FALSE
      /\ table = [f \in Conf!AllFields |-> NoRow]
      /\ form = [w \in Windows |-> Conf!Closed] /\ control = Conf!Closed
  BY DEF Conf!Init
<1>2. \A f \in Conf!AllFields : table[f] = NoRow
  BY <1>1
<1>3. NoRow # "static"
  BY DEF Conf!MarkersAreApart, Conf!Words
<1>4. RowsFit(table, schema, rolledBack)
  BY <1>1, <1>2, <1>3, FieldsAre DEF RowsFit
<1>5. ConfigTypes
  BY <1>1 DEF ConfigTypes
<1>6. Views
  BY <1>1, ClosedFits DEF Views
<1> QED
  BY <1>1, <1>4, <1>5, <1>6 DEF ConfigInv, Heard

LEMMA ViewIsEdited ==
  ASSUME NEW view, ViewFits(view, table), view # Conf!Closed,
         NEW f \in Conf!Fields[view.section], NEW v, NEW new,
         new = [view EXCEPT !.values[f] = v, !.edited = view.edited \cup {f}]
  PROVE  ViewFits(new, table) /\ new # Conf!Closed /\ new.section = view.section
<1>1. /\ view \in [section : Conf!Sections, values : {view.values}, edited : {view.edited},
                   behind : {view.behind}, fell : BOOLEAN]
      /\ DOMAIN view.values = Conf!Fields[view.section]
  BY DEF ViewFits
<1>2. PICK values : values = [view.values EXCEPT ![f] = v]
  OBVIOUS
<1>3. new = [view EXCEPT !.values = values, !.edited = view.edited \cup {f}]
  BY <1>2
<1>4. /\ new.section = view.section /\ new.values = values
      /\ new.edited = view.edited \cup {f} /\ new.behind = view.behind /\ new.fell = view.fell
      /\ new \in [section : Conf!Sections, values : {new.values}, edited : {new.edited},
                  behind : {new.behind}, fell : BOOLEAN]
  BY <1>1, <1>3
<1>5. /\ DOMAIN values = Conf!Fields[view.section]
      /\ \A e \in Conf!Fields[view.section] : e # f => values[e] = view.values[e]
  BY <1>1, <1>2
<1>6. new # Conf!Closed
  <2>1. Conf!Closed.section = "none" /\ view.section \in {"network", "smb"}
    BY <1>1, FieldsAre DEF Conf!Closed
  <2> QED
    BY <1>4, <2>1
<1>7. ASSUME ~new.fell, NEW e \in Conf!Fields[new.section] \ (new.edited \cup new.behind),
             table[e] # NoRow
      PROVE  new.values[e] = IF e \in Conf!Secrets THEN Sentinel ELSE table[e]
  <2>1. /\ e \in Conf!Fields[view.section] \ (view.edited \cup view.behind) /\ e # f
        /\ ~view.fell
    BY <1>4, <1>7
  <2>2. view.values[e] = IF e \in Conf!Secrets THEN Sentinel ELSE table[e]
    BY <1>7, <2>1 DEF ViewFits
  <2> QED
    BY <1>4, <1>5, <2>1, <2>2
<1> QED
  BY <1>4, <1>5, <1>6, <1>7 DEF ViewFits

LEMMA RowsStand == ASSUME table' = table PROVE Stands
BY DEF Stands

LEMMA ServiceIsStarted ==
  ASSUME ConfigInv, Conf!Start \/ Conf!GoDown \/ Conf!SwitchRelease
  PROVE  ConfigInv' /\ Stands
<1>1. /\ schema' = schema /\ table' = table /\ form' = form
      /\ control' \in {control, Conf!Closed}
  BY DEF Conf!Start, Conf!GoDown, Conf!SwitchRelease, Conf!pages
<1>2. /\ up' \in {"down", "migrating"} /\ release' \in Conf!Releases
      /\ rolledBack' \in BOOLEAN /\ (rolledBack => rolledBack')
      /\ control' = Conf!Closed
      /\ ~rolledBack' /\ up' # "down" => schema <= release'
  <2>1. CASE Conf!Start
    <3>1. /\ up = "down" /\ up' = "migrating" /\ release' = release /\ control' = control
          /\ rolledBack' = (rolledBack \/ schema > release)
      BY <2>1 DEF Conf!Start, Conf!pages
    <3>2. rolledBack' \in BOOLEAN /\ (rolledBack => rolledBack') /\ (~rolledBack' => ~(schema > release))
      BY <3>1
    <3>3. ~(schema > release) => schema <= release
      BY DEF ConfigInv, ConfigTypes, Conf!Releases
    <3>4. control = Conf!Closed /\ release \in Conf!Releases
      BY <3>1 DEF ConfigInv, ConfigTypes
    <3> QED
      BY <3>1, <3>2, <3>3, <3>4
  <2>2. CASE Conf!GoDown
    BY <2>2 DEF Conf!GoDown, ConfigInv, ConfigTypes
  <2>3. CASE Conf!SwitchRelease
    BY <2>3 DEF Conf!SwitchRelease, Conf!pages, ConfigInv, ConfigTypes
  <2> QED
    BY <2>1, <2>2, <2>3
<1>3. ConfigTypes'
  BY <1>1, <1>2 DEF ConfigInv, ConfigTypes
<1>4. RowsFit(table, schema, rolledBack)'
  BY <1>1, <1>2 DEF ConfigInv, RowsFit
<1>5. Views'
  BY <1>1, <1>2, ClosedFits DEF ConfigInv, Views
<1>6. Heard'
  BY <1>2 DEF Heard
<1> QED
  BY <1>1, <1>3, <1>4, <1>5, <1>6, RowsStand DEF ConfigInv

LEMMA PageIsTurned ==
  ASSUME ConfigInv, NEW w \in Windows, NEW view, ViewFits(view, table),
         form' = [form EXCEPT ![w] = view], control' = control,
         UNCHANGED Conf!store, UNCHANGED Conf!ears, rolledBack' = rolledBack
  PROVE  ConfigInv' /\ Stands
<1>1. UNCHANGED <<release, up, schema, table, told, deaf, rolledBack, control>>
  BY DEF Conf!store, Conf!ears
<1>2. /\ DOMAIN form' = Windows /\ form' = [v \in Windows |-> form'[v]] /\ form'[w] = view
      /\ \A v \in Windows : v # w => form'[v] = form[v]
  BY DEF ConfigInv, ConfigTypes
<1>3. ConfigTypes'
  BY <1>1, <1>2 DEF ConfigInv, ConfigTypes
<1>4. RowsFit(table, schema, rolledBack)' /\ Heard'
  BY <1>1 DEF ConfigInv, Heard
<1>5. Views'
  <2>1. \A v \in Windows : ViewFits(form'[v], table)
    BY <1>2 DEF ConfigInv, Views
  <2> QED
    BY <1>1, <2>1 DEF ConfigInv, Views
<1> QED
  BY <1>1, <1>3, <1>4, <1>5, RowsStand DEF ConfigInv

LEMMA PageIsUsed ==
  ASSUME ConfigInv, NEW w \in Windows,
         \/ \E s \in Conf!Sections : Conf!Open(w, s)
         \/ \E f \in Conf!AllFields : Conf!Edit(w, f)
         \/ Conf!Leave(w)
  PROVE  ConfigInv' /\ Stands
<1>1. CASE \E s \in Conf!Sections : Conf!Open(w, s)
  <2>1. PICK s \in Conf!Sections : Conf!Open(w, s)
    BY <1>1
  <2>2. PICK view : view = Conf!View(s, table)
    OBVIOUS
  <2>3. /\ form' = [form EXCEPT ![w] = view] /\ control' = control
        /\ UNCHANGED Conf!store /\ UNCHANGED Conf!ears /\ rolledBack' = rolledBack
    BY <2>1, <2>2 DEF Conf!Open
  <2> QED
    BY <2>2, <2>3, FreshView, PageIsTurned
<1>2. CASE \E f \in Conf!AllFields : Conf!Edit(w, f)
  <2>1. PICK f \in Conf!AllFields : Conf!Edit(w, f)
    BY <1>2
  <2>2. PICK old : old = form[w]
    OBVIOUS
  <2>3. PICK v : /\ form' = [form EXCEPT ![w].values[f] = v, ![w].edited = @ \cup {f}]
                 /\ old # Conf!Closed /\ f \in Conf!Fields[old.section]
    BY <2>1, <2>2 DEF Conf!Edit
  <2>4. /\ control' = control
        /\ UNCHANGED Conf!store /\ UNCHANGED Conf!ears /\ rolledBack' = rolledBack
    BY <2>1 DEF Conf!Edit
  <2>5. PICK new : new = [old EXCEPT !.values[f] = v, !.edited = old.edited \cup {f}]
    OBVIOUS
  <2>6. form' = [form EXCEPT ![w] = new]
    BY <2>2, <2>3, <2>5 DEF ConfigInv, ConfigTypes
  <2>7. ViewFits(new, table)
    BY <2>2, <2>3, <2>5, ViewIsEdited DEF ConfigInv, Views
  <2> QED
    BY <2>4, <2>6, <2>7, PageIsTurned
<1>3. CASE Conf!Leave(w)
  BY <1>3, ClosedFits, PageIsTurned DEF Conf!Leave
<1> QED
  BY <1>1, <1>2, <1>3

LEMMA SwitchIsRead ==
  ASSUME ConfigInv, NEW mode, Conf!ReadToSwitch(mode) PROVE ConfigInv' /\ Stands
<1>1. PICK view : view = Conf!View("network", table)
  OBVIOUS
<1>2. /\ up = "up" /\ form' = form
      /\ UNCHANGED Conf!store /\ UNCHANGED Conf!ears /\ rolledBack' = rolledBack
      /\ control' = [view EXCEPT !.values["mode"] = mode, !.edited = {"mode"}]
  BY <1>1 DEF Conf!ReadToSwitch
<1>3. UNCHANGED <<release, up, schema, table, told, deaf, rolledBack, form>>
  BY <1>2 DEF Conf!store, Conf!ears
<1>4. /\ view # Conf!Closed /\ ViewFits(view, table) /\ view.section = "network"
      /\ view.edited = {}
  BY <1>1, FieldsAre, FreshView
<1>5. control' = [view EXCEPT !.values["mode"] = mode, !.edited = view.edited \cup {"mode"}]
  BY <1>2, <1>4
<1>6. PICK new : new = control'
  OBVIOUS
<1>7. ViewFits(new, table) /\ new.section = "network"
  <2>1. "mode" \in Conf!Fields[view.section]
    BY <1>4, FieldsAre
  <2>2. new = [view EXCEPT !.values["mode"] = mode, !.edited = view.edited \cup {"mode"}]
    BY <1>5, <1>6
  <2>3. ViewFits(new, table) /\ new.section = view.section
    BY <1>4, <2>1, <2>2, ViewIsEdited
  <2> QED
    BY <1>4, <2>3
<1>8. ConfigTypes'
  BY <1>2, <1>3, <1>6, <1>7 DEF ConfigInv, ConfigTypes
<1>9. Views'
  BY <1>3, <1>6, <1>7 DEF ConfigInv, Views
<1>10. RowsFit(table, schema, rolledBack)' /\ Heard'
  BY <1>3 DEF ConfigInv, Heard
<1> QED
  BY <1>3, <1>8, <1>9, <1>10, RowsStand DEF ConfigInv

LEMMA OvertakenForms ==
  ASSUME ConfigInv, NEW w \in Windows PROVE ViewFits(Conf!Overtaken(form[w]), table')
BY OvertakenView DEF ConfigInv, Views

LEMMA SchemaIsMigrated ==
  ASSUME Conf!MarkersAreApart, ConfigInv, Conf!Migrate PROVE ConfigInv' /\ Stands
<1>1. /\ up = "migrating" /\ schema < release /\ schema' = schema + 1
      /\ table' = IF schema' = 2 THEN [table EXCEPT !["mode"] = Conf!Renamed(@)] ELSE table
      /\ form' = [w \in Windows |-> Conf!Overtaken(form[w])]
      /\ UNCHANGED <<release, up, control, rolledBack>>
  BY DEF Conf!Migrate, Conf!MigrateFile
<1>2. schema \in Nat /\ release \in Nat /\ schema' \in Nat /\ schema' # schema /\ schema' <= release
  BY <1>1 DEF ConfigInv, ConfigTypes, Conf!Releases
<1>3. control = Conf!Closed
  BY <1>1 DEF ConfigInv, ConfigTypes
<1>4. ConfigTypes'
  BY <1>1, <1>2, <1>3 DEF ConfigInv, ConfigTypes
<1>5. DOMAIN table = Conf!AllFields
  BY DEF ConfigInv, RowsFit
<1>6. /\ DOMAIN table' = Conf!AllFields
      /\ \A f \in Conf!AllFields : f # "mode" => table'[f] = table[f]
      /\ table'["mode"] = IF schema' = 2 THEN Conf!Renamed(table["mode"]) ELSE table["mode"]
  BY <1>1, <1>5, FieldsAre
<1>7. ~rolledBack => table'["mode"] \in {NoRow} \cup
        (IF schema' >= 2 THEN {"existing", "single"} ELSE {"server", "bridge"})
  <2>1. NoRow \notin {"server", "bridge"}
    BY DEF Conf!MarkersAreApart, Conf!Words
  <2>2. /\ Conf!Renamed("server") = "existing" /\ Conf!Renamed("bridge") = "single"
        /\ Conf!Renamed(NoRow) = NoRow
    BY <2>1 DEF Conf!Renamed
  <2>3. ~rolledBack => table["mode"] \in {NoRow} \cup
          (IF schema >= 2 THEN {"existing", "single"} ELSE {"server", "bridge"})
    BY DEF ConfigInv, RowsFit
  <2>4. CASE schema' = 2
    BY <1>1, <1>2, <1>6, <2>2, <2>3, <2>4
  <2>5. CASE schema' # 2
    BY <1>1, <1>2, <1>6, <2>3, <2>5
  <2> QED
    BY <2>4, <2>5
<1>8. RowsFit(table, schema, rolledBack)'
  <2>1. /\ table'["lan"] = table["lan"] /\ table'["gateway"] = table["gateway"]
        /\ table'["workgroup"] = table["workgroup"]
    BY <1>6, FieldsAre
  <2> QED
    BY <1>1, <1>6, <1>7, <2>1 DEF ConfigInv, RowsFit
<1>9. Views'
  BY <1>1, <1>3, ClosedFits, OvertakenForms DEF Views
<1>10. Heard'
  BY <1>1 DEF Heard
<1>11. Stands
  BY <1>2 DEF Stands
<1> QED
  BY <1>4, <1>8, <1>9, <1>10, <1>11 DEF ConfigInv

LEMMA ServiceIsUp ==
  ASSUME Conf!MarkersAreApart, ConfigInv, Conf!ComeUp PROVE ConfigInv' /\ Stands
<1>1. /\ up = "migrating" /\ schema >= release /\ up' = "up"
      /\ table' = Conf!Materialised
      /\ form' = [w \in Windows |-> Conf!Overtaken(form[w])]
      /\ told' = [s \in Conf!Sections |-> Conf!InForce(s, table')]
      /\ UNCHANGED <<release, schema, control, rolledBack>>
  BY DEF Conf!ComeUp
<1>2. control = Conf!Closed
  BY <1>1 DEF ConfigInv, ConfigTypes
<1>3. ConfigTypes'
  BY <1>1, <1>2 DEF ConfigInv, ConfigTypes
<1>4. /\ DOMAIN table' = Conf!AllFields
      /\ \A f \in Conf!AllFields :
           table'[f] = IF table[f] = NoRow THEN Conf!Default(f, release) ELSE table[f]
  BY <1>1 DEF Conf!Materialised
<1>5. RowsFit(table, schema, rolledBack)
  BY DEF ConfigInv
<1>6. ~rolledBack => schema = release
  BY <1>1 DEF ConfigInv, ConfigTypes, Conf!Releases
<1>7. release \in Nat /\ release >= 1
  BY DEF ConfigInv, ConfigTypes, Conf!Releases
<1>8. /\ Conf!Default("mode", release) = IF release = 1 THEN "server" ELSE "existing"
      /\ Conf!Default("lan", release) = "dhcp" /\ Conf!Default("gateway", release) = NoRow
      /\ Conf!Default("workgroup", release) = "w"
  BY DefaultsAre
<1>9. /\ table'["lan"] \in {NoRow, "dhcp", "static"} /\ table'["gateway"] = table["gateway"]
      /\ table'["lan"] = "static" => table["lan"] = "static"
      /\ table'["workgroup"] \in {NoRow, "w", "x"}
  BY <1>4, <1>5, <1>8, FieldsAre DEF RowsFit
<1>10. ~rolledBack => table'["mode"] \in {NoRow} \cup
         (IF schema >= 2 THEN {"existing", "single"} ELSE {"server", "bridge"})
  <2>1. table'["mode"] = IF table["mode"] = NoRow THEN Conf!Default("mode", release) ELSE table["mode"]
    BY <1>4, FieldsAre
  <2>2. ~rolledBack => Conf!Default("mode", release) \in
          (IF schema >= 2 THEN {"existing", "single"} ELSE {"server", "bridge"})
    BY <1>6, <1>7, <1>8
  <2>3. ~rolledBack => table["mode"] \in {NoRow} \cup
          (IF schema >= 2 THEN {"existing", "single"} ELSE {"server", "bridge"})
    BY <1>5 DEF RowsFit
  <2> QED
    BY <2>1, <2>2, <2>3
<1>11. RowsFit(table', schema, rolledBack)
  BY <1>4, <1>5, <1>9, <1>10 DEF RowsFit
<1>12. Views'
  BY <1>1, <1>2, ClosedFits, OvertakenForms DEF Views
<1>13. Heard'
  <2>1. /\ DOMAIN told' = Conf!Sections
        /\ \A s \in Conf!Sections : told'[s] = InForceAt(release, s, table')
    BY <1>1, InForceIs
  <2> QED
    BY <1>1, <2>1 DEF Heard, Current
<1>14. Stands
  BY <1>4 DEF Stands
<1> QED
  BY <1>1, <1>3, <1>11, <1>12, <1>13, <1>14 DEF ConfigInv

LEMMA UpFits == ASSUME ConfigInv, up = "up" PROVE Fitting
BY DEF ConfigInv, ConfigTypes, Conf!Releases, Fitting

LEMMA PageIsSaved ==
  ASSUME Conf!MarkersAreApart, ConfigInv, NEW w \in Windows, Conf!Save(w)
  PROVE  ConfigInv' /\ Stands
<1>1. PICK view : view = form[w]
  OBVIOUS
<1>2. PICK fresh : fresh = Conf!View(view.section, table')
  OBVIOUS
<1>3. /\ up = "up" /\ view # Conf!Closed
      /\ Conf!Set(view.section, view.values)
      /\ form' = [v \in Windows |-> IF v = w THEN fresh ELSE Conf!Overtaken(form[v])]
      /\ control' = Conf!Overtaken(control)
      /\ UNCHANGED <<release, up, schema, rolledBack>>
  BY <1>1, <1>2 DEF Conf!Save
<1>4. ViewFits(view, table) /\ view.section \in Conf!Sections
  BY <1>1, <1>3 DEF ConfigInv, Views, ViewFits
<1>5. /\ RowsFit(table', schema, rolledBack) /\ ReadableAt(release, view.section, table')
      /\ IsReplaced(view.section, view.values, table')
      /\ Current(release, table', told', deaf')
  BY <1>3, <1>4, UpFits, SectionIsSet DEF ConfigInv, Heard
<1>6. /\ fresh # Conf!Closed /\ ViewFits(fresh, table')
      /\ fresh.edited = {} /\ fresh.behind = {} /\ ~fresh.fell
  BY <1>2, <1>4, <1>5, FreshView
<1>7. /\ ViewFits(Conf!Overtaken(control), table')
      /\ Conf!Overtaken(control) = Conf!Closed <=> control = Conf!Closed
      /\ control # Conf!Closed => Conf!Overtaken(control).section = control.section
  BY OvertakenView DEF ConfigInv, Views
<1>8. ConfigTypes'
  BY <1>3, <1>7 DEF ConfigInv, ConfigTypes
<1>9. Views'
  BY <1>3, <1>6, <1>7, OvertakenForms DEF Views
<1>10. Heard'
  BY <1>3, <1>5 DEF Heard
<1>11. Stands
  <2> SUFFICES ASSUME NEW f \in Conf!AllFields, table[f] # NoRow, table'[f] # table[f]
               PROVE  Conf!Saves(form[w], form'[w]) /\ Conf!Changes(form[w], f)
    BY DEF Stands
  <2>1. Conf!Changes(view, f)
    BY <1>3, <1>4, <1>5, ChangesAreMeant
  <2>2. fresh # view
    BY <1>6, <2>1 DEF Conf!Changes
  <2> QED
    BY <1>1, <1>3, <2>1, <2>2 DEF Conf!Saves
<1> QED
  BY <1>3, <1>5, <1>8, <1>9, <1>10, <1>11 DEF ConfigInv

LEMMA SwitchIsWritten ==
  ASSUME Conf!MarkersAreApart, ConfigInv, Conf!WriteSwitch PROVE ConfigInv' /\ Stands
<1>1. /\ up = "up" /\ control # Conf!Closed /\ control' = Conf!Closed
      /\ Conf!Set("network", control.values)
      /\ form' = [w \in Windows |-> Conf!Overtaken(form[w])]
      /\ UNCHANGED <<release, up, schema, rolledBack>>
  BY DEF Conf!WriteSwitch
<1>2. ViewFits(control, table) /\ control.section = "network" /\ "network" \in Conf!Sections
  BY <1>1, FieldsAre DEF ConfigInv, ConfigTypes, Views
<1>3. PICK values : values = control.values
  OBVIOUS
<1>4. /\ RowsFit(table', schema, rolledBack)
      /\ IsReplaced("network", values, table')
      /\ Current(release, table', told', deaf')
  BY <1>1, <1>2, <1>3, UpFits, SectionIsSet DEF ConfigInv, Heard
<1>5. ConfigTypes'
  BY <1>1 DEF ConfigInv, ConfigTypes
<1>6. Views'
  BY <1>1, ClosedFits, OvertakenForms DEF Views
<1>7. Heard'
  BY <1>1, <1>4 DEF Heard
<1>8. Stands
  <2> SUFFICES ASSUME NEW f \in Conf!AllFields, table[f] # NoRow, table'[f] # table[f]
               PROVE  Conf!Saves(control, control') /\ Conf!Changes(control, f)
    BY DEF Stands
  <2>1. Conf!Changes(control, f)
    BY <1>1, <1>2, <1>3, <1>4, ChangesAreMeant
  <2> QED
    BY <1>1, <2>1 DEF Conf!Saves
<1> QED
  BY <1>1, <1>4, <1>5, <1>6, <1>7, <1>8 DEF ConfigInv

LEMMA ConfigNext ==
  ASSUME Conf!MarkersAreApart, ConfigInv, [Conf!Next]_(Conf!vars) PROVE ConfigInv' /\ Stands
<1>1. CASE UNCHANGED Conf!vars
  <2>1. UNCHANGED <<release, up, schema, table, form, control, told, deaf, rolledBack>>
    BY <1>1 DEF Conf!vars, Conf!store, Conf!pages, Conf!ears
  <2>2. ConfigTypes' /\ RowsFit(table, schema, rolledBack)' /\ Views' /\ Heard'
    BY <2>1 DEF ConfigInv, ConfigTypes, Views, Heard
  <2> QED
    BY <2>1, <2>2, RowsStand DEF ConfigInv
<1>2. CASE Conf!Next
  BY <1>2, ServiceIsStarted, SchemaIsMigrated, ServiceIsUp, SwitchIsWritten, PageIsUsed,
     PageIsSaved, SwitchIsRead DEF Conf!Next
<1> QED
  BY <1>1, <1>2

(* Over updates and kills, with any number of pages open: a stored value   *)
(* changes by a migration or by a save it was edited, overtaken or refused *)
(* for; the running release can read every section, unless one has run     *)
(* over a newer schema; and the parts of the service run on what is stored.*)
THEOREM ConfigHolds ==
  ASSUME Conf!MarkersAreApart
  PROVE  Conf!Spec => [][/\ Conf!EditsStand
                         /\ Conf!NothingFallsBack' /\ Conf!SubscribersAreCurrent']_(Conf!vars)
<1>1. Stands => Conf!EditsStand
  BY DEF Stands, Conf!EditsStand
<1>2. ConfigInv => Conf!NothingFallsBack
  <2> SUFFICES ASSUME ConfigInv, up = "up", ~rolledBack, NEW s \in Conf!Sections
               PROVE  Conf!Readable(s, table)
    BY DEF Conf!NothingFallsBack
  <2>1. Fitting
    BY UpFits
  <2>2. ReadableAt(release, s, table)
    BY <2>1, RowsAreReadable DEF ConfigInv, ConfigTypes, Fitting, RowsFit
  <2> QED
    BY <2>2 DEF Conf!Readable, Conf!Stored, ReadableAt, StoredAt
<1>3. ConfigInv => Conf!SubscribersAreCurrent
  BY InForceIs DEF ConfigInv, Heard, Current, Conf!SubscribersAreCurrent
<1> QED
  BY <1>1, <1>2, <1>3, ConfigBegins, ConfigNext, PTL DEF Conf!Spec
-----------------------------------------------------------------------------
(* The document of settings.  While an import runs nothing is reported of  *)
(* an earlier one, what is left of it is not done yet, and its document    *)
(* says what its checksum was taken of; section by section the settings    *)
(* are as they were, or as the document has them.                          *)
StoredRows == [value : Back!Values, extra : {None, "extra"}, secret : {"old", "new", "empty"}]
WrittenRows == [value : Back!Values, extra : {None, "extra"}, secret : {"redacted", "empty"}]
Written(written) ==
    /\ DOMAIN written = DOMAIN written \cup OptionSections
    /\ written = [x \in DOMAIN written |-> written[x]]
    /\ \A x \in DOMAIN written : written[x] \in WrittenRows
IsDocument(d) ==
    /\ d \in [version : Nat, sections : {d.sections}, checksum : {d.checksum}, faithful : BOOLEAN]
    /\ Written(d.sections)
    /\ d.faithful => \A x \in DOMAIN d.sections : d.sections[x].secret = "redacted"

DocumentTypes ==
    /\ options \in [OptionSections -> StoredRows]
    /\ optionsBefore \in [OptionSections -> StoredRows]
    /\ document # None => IsDocument(document)
    /\ importing # None \/ importReport # None => document # None
    /\ importing # None => importReport = None
Done(job) ==
    \A s \in OptionSections :
        IF s \in job.applied
        THEN /\ options[s] = Back!Set(optionsBefore[s], document.sections[s])
             /\ s \notin job.skipped /\ document.checksum[s] = document.sections[s]
        ELSE options[s] = optionsBefore[s]
Underway ==
    importing # None =>
      /\ importing \in [left : {importing.left}, applied : {importing.applied},
                        skipped : {importing.skipped}]
      /\ importing.left \cap (importing.applied \cup importing.skipped) = {}
      /\ document.checksum = document.sections
      /\ Done(importing)
Over == importReport # None => Done(importReport)
DocumentInv == DocumentTypes /\ Underway /\ Over

LEMMA DocumentBegins == ASSUME Back!DocumentInit PROVE DocumentInv
<1>1. Back!Rows("default", None, "old") \in StoredRows
  BY DEF Back!Rows, StoredRows, Back!Values
<1> QED
  BY <1>1 DEF Back!DocumentInit, DocumentInv, DocumentTypes, Underway, Over

LEMMA RowIsGot == ASSUME NEW row1 \in StoredRows PROVE Back!Get(row1) \in WrittenRows
BY DEF StoredRows, WrittenRows, Back!Get, Back!Rows, Back!Values

LEMMA RowIsSet ==
  ASSUME NEW row1 \in StoredRows, NEW read \in WrittenRows
  PROVE  /\ Back!Set(row1, read) \in StoredRows
         /\ read.secret = "redacted" => Back!Set(row1, read).secret = row1.secret
BY DEF StoredRows, WrittenRows, Back!Set, Back!Rows, Back!Values

LEMMA NothingImported ==
  ASSUME DocumentInv, importing = None, importing' = None, importReport' = None,
         options' \in [OptionSections -> StoredRows], optionsBefore' = optionsBefore,
         document' # None => IsDocument(document')
  PROVE  DocumentInv'
BY DEF DocumentInv, DocumentTypes, Underway, Over

LEMMA OptionIsEdited ==
  ASSUME DocumentInv, NEW s \in OptionSections, NEW value \in Back!Values,
         NEW extra \in {None, "extra"}, NEW secret \in {"old", "new"},
         Back!Edit(s, Back!Rows(value, extra, secret))
  PROVE  DocumentInv'
<1>1. Back!Rows(value, extra, secret) \in StoredRows
  BY DEF Back!Rows, StoredRows
<1>2. options' \in [OptionSections -> StoredRows]
  BY <1>1 DEF Back!Edit, DocumentInv, DocumentTypes
<1>3. /\ importing = None /\ importing' = None /\ importReport' = None
      /\ optionsBefore' = optionsBefore /\ document' = document
  BY DEF Back!Edit, Back!Idle
<1>4. document' # None => IsDocument(document')
  BY <1>3 DEF DocumentInv, DocumentTypes
<1> QED
  BY <1>2, <1>3, <1>4, NothingImported

LEMMA OptionsAreExported ==
  ASSUME DocumentInv, Back!Export PROVE DocumentInv'
<1>1. PICK written : written = [s \in OptionSections |-> Back!Get(options[s])]
  OBVIOUS
<1>2. /\ importing = None /\ importing' = None /\ importReport' = None
      /\ optionsBefore' = optionsBefore /\ options' = options
      /\ document' = Back!Document(written)
  BY <1>1 DEF Back!Export, Back!Idle
<1>3. \A s \in OptionSections : written[s] \in WrittenRows
  BY <1>1, RowIsGot DEF DocumentInv, DocumentTypes
<1>4. DOMAIN written = OptionSections
  BY <1>1
<1>5. Written(written)
  BY <1>1, <1>3, <1>4 DEF Written
<1>6. \A x \in DOMAIN written : written[x].secret \in {"redacted", "empty"}
  BY <1>3, <1>4 DEF WrittenRows
<1>7. IsDocument(Back!Document(written))
  BY <1>5, <1>6 DEF IsDocument, Back!Document
<1> QED
  BY <1>2, <1>7, NothingImported DEF DocumentInv, DocumentTypes

LEMMA DocumentIsForeign ==
  ASSUME DocumentInv, Back!Foreign PROVE DocumentInv'
<1>1. PICK s \in OptionSections :
        LET sections == [document.sections EXCEPT ![s].value = "unknown"]
            older == [x \in OptionSections \cup {"gone"} |->
                        IF x = "gone" THEN sections[s] ELSE sections[x]] IN
        document' \in {[document EXCEPT !.sections[s].value = "other"],
                       [document EXCEPT !.sections = older, !.checksum = older],
                       [document EXCEPT !.version = 2]}
  BY DEF Back!Foreign
<1>2. PICK old : old = document.sections
  OBVIOUS
<1>3. PICK sections1 : sections1 = [old EXCEPT ![s].value = "unknown"]
  OBVIOUS
<1>4. PICK older : older = [x \in OptionSections \cup {"gone"} |->
                              IF x = "gone" THEN sections1[s] ELSE sections1[x]]
  OBVIOUS
<1>5. PICK other : other = [old EXCEPT ![s].value = "other"]
  OBVIOUS
<1>6. /\ document' \in {[document EXCEPT !.sections = other],
                        [document EXCEPT !.sections = older, !.checksum = older],
                        [document EXCEPT !.version = 2]}
  BY <1>1, <1>2, <1>3, <1>4, <1>5
<1>7. /\ importing = None /\ importing' = None /\ importReport' = None
      /\ optionsBefore' = optionsBefore /\ options' = options /\ document # None
  BY DEF Back!Foreign, Back!Idle
<1>8. IsDocument(document) /\ Written(old)
  BY <1>2, <1>7 DEF DocumentInv, DocumentTypes, IsDocument
<1>9. s \in DOMAIN old /\ OptionSections \subseteq DOMAIN old
  BY <1>8 DEF Written
<1>10. old = [x \in DOMAIN old |-> old[x]] /\ \A x \in DOMAIN old : old[x] \in WrittenRows
  BY <1>8 DEF Written
<1>11. ASSUME NEW v \in {"unknown", "other"}, NEW w1 \in WrittenRows
       PROVE  /\ [w1 EXCEPT !.value = v] \in WrittenRows
              /\ [w1 EXCEPT !.value = v].secret = w1.secret
  BY <1>11 DEF WrittenRows, Back!Values
<1>12. /\ DOMAIN sections1 = DOMAIN old
       /\ \A x \in DOMAIN old : sections1[x] = IF x = s THEN [old[s] EXCEPT !.value = "unknown"] ELSE old[x]
  BY <1>3, <1>9, <1>10
<1>13. \A x \in DOMAIN old : sections1[x] \in WrittenRows /\ sections1[x].secret = old[x].secret
  BY <1>9, <1>10, <1>11, <1>12
<1>14. /\ DOMAIN other = DOMAIN old
       /\ other = [x \in DOMAIN old |-> other[x]]
       /\ \A x \in DOMAIN old : other[x] = IF x = s THEN [old[s] EXCEPT !.value = "other"] ELSE old[x]
  BY <1>5, <1>9, <1>10
<1>15. \A x \in DOMAIN old : other[x] \in WrittenRows /\ other[x].secret = old[x].secret
  <2> SUFFICES ASSUME NEW x \in DOMAIN old
               PROVE  other[x] \in WrittenRows /\ other[x].secret = old[x].secret
    OBVIOUS
  <2>1. old[x] \in WrittenRows /\ old[s] \in WrittenRows
    BY <1>9, <1>10
  <2>2. other[x] = IF x = s THEN [old[s] EXCEPT !.value = "other"] ELSE old[x]
    BY <1>14
  <2>3. /\ [old[s] EXCEPT !.value = "other"] \in WrittenRows
        /\ [old[s] EXCEPT !.value = "other"].secret = old[s].secret
    BY <1>11, <2>1
  <2> QED
    BY <2>1, <2>2, <2>3
<1>16. Written(other)
  BY <1>9, <1>14, <1>15 DEF Written
<1>17. /\ DOMAIN older = OptionSections \cup {"gone"}
       /\ older = [x \in DOMAIN older |-> older[x]]
       /\ \A x \in DOMAIN older : \E y \in DOMAIN old : older[x] = sections1[y]
  BY <1>4, <1>9
<1>18. Written(older)
  BY <1>13, <1>17 DEF Written
<1>19. document.faithful => /\ \A x \in DOMAIN old : old[x].secret = "redacted"
                            /\ \A x \in DOMAIN other : other[x].secret = "redacted"
                            /\ \A x \in DOMAIN older : older[x].secret = "redacted"
  BY <1>2, <1>8, <1>13, <1>14, <1>15, <1>17 DEF IsDocument
<1>20. document \in [version : Nat, sections : {document.sections},
                     checksum : {document.checksum}, faithful : BOOLEAN]
  BY <1>8 DEF IsDocument
<1>21. CASE document' = [document EXCEPT !.sections = other]
  <2>1. IsDocument(document')
    BY <1>16, <1>19, <1>20, <1>21 DEF IsDocument
  <2> QED
    BY <1>7, <2>1, NothingImported DEF DocumentInv, DocumentTypes
<1>22. CASE document' = [document EXCEPT !.sections = older, !.checksum = older]
  <2>1. IsDocument(document')
    BY <1>18, <1>19, <1>20, <1>22 DEF IsDocument
  <2> QED
    BY <1>7, <2>1, NothingImported DEF DocumentInv, DocumentTypes
<1>23. CASE document' = [document EXCEPT !.version = 2]
  <2>1. IsDocument(document')
    BY <1>2, <1>8, <1>19, <1>20, <1>23 DEF IsDocument
  <2> QED
    BY <1>7, <2>1, NothingImported DEF DocumentInv, DocumentTypes
<1> QED
  BY <1>6, <1>21, <1>22, <1>23

LEMMA ImportIsBegun ==
  ASSUME DocumentInv, Back!Import PROVE DocumentInv'
<1>1. /\ document # None /\ importing = None /\ optionsBefore' = options
      /\ options' = options /\ document' = document
      /\ \/ /\ document.checksum = document.sections
            /\ importing' = [Back!NoImport EXCEPT !.left = DOMAIN document.sections]
            /\ importReport' = None
         \/ importing' = None /\ importReport' = Back!NoImport
  BY DEF Back!Import, Back!Idle, Back!Accepted
<1>2. DocumentTypes'
  BY <1>1 DEF DocumentInv, DocumentTypes
<1>3. Back!NoImport = [left |-> {}, applied |-> {}, skipped |-> {}]
  BY DEF Back!NoImport
<1>4. CASE /\ document.checksum = document.sections
           /\ importing' = [Back!NoImport EXCEPT !.left = DOMAIN document.sections]
           /\ importReport' = None
  <2>1. /\ importing'.applied = {} /\ importing'.skipped = {}
        /\ importing' \in [left : {importing'.left}, applied : {importing'.applied},
                           skipped : {importing'.skipped}]
    BY <1>3, <1>4
  <2>2. Underway'
    BY <1>1, <1>4, <2>1 DEF Underway, Done
  <2> QED
    BY <1>2, <1>4, <2>2 DEF DocumentInv, Over
<1>5. CASE importing' = None /\ importReport' = Back!NoImport
  <2>1. importReport'.applied = {}
    BY <1>3, <1>5
  <2> QED
    BY <1>1, <1>2, <1>5, <2>1 DEF DocumentInv, Over, Underway, Done
<1> QED
  BY <1>1, <1>4, <1>5

LEMMA SectionIsImported ==
  ASSUME DocumentInv, Back!ImportSection PROVE DocumentInv'
<1>1. /\ importing # None /\ importReport = None /\ importReport' = None
      /\ document' = document /\ optionsBefore' = optionsBefore /\ document # None
  BY DEF Back!ImportSection, Back!Idle, DocumentInv, DocumentTypes
<1>2. PICK s \in importing.left : (s \in OptionSections /\ Back!Apply(s)) \/ Back!Skip(s)
  BY DEF Back!ImportSection
<1>3. /\ importing \in [left : {importing.left}, applied : {importing.applied},
                        skipped : {importing.skipped}]
      /\ importing.left \cap (importing.applied \cup importing.skipped) = {}
      /\ document.checksum = document.sections
      /\ Done(importing)
  BY <1>1 DEF DocumentInv, Underway
<1>4. IsDocument(document) /\ Written(document.sections)
  BY <1>1 DEF DocumentInv, DocumentTypes, IsDocument
<1>5. CASE s \in OptionSections /\ Back!Apply(s)
  <2>1. /\ options' = [options EXCEPT ![s] = Back!Set(options[s], document.sections[s])]
        /\ importing' = [importing EXCEPT !.left = @ \ {s}, !.applied = @ \cup {s}]
    BY <1>5 DEF Back!Apply
  <2>2. /\ importing'.left = importing.left \ {s} /\ importing'.applied = importing.applied \cup {s}
        /\ importing'.skipped = importing.skipped
        /\ importing' \in [left : {importing'.left}, applied : {importing'.applied},
                           skipped : {importing'.skipped}]
    BY <1>3, <2>1
  <2>3. document.sections[s] \in WrittenRows
    BY <1>4, <1>5 DEF Written
  <2>4. PICK new : new = Back!Set(options[s], document.sections[s])
    OBVIOUS
  <2>5. new \in StoredRows
    BY <1>5, <2>3, <2>4, RowIsSet DEF DocumentInv, DocumentTypes
  <2>6. /\ options' \in [OptionSections -> StoredRows]
        /\ options'[s] = new /\ \A x \in OptionSections : x # s => options'[x] = options[x]
    BY <1>5, <2>1, <2>4, <2>5 DEF DocumentInv, DocumentTypes
  <2>7. DocumentTypes'
    BY <1>1, <2>6 DEF DocumentInv, DocumentTypes
  <2>8. options[s] = optionsBefore[s] /\ s \notin importing.skipped
    BY <1>2, <1>3, <1>5 DEF Done
  <2>9. Done(importing)'
    <3>1. SUFFICES ASSUME NEW x \in OptionSections
                   PROVE  IF x \in importing'.applied
                          THEN /\ options'[x] = Back!Set(optionsBefore[x], document.sections[x])
                               /\ x \notin importing'.skipped
                               /\ document.checksum[x] = document.sections[x]
                          ELSE options'[x] = optionsBefore[x]
      BY <1>1 DEF Done
    <3>2. CASE x = s
      BY <1>3, <2>2, <2>4, <2>6, <2>8, <3>2
    <3>3. CASE x # s
      BY <1>3, <2>2, <2>6, <3>3 DEF Done
    <3> QED
      BY <3>2, <3>3
  <2>10. Underway'
    <3>1. importing'.left \cap (importing'.applied \cup importing'.skipped) = {}
      BY <1>3, <2>2
    <3> QED
      BY <1>1, <1>3, <2>2, <2>9, <3>1 DEF Underway
  <2> QED
    BY <1>1, <2>7, <2>10 DEF DocumentInv, Over
<1>6. CASE Back!Skip(s)
  <2>1. /\ options' = options
        /\ importing' = [importing EXCEPT !.left = @ \ {s}, !.skipped = @ \cup {s}]
    BY <1>6 DEF Back!Skip
  <2>2. /\ importing'.left = importing.left \ {s} /\ importing'.applied = importing.applied
        /\ importing'.skipped = importing.skipped \cup {s}
        /\ importing' \in [left : {importing'.left}, applied : {importing'.applied},
                           skipped : {importing'.skipped}]
    BY <1>3, <2>1
  <2>3. DocumentTypes'
    BY <1>1, <2>1 DEF DocumentInv, DocumentTypes
  <2>4. Done(importing)'
    BY <1>1, <1>2, <1>3, <2>1, <2>2 DEF Done
  <2>5. importing'.left \cap (importing'.applied \cup importing'.skipped) = {}
    BY <1>3, <2>2
  <2>6. Underway'
    BY <1>1, <1>3, <2>2, <2>4, <2>5 DEF Underway
  <2> QED
    BY <1>1, <2>3, <2>6 DEF DocumentInv, Over
<1> QED
  BY <1>2, <1>5, <1>6

LEMMA ImportIsOver ==
  ASSUME DocumentInv, Back!ImportEnds \/ Back!KilledWhileImporting PROVE DocumentInv'
<1>1. /\ importing # None /\ importing' = None /\ importReport' \in {importing, importReport}
      /\ options' = options /\ document' = document /\ optionsBefore' = optionsBefore
  BY DEF Back!ImportEnds, Back!KilledWhileImporting, Back!Idle
<1>2. DocumentTypes'
  BY <1>1 DEF DocumentInv, DocumentTypes
<1>3. Underway'
  BY <1>1 DEF Underway
<1>4. Over'
  <2>1. Done(importing) /\ (importReport # None => Done(importReport))
    BY <1>1 DEF DocumentInv, Underway, Over
  <2> QED
    BY <1>1, <2>1 DEF Over, Done
<1> QED
  BY <1>2, <1>3, <1>4 DEF DocumentInv

LEMMA DocumentNext ==
  ASSUME DocumentInv, [Back!DocumentNext]_(Back!documentVars) PROVE DocumentInv'
<1>1. CASE UNCHANGED Back!documentVars
  <2>1. /\ options' = options /\ document' = document /\ importing' = importing
        /\ importReport' = importReport /\ optionsBefore' = optionsBefore
    BY <1>1 DEF Back!documentVars
  <2>2. DocumentTypes'
    BY <2>1 DEF DocumentInv, DocumentTypes
  <2>3. Underway' /\ Over'
    BY <2>1 DEF DocumentInv, Underway, Over, Done
  <2> QED
    BY <2>2, <2>3 DEF DocumentInv
<1>2. CASE Back!DocumentNext
  BY <1>2, OptionIsEdited, OptionsAreExported, DocumentIsForeign, ImportIsBegun,
     SectionIsImported, ImportIsOver DEF Back!DocumentNext
<1> QED
  BY <1>1, <1>2

(* Whatever document comes back, whoever has changed it: an import has     *)
(* done what it reports and nothing else, also when it is killed, and      *)
(* takes no secret away that its export could read.                        *)
THEOREM ImportsStayHonest ==
  Back!DocumentInit /\ [][Back!DocumentNext]_(Back!documentVars)
    => [](Back!ImportsAreHonest /\ Back!SecretsStay)
<1>1. DocumentInv => Back!ImportsAreHonest /\ Back!SecretsStay
  <2> SUFFICES ASSUME DocumentInv PROVE Back!ImportsAreHonest /\ Back!SecretsStay
    OBVIOUS
  <2>1. Back!ImportsAreHonest
    BY DEF DocumentInv, Over, Done, Back!ImportsAreHonest
  <2>2. ASSUME document # None, NEW s \in DOMAIN document.sections
        PROVE  document.sections[s].secret \notin {"old", "new"}
    <3>1. document.sections[s] \in WrittenRows
      BY <2>2 DEF DocumentInv, DocumentTypes, IsDocument, Written
    <3> QED
      BY <3>1 DEF WrittenRows
  <2>3. ASSUME importReport # None \/ importing # None, document.faithful,
               NEW s \in OptionSections
        PROVE  options[s].secret = optionsBefore[s].secret
    <3>1. IsDocument(document)
      BY <2>3 DEF DocumentInv, DocumentTypes
    <3>2. s \in DOMAIN document.sections /\ document.sections[s] \in WrittenRows
      BY <3>1 DEF IsDocument, Written
    <3>3. document.sections[s].secret = "redacted"
      BY <2>3, <3>1, <3>2 DEF IsDocument
    <3>4. optionsBefore[s] \in StoredRows
      BY DEF DocumentInv, DocumentTypes
    <3>5. PICK new : new = Back!Set(optionsBefore[s], document.sections[s])
      OBVIOUS
    <3>6. new.secret = optionsBefore[s].secret
      BY <3>2, <3>3, <3>4, <3>5, RowIsSet
    <3>7. options[s] \in {new, optionsBefore[s]}
      BY <2>3, <3>5 DEF DocumentInv, Underway, Over, Done
    <3> QED
      BY <3>6, <3>7
  <2> QED
    BY <2>1, <2>2, <2>3 DEF Back!SecretsStay
<1> QED
  BY <1>1, DocumentBegins, DocumentNext, PTL
-----------------------------------------------------------------------------
(* The copies of the database.  A file that is not whole is the one that   *)
(* is being written, or older than every copy that was finished after it;  *)
(* while a pass deletes, a copy that counts is not among the doomed, and   *)
(* what is not doomed is no more than is kept.                             *)
Copying(n) == copyJob.state = "copying" /\ n = copyJob.name
Kept == DOMAIN copies \ (IF copyJob.state = "copying" THEN {copyJob.name} ELSE copyJob.doomed)

CopyTypes ==
    /\ copies = [n \in DOMAIN copies |-> copies[n]] /\ IsFiniteSet(DOMAIN copies)
    /\ \A n \in DOMAIN copies : copies[n] \in [whole : BOOLEAN, mtime : 0..copyClock]
    /\ copyClock \in Nat /\ (good # None => good \in 0..copyClock) /\ cutOff \in BOOLEAN
    /\ copyJob \in [state : {"rest", "copying", "listing", "pruning"}, name : {copyJob.name},
                    doomed : {copyJob.doomed}]
    /\ copyJob.state # "pruning" => copyJob.doomed = {}
Unfinished ==
    \A n \in DOMAIN copies :
      /\ Copying(n) => ~copies[n].whole
      /\ copies[n].whole \/ Copying(n)
         \/ /\ copies[n].mtime < copyClock
            /\ copyJob.state \in {"listing", "pruning"} => good = None \/ copies[n].mtime < good
Lasting ==
    good # None =>
      \E n \in DOMAIN copies \ copyJob.doomed : copies[n].whole /\ copies[n].mtime >= good
NoMoreThanKept == copyJob.state # "listing" /\ ~cutOff => Cardinality(Kept) <= Keep
CopyInv == CopyTypes /\ Unfinished /\ Lasting /\ NoMoreThanKept

LEMMA CopyCounts == \A S : Back!Cardinality(S) = Cardinality(S)
BY DEF Back!Cardinality, Cardinality

LEMMA FewerStay ==
  ASSUME Back!KeepIsSound, CopyTypes, NoMoreThanKept, Kept' \subseteq Kept,
         cutOff => cutOff', copyJob.state # "listing"
  PROVE  NoMoreThanKept'
<1>1. IsFiniteSet(Kept) /\ Cardinality(Kept) \in Nat
  BY FS_Subset, FS_CardinalityType DEF CopyTypes, Kept
<1>2. Cardinality(Kept') \in Nat /\ Cardinality(Kept') <= Cardinality(Kept)
  BY <1>1, FS_Subset, FS_CardinalityType
<1>3. SUFFICES ASSUME copyJob'.state # "listing", ~cutOff' PROVE Cardinality(Kept') <= Keep
  BY DEF NoMoreThanKept
<1>4. ~cutOff
  BY <1>3
<1> QED
  BY <1>1, <1>2, <1>4 DEF NoMoreThanKept, Back!KeepIsSound

LEMMA CopyBegins == ASSUME Back!KeepIsSound, Back!CopyInit PROVE CopyInv
<1>1. /\ copies = <<>> /\ DOMAIN copies = {} /\ good = None /\ cutOff = FALSE /\ copyClock = 0
      /\ copyJob.state = "rest" /\ copyJob.doomed = {}
      /\ copyJob \in [state : {"rest"}, name : {copyJob.name}, doomed : {copyJob.doomed}]
  BY DEF Back!CopyInit, Back!AtRest
<1>2. Kept = {} /\ Cardinality(Kept) = 0 /\ IsFiniteSet(DOMAIN copies)
  BY <1>1, FS_EmptySet DEF Kept
<1>3. CopyTypes
  <2>1. copies = [n \in DOMAIN copies |-> copies[n]]
    BY <1>1
  <2> QED
    BY <1>1, <1>2, <2>1 DEF CopyTypes
<1> QED
  BY <1>1, <1>2, <1>3 DEF CopyInv, Unfinished, Lasting, NoMoreThanKept, Back!KeepIsSound

LEMMA FileIsWritten ==
  ASSUME CopyTypes, NEW name, NEW whole \in BOOLEAN, copies' = Back!With(name, whole)
  PROVE  /\ copies' = [n \in DOMAIN copies' |-> copies'[n]] /\ IsFiniteSet(DOMAIN copies')
         /\ DOMAIN copies' = DOMAIN copies \cup {name}
         /\ \A n \in DOMAIN copies' : copies'[n] \in [whole : BOOLEAN, mtime : 0..copyClock]
         /\ \A n \in DOMAIN copies : n # name => copies'[n] = copies[n]
         /\ copies'[name].whole = whole /\ copies'[name].mtime = copyClock
<1>1. copies' = [n \in DOMAIN copies \cup {name} |->
                   IF n = name THEN [whole |-> whole, mtime |-> copyClock] ELSE copies[n]]
  BY DEF Back!With
<1>2. IsFiniteSet(DOMAIN copies \cup {name})
  BY FS_AddElement DEF CopyTypes
<1>3. [whole |-> whole, mtime |-> copyClock] \in [whole : BOOLEAN, mtime : 0..copyClock]
  BY DEF CopyTypes
<1> QED
  BY <1>1, <1>2, <1>3 DEF CopyTypes

LEMMA FileIsGone ==
  ASSUME CopyTypes, NEW name, copies' = Back!Without({name})
  PROVE  /\ copies' = [n \in DOMAIN copies' |-> copies'[n]] /\ IsFiniteSet(DOMAIN copies')
         /\ DOMAIN copies' = DOMAIN copies \ {name}
         /\ \A n \in DOMAIN copies' : copies'[n] = copies[n]
<1>1. copies' = [n \in DOMAIN copies \ {name} |-> copies[n]]
  BY DEF Back!Without, Back!Restrict
<1>2. IsFiniteSet(DOMAIN copies \ {name})
  BY FS_RemoveElement DEF CopyTypes
<1> QED
  BY <1>1, <1>2

LEMMA CopyIsBegun ==
  ASSUME Back!KeepIsSound, CopyInv, NEW label \in Back!Labels, Back!Create(label) PROVE CopyInv'
<1>1. PICK name : name = <<label, copyClock>>
  OBVIOUS
<1>2. /\ copyJob = Back!AtRest /\ name \notin DOMAIN copies
      /\ copyJob' = [Back!AtRest EXCEPT !.state = "copying", !.name = name]
      /\ copies' = Back!With(name, FALSE)
      /\ UNCHANGED <<good, cutOff, copyClock>>
  BY <1>1 DEF Back!Create
<1>3. /\ copyJob.state = "rest" /\ copyJob.doomed = {}
      /\ copyJob'.state = "copying" /\ copyJob'.name = name /\ copyJob'.doomed = {}
      /\ copyJob' \in [state : {"copying"}, name : {copyJob'.name}, doomed : {copyJob'.doomed}]
  BY <1>2 DEF Back!AtRest
<1>4. /\ copies' = [n \in DOMAIN copies' |-> copies'[n]] /\ IsFiniteSet(DOMAIN copies')
      /\ DOMAIN copies' = DOMAIN copies \cup {name}
      /\ \A n \in DOMAIN copies' : copies'[n] \in [whole : BOOLEAN, mtime : 0..copyClock]
      /\ \A n \in DOMAIN copies : n # name => copies'[n] = copies[n]
      /\ copies'[name].whole = FALSE
  BY <1>2, FileIsWritten DEF CopyInv
<1>5. CopyTypes'
  BY <1>2, <1>3, <1>4 DEF CopyInv, CopyTypes
<1>6. Unfinished'
  <2>1. ASSUME NEW n \in DOMAIN copies'
        PROVE  /\ n = name => ~copies'[n].whole
               /\ copies'[n].whole \/ n = name \/ copies'[n].mtime < copyClock
    BY <1>2, <1>3, <1>4 DEF CopyInv, Unfinished, Copying
  <2> QED
    BY <1>2, <1>3, <2>1 DEF Unfinished, Copying
<1>7. Lasting'
  BY <1>2, <1>3, <1>4 DEF CopyInv, Lasting
<1>8. NoMoreThanKept'
  <2>1. Kept' \subseteq Kept
    BY <1>2, <1>3, <1>4 DEF Kept
  <2> QED
    BY <1>2, <1>3, <2>1, FewerStay DEF CopyInv
<1> QED
  BY <1>5, <1>6, <1>7, <1>8 DEF CopyInv

LEMMA CopyIsDone == ASSUME CopyInv, Back!Copied PROVE CopyInv'
<1>1. PICK name : name = copyJob.name
  OBVIOUS
<1>2. /\ copyJob.state = "copying" /\ name \in DOMAIN copies
      /\ copies' = Back!With(name, TRUE)
      /\ good' = copyClock /\ cutOff' = FALSE /\ copyJob' = [copyJob EXCEPT !.state = "listing"]
      /\ copyClock' = copyClock
  BY <1>1 DEF Back!Copied
<1>3. /\ copyJob.doomed = {} /\ copyJob'.state = "listing" /\ copyJob'.doomed = {}
      /\ copyJob' \in [state : {"listing"}, name : {copyJob'.name}, doomed : {copyJob'.doomed}]
  BY <1>2 DEF CopyInv, CopyTypes
<1>4. /\ copies' = [n \in DOMAIN copies' |-> copies'[n]] /\ IsFiniteSet(DOMAIN copies')
      /\ DOMAIN copies' = DOMAIN copies \cup {name}
      /\ \A n \in DOMAIN copies' : copies'[n] \in [whole : BOOLEAN, mtime : 0..copyClock]
      /\ \A n \in DOMAIN copies : n # name => copies'[n] = copies[n]
      /\ copies'[name].whole = TRUE /\ copies'[name].mtime = copyClock
  BY <1>2, FileIsWritten DEF CopyInv
<1>5. copyClock \in Nat
  BY DEF CopyInv, CopyTypes
<1>6. CopyTypes'
  BY <1>2, <1>3, <1>4, <1>5 DEF CopyTypes
<1>7. Unfinished'
  <2>1. ASSUME NEW n \in DOMAIN copies' PROVE copies'[n].whole \/ copies'[n].mtime < copyClock
    BY <1>1, <1>2, <1>4 DEF CopyInv, Unfinished, Copying
  <2> QED
    BY <1>2, <1>3, <2>1 DEF Unfinished, Copying
<1>8. Lasting'
  <2>1. name \in DOMAIN copies' \ copyJob'.doomed /\ copies'[name].whole
    BY <1>3, <1>4
  <2>2. copies'[name].mtime >= good'
    <3>1. copies'[name].mtime = copyClock
      BY <1>4
    <3>2. good' = copyClock
      BY <1>2
    <3> QED
      BY <3>1, <3>2, <1>5
  <2> QED
    BY <2>1, <2>2 DEF Lasting
<1> QED
  BY <1>3, <1>6, <1>7, <1>8 DEF CopyInv, NoMoreThanKept

LEMMA CopyFailed ==
  ASSUME Back!KeepIsSound, CopyInv, Back!CopyFails PROVE CopyInv'
<1>1. PICK name : name = copyJob.name
  OBVIOUS
<1>2. /\ copyJob.state = "copying" /\ copies' = Back!Without({name}) /\ copyJob' = Back!AtRest
      /\ UNCHANGED <<good, cutOff, copyClock>>
  BY <1>1 DEF Back!CopyFails
<1>3. /\ copyJob.doomed = {} /\ copyJob'.state = "rest" /\ copyJob'.doomed = {}
      /\ copyJob' \in [state : {"rest"}, name : {copyJob'.name}, doomed : {copyJob'.doomed}]
  BY <1>2 DEF CopyInv, CopyTypes, Back!AtRest
<1>4. /\ copies' = [n \in DOMAIN copies' |-> copies'[n]] /\ IsFiniteSet(DOMAIN copies')
      /\ DOMAIN copies' = DOMAIN copies \ {name}
      /\ \A n \in DOMAIN copies' : copies'[n] = copies[n]
  BY <1>2, FileIsGone DEF CopyInv
<1>5. CopyTypes'
  BY <1>2, <1>3, <1>4 DEF CopyInv, CopyTypes
<1>6. Unfinished'
  BY <1>1, <1>2, <1>3, <1>4 DEF CopyInv, Unfinished, Copying
<1>7. Lasting'
  BY <1>1, <1>2, <1>3, <1>4 DEF CopyInv, Lasting, Unfinished, Copying
<1>8. NoMoreThanKept'
  <2>1. Kept' \subseteq Kept
    BY <1>1, <1>2, <1>3, <1>4 DEF Kept
  <2> QED
    BY <1>2, <2>1, FewerStay DEF CopyInv
<1> QED
  BY <1>5, <1>6, <1>7, <1>8 DEF CopyInv

LEMMA CopiesAreListed ==
  ASSUME Back!KeepIsSound, CopyInv, Back!Listed PROVE CopyInv'
<1>1. PICK kept \in Back!ToKeep :
        /\ copyJob.state = "listing"
        /\ copyJob' = [copyJob EXCEPT !.state = "pruning", !.doomed = DOMAIN copies \ kept]
        /\ UNCHANGED <<copies, good, cutOff, copyClock>>
  BY DEF Back!Listed
<1>2. /\ copyJob.doomed = {}
      /\ copyJob'.state = "pruning" /\ copyJob'.doomed = DOMAIN copies \ kept
      /\ copyJob' \in [state : {"pruning"}, name : {copyJob'.name}, doomed : {copyJob'.doomed}]
  BY <1>1 DEF CopyInv, CopyTypes
<1>3. /\ kept \subseteq DOMAIN copies
      /\ \A n \in kept, o \in DOMAIN copies \ kept : copies[n].mtime >= copies[o].mtime
      /\ Cardinality(kept) = IF Cardinality(DOMAIN copies) < Keep
                              THEN Cardinality(DOMAIN copies) ELSE Keep
  BY CopyCounts DEF Back!ToKeep, Back!Newest
<1>4. CopyTypes'
  BY <1>1, <1>2 DEF CopyInv, CopyTypes
<1>5. Unfinished'
  BY <1>1, <1>2 DEF CopyInv, Unfinished, Copying
<1>6. Cardinality(DOMAIN copies) \in Nat
  BY FS_CardinalityType DEF CopyInv, CopyTypes
<1>7. NoMoreThanKept'
  <2>1. Kept' = kept
    BY <1>1, <1>2, <1>3 DEF Kept
  <2> QED
    BY <1>3, <1>6, <2>1 DEF NoMoreThanKept, Back!KeepIsSound
<1>8. Lasting'
  <2>1. SUFFICES ASSUME good # None
                 PROVE  \E n \in kept : copies[n].whole /\ copies[n].mtime >= good
    BY <1>1, <1>2, <1>3 DEF Lasting
  <2>2. PICK n \in DOMAIN copies : copies[n].whole /\ copies[n].mtime >= good
    BY <2>1 DEF CopyInv, Lasting
  <2>3. CASE n \in kept
    BY <2>2, <2>3
  <2>4. CASE n \notin kept
    <3>1. kept # {}
      <4>1. Cardinality(DOMAIN copies) # 0
        BY FS_EmptySet DEF CopyInv, CopyTypes
      <4>2. Cardinality(kept) # 0
        BY <1>3, <1>6, <4>1 DEF Back!KeepIsSound
      <4> QED
        BY <4>2, FS_EmptySet
    <3>2. PICK k \in kept : k \in DOMAIN copies /\ copies[k].mtime >= copies[n].mtime
      BY <1>3, <2>4, <3>1
    <3>3. copies[k].mtime >= good /\ ~(copies[k].mtime < good)
      <4>1. copies[k].mtime \in Nat /\ copies[n].mtime \in Nat /\ good \in Nat
        BY <2>1, <3>2 DEF CopyInv, CopyTypes
      <4> QED
        BY <2>2, <3>2, <4>1
    <3>4. copies[k].whole
      BY <1>1, <2>1, <3>2, <3>3 DEF CopyInv, Unfinished, Copying
    <3> QED
      BY <3>3, <3>4
  <2> QED
    BY <2>3, <2>4
<1> QED
  BY <1>4, <1>5, <1>7, <1>8 DEF CopyInv

LEMMA CopyIsDeleted ==
  ASSUME Back!KeepIsSound, CopyInv, Back!Delete PROVE CopyInv'
<1>1. PICK name \in copyJob.doomed :
        /\ copyJob.state = "pruning" /\ copyJob' = [copyJob EXCEPT !.doomed = @ \ {name}]
        /\ \/ copies' = Back!Without({name}) /\ cutOff' = cutOff
           \/ cutOff' = TRUE /\ copies' = copies
        /\ UNCHANGED <<good, copyClock>>
  BY DEF Back!Delete
<1>2. /\ copyJob'.state = "pruning" /\ copyJob'.doomed = copyJob.doomed \ {name}
      /\ copyJob' \in [state : {"pruning"}, name : {copyJob'.name}, doomed : {copyJob'.doomed}]
      /\ copyJob'.name = copyJob.name
  BY <1>1 DEF CopyInv, CopyTypes
<1>3. /\ copies' = [n \in DOMAIN copies' |-> copies'[n]] /\ IsFiniteSet(DOMAIN copies')
      /\ \A n \in DOMAIN copies' : n \in DOMAIN copies /\ copies'[n] = copies[n]
      /\ DOMAIN copies \ copyJob.doomed \subseteq DOMAIN copies'
      /\ cutOff' \in BOOLEAN
      /\ cutOff' \/ (DOMAIN copies' = DOMAIN copies \ {name} /\ cutOff' = cutOff)
  <2>1. CASE copies' = Back!Without({name}) /\ cutOff' = cutOff
    <3>1. CopyTypes /\ cutOff \in BOOLEAN
      BY DEF CopyInv, CopyTypes
    <3>2. /\ copies' = [n \in DOMAIN copies' |-> copies'[n]] /\ IsFiniteSet(DOMAIN copies')
          /\ DOMAIN copies' = DOMAIN copies \ {name}
          /\ \A n \in DOMAIN copies' : copies'[n] = copies[n]
      BY <2>1, <3>1, FileIsGone
    <3> QED
      BY <1>1, <2>1, <3>1, <3>2
  <2>2. CASE cutOff' = TRUE /\ copies' = copies
    BY <2>2 DEF CopyInv, CopyTypes
  <2> QED
    BY <1>1, <2>1, <2>2
<1>4. CopyTypes'
  BY <1>1, <1>2, <1>3 DEF CopyInv, CopyTypes
<1>5. Unfinished'
  BY <1>1, <1>2, <1>3 DEF CopyInv, Unfinished, Copying
<1>6. Lasting'
  BY <1>1, <1>2, <1>3 DEF CopyInv, Lasting
<1>7. NoMoreThanKept'
  <2>1. CASE cutOff'
    BY <2>1 DEF NoMoreThanKept
  <2>2. CASE ~cutOff'
    <3>1. Kept' \subseteq Kept
      BY <1>1, <1>2, <1>3, <2>2 DEF Kept
    <3> QED
      BY <1>1, <1>3, <2>2, <3>1, FewerStay DEF CopyInv
  <2> QED
    BY <2>1, <2>2
<1> QED
  BY <1>4, <1>5, <1>6, <1>7 DEF CopyInv

LEMMA CopyIsRemoved ==
  ASSUME Back!KeepIsSound, CopyInv, NEW name \in DOMAIN copies, Back!Remove(name) PROVE CopyInv'
<1>1. /\ copies' = Back!Without({name})
      /\ good' = IF copies[name].whole THEN None ELSE good
      /\ UNCHANGED <<copyJob, cutOff, copyClock>>
  BY DEF Back!Remove
<1>2. /\ copies' = [n \in DOMAIN copies' |-> copies'[n]] /\ IsFiniteSet(DOMAIN copies')
      /\ DOMAIN copies' = DOMAIN copies \ {name}
      /\ \A n \in DOMAIN copies' : copies'[n] = copies[n]
  BY <1>1, FileIsGone DEF CopyInv
<1>3. CopyTypes'
  BY <1>1, <1>2 DEF CopyInv, CopyTypes
<1>4. Unfinished'
  BY <1>1, <1>2 DEF CopyInv, Unfinished, Copying
<1>5. Lasting'
  BY <1>1, <1>2 DEF CopyInv, Lasting
<1>6. NoMoreThanKept'
  <2>1. Kept' \subseteq Kept
    BY <1>1, <1>2 DEF Kept
  <2>2. CASE copyJob.state = "listing"
    BY <1>1, <2>2 DEF NoMoreThanKept
  <2> QED
    BY <1>1, <2>1, <2>2, FewerStay DEF CopyInv
<1> QED
  BY <1>3, <1>4, <1>5, <1>6 DEF CopyInv

LEMMA CopyRests ==
  ASSUME Back!KeepIsSound, CopyInv,
         Back!Created \/ Back!Tick \/ Back!Killed \/ UNCHANGED Back!copyVars
  PROVE  CopyInv'
<1>1. /\ UNCHANGED <<copies, good>>
      /\ \/ copyJob' = copyJob /\ cutOff' = cutOff
         \/ copyJob' = Back!AtRest /\ copyJob.state = "pruning" /\ copyJob.doomed = {} /\ cutOff' = cutOff
         \/ copyJob' = Back!AtRest /\ cutOff' = TRUE /\ copyClock' = copyClock + 1
      /\ copyClock' \in {copyClock, copyClock + 1}
  BY DEF Back!Created, Back!Tick, Back!Killed, Back!copyVars
<1>2. /\ Back!AtRest.state = "rest" /\ Back!AtRest.doomed = {}
      /\ Back!AtRest \in [state : {"rest"}, name : {Back!AtRest.name}, doomed : {Back!AtRest.doomed}]
  BY DEF Back!AtRest
<1>3. copyClock \in Nat /\ copyClock' \in Nat /\ copyClock <= copyClock'
  BY <1>1 DEF CopyInv, CopyTypes
<1>4. CopyTypes'
  <2>1. \A n \in DOMAIN copies : copies[n] \in [whole : BOOLEAN, mtime : 0..copyClock']
    BY <1>3 DEF CopyInv, CopyTypes
  <2>2. good # None => good \in 0..copyClock'
    BY <1>3 DEF CopyInv, CopyTypes
  <2>3. /\ copyJob' \in [state : {"rest", "copying", "listing", "pruning"}, name : {copyJob'.name},
                          doomed : {copyJob'.doomed}]
        /\ copyJob'.state # "pruning" => copyJob'.doomed = {}
        /\ cutOff' \in BOOLEAN
    BY <1>1, <1>2 DEF CopyInv, CopyTypes
  <2> QED
    BY <1>1, <1>3, <2>1, <2>2, <2>3 DEF CopyInv, CopyTypes
<1>5. Unfinished'
  <2>1. \A n \in DOMAIN copies : copies[n].mtime \in 0..copyClock
    BY DEF CopyInv, CopyTypes
  <2> QED
    BY <1>1, <1>2, <1>3, <2>1 DEF CopyInv, Unfinished, Copying
<1>6. Lasting'
  BY <1>1, <1>2 DEF CopyInv, Lasting
<1>7. NoMoreThanKept'
  <2>1. CASE copyJob' = copyJob /\ cutOff' = cutOff
    BY <1>1, <2>1 DEF CopyInv, NoMoreThanKept, Kept
  <2>2. CASE copyJob' = Back!AtRest /\ copyJob.state = "pruning" /\ copyJob.doomed = {} /\ cutOff' = cutOff
    BY <1>1, <1>2, <2>2 DEF CopyInv, NoMoreThanKept, Kept
  <2>3. CASE cutOff' = TRUE
    BY <2>3 DEF NoMoreThanKept
  <2> QED
    BY <1>1, <2>1, <2>2, <2>3
<1> QED
  BY <1>4, <1>5, <1>6, <1>7 DEF CopyInv

LEMMA CopiesNext ==
  ASSUME Back!KeepIsSound, CopyInv, [Back!CopiesNext]_(Back!copyVars) PROVE CopyInv'
BY CopyIsBegun, CopyIsDone, CopyFailed, CopiesAreListed, CopyIsDeleted, CopyIsRemoved, CopyRests
   DEF Back!CopiesNext

(* Whatever fails, is killed or removed: a whole copy no older than the    *)
(* last one written is there until the operator removes one, and when      *)
(* nothing runs and nothing was cut off no more than Keep are left, for    *)
(* any number of copies to keep.                                           *)
THEOREM CopiesLast ==
  ASSUME Back!KeepIsSound
  PROVE  Back!CopyInit /\ [][Back!CopiesNext]_(Back!copyVars)
           => [](Back!LastBackupStays /\ Back!DirectoryIsBounded)
<1>1. CopyInv => Back!LastBackupStays /\ Back!DirectoryIsBounded
  <2> SUFFICES ASSUME CopyInv PROVE Back!LastBackupStays /\ Back!DirectoryIsBounded
    OBVIOUS
  <2>1. Back!LastBackupStays
    BY DEF CopyInv, Lasting, Back!LastBackupStays
  <2>2. ASSUME copyJob = Back!AtRest, ~cutOff PROVE Cardinality(DOMAIN copies) <= Keep
    <3>1. copyJob.state = "rest" /\ copyJob.doomed = {}
      BY <2>2 DEF Back!AtRest
    <3>2. Kept = DOMAIN copies
      BY <3>1 DEF Kept
    <3> QED
      BY <2>2, <3>1, <3>2 DEF CopyInv, NoMoreThanKept
  <2> QED
    BY <2>1, <2>2, CopyCounts DEF Back!DirectoryIsBounded
<1> QED
  BY <1>1, CopyBegins, CopiesNext, PTL
-----------------------------------------------------------------------------
(* The pages of the history.  The timeline shows rows of the file that is  *)
(* selected, or waits for them; a row has a path and a pin that can be     *)
(* changed.                                                                *)
IsRow(r) == r \in [id : {r.id}, path : Paths, content : {r.content}, origin : {r.origin},
                   pinned : BOOLEAN]
HistoryInv ==
    /\ cache = [p \in Paths |-> cache[p]]
    /\ \A r \in versions : IsRow(r)
    /\ confirm = Hist!Nothing \/ confirm.path \in Paths
    /\ asked \in {None, picked}
    /\ asked = picked \/ \A v \in shown : v.path = picked

LEMMA HistoryBegins == Hist!Init => HistoryInv
BY DEF Hist!Init, HistoryInv

\* a row of a capture
LEMMA NewRow ==
  ASSUME NEW p \in Paths, NEW origin
  PROVE  LET r == Hist!Row(p, origin) IN IsRow(r) /\ r.path = p /\ r.content = cache[p]
BY DEF Hist!Row, IsRow

LEMMA Restored ==
  ASSUME HistoryInv, NEW v \in versions, NEW target \in Paths, Hist!Restore(v, target)
  PROVE  /\ cache' = [p \in Paths |-> cache'[p]]
         /\ cache'[target] = v.content
         /\ \A r \in versions' : IsRow(r)
         /\ versions \subseteq versions'
         /\ \A p \in Paths : cache[p] # None /\ cache'[p] # cache[p]
              => \E r \in versions' : r.path = p /\ r.content = cache[p]
<1>1. /\ cache' = [cache EXCEPT ![target] = v.content]
      /\ versions' = IF cache[target] = None THEN versions
                     ELSE versions \cup {Hist!Row(target, "restore")}
      /\ cache = [p \in Paths |-> cache[p]] /\ \A r \in versions : IsRow(r)
  BY DEF Hist!Restore, HistoryInv
<1>2. PICK r : r = Hist!Row(target, "restore") /\ IsRow(r) /\ r.path = target /\ r.content = cache[target]
  BY NewRow
<1>3. versions' = IF cache[target] = None THEN versions ELSE versions \cup {r}
  BY <1>1, <1>2, Zenon
<1> QED
  BY <1>1, <1>2, <1>3

LEMMA HistoryIsWritten ==
  ASSUME HistoryInv, NEW p \in Paths, Hist!Pull(p) \/ Hist!PullDeletion(p)
  PROVE  HistoryInv' /\ Hist!RestoresAreSafe
<1>1. /\ versions' = versions \cup {Hist!Row(p, "server")}
      /\ \E c : cache' = [cache EXCEPT ![p] = c]
      /\ UNCHANGED <<list, confirm, picked, shown, asked, restored>>
  BY DEF Hist!Pull, Hist!PullDeletion
<1>2. PICK r : r = Hist!Row(p, "server") /\ IsRow(r)
  BY NewRow
<1>3. versions' = versions \cup {r}
  BY <1>1, <1>2
<1>4. \A x \in versions' : IsRow(x)
  BY <1>2, <1>3 DEF HistoryInv
<1>5. cache' = [x \in Paths |-> cache'[x]]
  BY <1>1 DEF HistoryInv
<1>6. HistoryInv'
  BY <1>1, <1>4, <1>5 DEF HistoryInv
<1>7. Hist!RestoresAreSafe
  <2>1. ~Hist!Confirmed
    BY <1>1 DEF Hist!Confirmed
  <2> QED
    BY <1>1, <1>3, <2>1 DEF Hist!RestoresAreSafe, Hist!NamedIsRestored, Hist!CanBeUndone, Hist!PinsHold
<1> QED
  BY <1>6, <1>7

LEMMA ConfirmIsSafe ==
  ASSUME HistoryInv, Hist!Confirm PROVE HistoryInv' /\ Hist!RestoresAreSafe
<1>1. PICK v \in Hist!Version(confirm.version.id) : Hist!Restore(v, confirm.path)
  BY DEF Hist!Confirm
<1>2. /\ confirm # Hist!Nothing /\ confirm' = Hist!Nothing
      /\ UNCHANGED <<picked, shown, asked, restored>>
  BY DEF Hist!Confirm
<1>3. v \in versions /\ v.id = confirm.version.id /\ confirm.path \in Paths
  BY <1>1, <1>2 DEF Hist!Version, HistoryInv
<1>4. /\ cache' = [p \in Paths |-> cache'[p]]
      /\ cache'[confirm.path] = v.content
      /\ \A r \in versions' : IsRow(r)
      /\ versions \subseteq versions'
      /\ \A p \in Paths : cache[p] # None /\ cache'[p] # cache[p]
           => \E r \in versions' : r.path = p /\ r.content = cache[p]
  BY <1>1, <1>3, Restored
<1>5. HistoryInv'
  BY <1>2, <1>4 DEF HistoryInv
<1>6. v.content = confirm.version.content \/ Hist!Reused(confirm.version)
  BY <1>1 DEF Hist!Reused
<1> QED
  BY <1>2, <1>4, <1>5, <1>6
     DEF Hist!RestoresAreSafe, Hist!NamedIsRestored, Hist!CanBeUndone, Hist!PinsHold

LEMMA TimelineIsSafe ==
  ASSUME HistoryInv, NEW v \in shown, Hist!RestoreFromTimeline(v)
  PROVE  HistoryInv' /\ Hist!RestoresAreSafe
<1>1. PICK r \in Hist!Version(v.id) : Hist!Restore(r, r.path)
  BY DEF Hist!RestoreFromTimeline
<1>2. restored' = v.id /\ asked' = picked /\ UNCHANGED <<list, confirm, picked, shown>>
  BY DEF Hist!RestoreFromTimeline
<1>3. r \in versions /\ r.id = v.id /\ r.path \in Paths
  BY <1>1 DEF Hist!Version, HistoryInv, IsRow
<1>4. /\ cache' = [p \in Paths |-> cache'[p]]
      /\ cache'[r.path] = r.content
      /\ \A x \in versions' : IsRow(x)
      /\ versions \subseteq versions'
      /\ \A p \in Paths : cache[p] # None /\ cache'[p] # cache[p]
           => \E x \in versions' : x.path = p /\ x.content = cache[p]
  BY <1>1, <1>3, Restored
<1>5. HistoryInv'
  BY <1>2, <1>4 DEF HistoryInv
<1>6. \/ cache'[picked] = v.content \/ Hist!Reused(v)
      \/ v.path # picked /\ asked = picked
  <2>1. CASE r.path # v.path \/ r.content # v.content
    BY <1>1, <2>1 DEF Hist!Reused
  <2>2. CASE r.path = v.path /\ r.content = v.content
    BY <1>4, <2>2 DEF HistoryInv
  <2> QED
    BY <2>1, <2>2
<1>7. ~Hist!Confirmed
  BY <1>2 DEF Hist!Confirmed
<1> QED
  BY <1>2, <1>4, <1>5, <1>6, <1>7
     DEF Hist!RestoresAreSafe, Hist!NamedIsRestored, Hist!CanBeUndone, Hist!PinsHold

\* what the pages do besides
LEMMA PagesAreSafe ==
  ASSUME HistoryInv,
         \/ Hist!Load \/ Hist!Cancel \/ Hist!Answer \/ \E p \in Paths : Hist!Pick(p)
         \/ \E v \in list : Hist!Ask(v) \/ Hist!Delete(v) \/ Hist!Pin(v)
  PROVE  HistoryInv' /\ Hist!RestoresAreSafe
<1>1. UNCHANGED <<cache, restored>> /\ ~Hist!Confirmed
  BY DEF Hist!Load, Hist!Cancel, Hist!Answer, Hist!Pick, Hist!Ask, Hist!Delete, Hist!Pin,
         Hist!Confirmed, Hist!Nothing
<1>2. (\A r \in versions' : IsRow(r)) /\ Hist!PinsHold
  <2>1. CASE UNCHANGED versions
    BY <2>1 DEF HistoryInv, Hist!PinsHold
  <2>2. ASSUME NEW v \in list, Hist!Delete(v)
        PROVE  (\A r \in versions' : IsRow(r)) /\ Hist!PinsHold
    <3>1. /\ versions' = versions \ Hist!Version(v.id)
          /\ \A r \in Hist!Version(v.id) : ~r.pinned
      BY <2>2 DEF Hist!Delete
    <3> QED
      BY <3>1 DEF HistoryInv, Hist!PinsHold
  <2>3. ASSUME NEW v \in list, Hist!Pin(v)
        PROVE  (\A r \in versions' : IsRow(r)) /\ Hist!PinsHold
    <3>1. PICK b \in BOOLEAN : b = ~v.pinned
      OBVIOUS
    <3>2. versions' = {IF r.id = v.id THEN [r EXCEPT !.pinned = b] ELSE r : r \in versions}
      BY <2>3, <3>1 DEF Hist!Pin
    <3>3. ASSUME NEW r \in versions
          PROVE  LET s == IF r.id = v.id THEN [r EXCEPT !.pinned = b] ELSE r
                 IN  IsRow(s) /\ s.id = r.id
      BY DEF HistoryInv, IsRow
    <3> QED
      BY <3>2, <3>3 DEF Hist!PinsHold
  <2> QED
    BY <2>1, <2>2, <2>3 DEF Hist!Load, Hist!Cancel, Hist!Answer, Hist!Pick, Hist!Ask
<1>3. confirm' = Hist!Nothing \/ confirm'.path \in Paths
  BY DEF HistoryInv, Hist!Load, Hist!Cancel, Hist!Answer, Hist!Pick, Hist!Ask, Hist!Delete, Hist!Pin
<1>4. /\ asked' \in {None, picked'}
      /\ asked' = picked' \/ \A v \in shown' : v.path = picked'
  <2>1. CASE Hist!Answer
    <3>1. asked' = None /\ picked' = picked /\ asked = picked /\ shown' = Hist!Of(asked)
      BY <2>1 DEF HistoryInv, Hist!Answer
    <3> QED
      BY <3>1 DEF Hist!Of
  <2>2. CASE \E p \in Paths : Hist!Pick(p)
    BY <2>2 DEF Hist!Pick
  <2>3. CASE UNCHANGED <<asked, picked, shown>>
    BY <2>3 DEF HistoryInv
  <2> QED
    BY <2>1, <2>2, <2>3 DEF Hist!Load, Hist!Cancel, Hist!Ask, Hist!Delete, Hist!Pin
<1>5. HistoryInv'
  BY <1>1, <1>2, <1>3, <1>4 DEF HistoryInv
<1> QED
  BY <1>1, <1>2, <1>5 DEF Hist!RestoresAreSafe, Hist!NamedIsRestored, Hist!CanBeUndone

LEMMA HistoryNext ==
  ASSUME HistoryInv, [Hist!Next]_(Hist!historyVars)
  PROVE  HistoryInv' /\ [Hist!RestoresAreSafe]_(Hist!historyVars)
<1>1. CASE UNCHANGED Hist!historyVars
  BY <1>1 DEF Hist!historyVars, HistoryInv
<1> QED
  BY <1>1, HistoryIsWritten, ConfirmIsSafe, TimelineIsSafe, PagesAreSafe DEF Hist!Next

(* Whatever is pulled, deleted, pinned and restored while the pages show   *)
(* what they were last given: a restore puts the content that its question *)
(* named where it was named, unless the row was given out again or the     *)
(* timeline waits; what it overwrote can be had back; and a pinned version *)
(* stays.                                                                  *)
THEOREM RestoresStaySafe == Hist!Spec => [][Hist!RestoresAreSafe]_(Hist!historyVars)
  BY HistoryBegins, HistoryNext, PTL DEF Hist!Spec
-----------------------------------------------------------------------------
(* What the run checks.  A step of the appliance is one of the part that   *)
(* moves, and leaves the others as they were.                              *)

LEMMA HelperMoves == [MCNext]_mcvars => [Help!Next]_(Help!vars)
BY DEF MCNext, mcvars, helperVars, Help!vars
LEMMA SchedulesMove == [MCNext]_mcvars => [Sch!Next]_(Sch!schedulerVars)
BY DEF MCNext, mcvars, scheduleVars, Sch!schedulerVars

(* Whatever else the appliance does, its helper puts in force what has been *)
(* checked only, and leaves no secret behind.                              *)
THEOREM HelperStaysCareful == MCSpec => []HelperIsCareful
<1>1. MCInit => Help!Init
  BY DEF MCInit
<1>2. MCSpec => Help!Spec
  BY <1>1, HelperMoves, PTL DEF MCSpec, Help!Spec
<1>3. Help!HelperIsCareful => HelperIsCareful
  BY DEF HelperIsCareful
<1> QED
  BY <1>2, <1>3, HelperHolds, PTL

THEOREM RoutesStayRuled == MCSpec => RulesBeforeRoutes
<1>1. MCInit => Help!Init
  BY DEF MCInit
<1>2. MCSpec => Help!Spec
  BY <1>1, HelperMoves, PTL DEF MCSpec, Help!Spec
<1> QED
  BY <1>2, RoutesFollowRules, PTL DEF RulesBeforeRoutes

THEOREM SchedulesStayRight == MCSpec => []SchedulesHold
<1>1. MCInit => Sch!Init
  BY DEF MCInit
<1>2. MCSpec => Sch!Spec
  BY <1>1, SchedulesMove, PTL DEF MCSpec, Sch!Spec
<1>3. Sch!SchedulesHold => SchedulesHold
  BY DEF SchedulesHold
<1> QED
  BY <1>2, <1>3, SettingAssumption, SchedulesAreRight, PTL

LEMMA UpdatesMove == [MCNext]_mcvars => [Upd!Next]_(Upd!updateVars)
BY DEF MCNext, mcvars, updateVars, Upd!updateVars
LEMMA PackagesMove == [MCNext]_mcvars => [OsUp!Next]_(OsUp!osVars)
BY DEF MCNext, mcvars, osVars, OsUp!osVars

(* Whatever is published, fails and is cut short: an update ends on a      *)
(* release that runs and is on record once, and no run of apt is let in    *)
(* beside another.                                                         *)
THEOREM UpdatesStayRight == MCSpec => []UpdatesEndWell
<1>1. MCInit => Upd!Init /\ OsUp!Init
  BY DEF MCInit
<1>2. MCSpec => []Upd!UpdatesEndWell
  BY <1>1, UpdatesMove, SettingAssumption, UpdatesHold, PTL DEF MCSpec
<1>3. MCSpec => OsUp!Spec
  BY <1>1, PackagesMove, PTL DEF MCSpec, OsUp!Spec
<1>4. Upd!UpdatesEndWell /\ OsUp!RestMeansRest => UpdatesEndWell
  BY DEF UpdatesEndWell
<1> QED
  BY <1>2, <1>3, <1>4, MarkersAssumption, RestHolds, PTL

LEMMA NetworkMoves == [MCNext]_mcvars => [Net!Next]_(Net!networkVars)
BY DEF MCNext, mcvars, networkVars, Net!networkVars
LEMMA CertificateMoves == [MCNext]_mcvars => [Cert!Next]_(Cert!vars)
BY DEF MCNext, mcvars, certVars, Cert!vars
LEMMA SignInMoves == [MCNext]_mcvars => [Sign!Next]_(Sign!vars)
BY DEF MCNext, mcvars, authVars, Sign!vars
LEMMA LimiterMoves == [MCNext]_mcvars => [Rate!Next]_(Rate!vars)
BY DEF MCNext, mcvars, limiterVars, Rate!vars
LEMMA TestMoves == [MCNext]_mcvars => [Test!TesterNext]_(Test!testerVars)
BY DEF MCNext, mcvars, testVars, Test!testerVars
LEMMA FilesMove == [MCNext]_mcvars => [File!FilesNext]_(File!filesVars)
BY DEF MCNext, mcvars, filesVars, File!filesVars
LEMMA AddressesMove == [MCNext]_mcvars => [Dhc!DhcpNext]_(Dhc!dhcpVars)
BY DEF MCNext, mcvars, dhcpVars, Dhc!dhcpVars

(* The way to the interface stays right: an apply that cuts its caller off *)
(* is undone; the listener starts again with what it serves; a session     *)
(* that is let in was opened with the password in force; the limit is      *)
(* exact; and what the pages say of a server, a file and an address is so. *)
THEOREM InterfaceStaysSafe == MCSpec => []InterfaceIsSafe
<1>1. MCInit => /\ Net!Init /\ Cert!Init /\ Sign!Init /\ Rate!Init
                /\ Test!TesterInit /\ File!FilesInit /\ Dhc!DhcpInit
  BY DEF MCInit
<1>2. MCSpec => []Net!NetworkIsSafe
  BY <1>1, NetworkMoves, SettingAssumption, NetworkHolds, PTL DEF MCSpec, Net!Spec
<1>3. MCSpec => [](Cert!ServedIsStored /\ Cert!StartsAgain /\ Cert!NamesItself)
  BY <1>1, CertificateMoves, MarkersAssumption, CertificateHolds, PTL DEF MCSpec, Cert!Spec
<1>4. MCSpec => []Sign!SignInIsSafe
  BY <1>1, SignInMoves, SettingAssumption, SigningInIsSafe, PTL DEF MCSpec, Sign!Spec
<1>5. MCSpec => []Rate!LimitIsExact
  BY <1>1, LimiterMoves, SettingAssumption, TheLimitHolds, PTL DEF MCSpec
<1>6. MCSpec => []Test!TestsAreTrue
  BY <1>1, TestMoves, MarkersAssumption, TestsHold, PTL DEF MCSpec, Test!TesterSpec
<1>7. MCSpec => []File!FilesAreTrue
  BY <1>1, FilesMove, FilesHold, PTL DEF MCSpec, File!FilesSpec
<1>8. MCSpec => []Dhc!AddressesHold
  BY <1>1, AddressesMove, AddressesStay, PTL DEF MCSpec
<1>9. ASSUME Net!NetworkIsSafe,
             Cert!ServedIsStored, Cert!StartsAgain, Cert!NamesItself,
             Sign!SignInIsSafe, Rate!LimitIsExact, Test!TestsAreTrue,
             File!FilesAreTrue, Dhc!AddressesHold
      PROVE  InterfaceIsSafe
  BY <1>9 DEF InterfaceIsSafe
<1> QED
  BY <1>2, <1>3, <1>4, <1>5, <1>6, <1>7, <1>8, <1>9, PTL

LEMMA ConfigMoves == [MCNext]_mcvars => [Conf!Next]_(Conf!vars)
BY DEF MCNext, mcvars, configVars, Conf!vars, Conf!store, Conf!pages, Conf!ears
LEMMA HistoryMoves == [MCNext]_mcvars => [Hist!Next]_(Hist!historyVars)
BY DEF MCNext, mcvars, historyVars, Hist!historyVars
LEMMA DocumentMoves == [MCNext]_mcvars => [Back!DocumentNext]_(Back!documentVars)
BY DEF MCNext, mcvars, documentVars, Back!documentVars
LEMMA CopiesMove == [MCNext]_mcvars => [Back!CopiesNext]_(Back!copyVars)
BY DEF MCNext, mcvars, copyVars, Back!copyVars

(* What is set stays set: a stored setting, the certificate of a site, a   *)
(* file of which there are old versions, the secrets that no document      *)
(* carries and the last whole copy of the database change by nothing but   *)
(* the step that was meant to change them, wherever the service was killed *)
(* or its release changed.                                                 *)
THEOREM SettingsStay == MCSpec => SettingsHold
<1>1. MCInit => Conf!Init /\ Cert!Init /\ Hist!Init /\ Back!DocumentInit /\ Back!CopyInit
  BY DEF MCInit
<1>2. MCSpec => [][Conf!EditsStand /\ Conf!NothingFallsBack' /\ Conf!SubscribersAreCurrent']_configVars
  <2>1. UNCHANGED Conf!vars => UNCHANGED configVars
    BY DEF configVars, Conf!vars, Conf!store, Conf!pages, Conf!ears
  <2> QED
    BY <1>1, <2>1, ConfigMoves, MarkersAssumption, ConfigHolds, PTL DEF MCSpec, Conf!Spec
<1>3. MCSpec => [][Cert!ReplacedOnPurpose]_certVars
  <2>1. UNCHANGED Cert!vars => UNCHANGED certVars
    BY DEF certVars, Cert!vars
  <2> QED
    BY <1>1, <2>1, CertificateMoves, MarkersAssumption, ReplacementsAreMeant, PTL DEF MCSpec, Cert!Spec
<1>4. MCSpec => [][Hist!RestoresAreSafe]_historyVars
  <2>1. UNCHANGED Hist!historyVars => UNCHANGED historyVars
    BY DEF historyVars, Hist!historyVars
  <2> QED
    BY <1>1, <2>1, HistoryMoves, RestoresStaySafe, PTL DEF MCSpec, Hist!Spec
<1>5. MCSpec => [][Back!ImportsAreHonest' /\ Back!SecretsStay']_documentVars
  BY <1>1, DocumentMoves, ImportsStayHonest, PTL DEF MCSpec
<1>6. MCSpec => [][Back!LastBackupStays' /\ Back!DirectoryIsBounded']_copyVars
  BY <1>1, CopiesMove, SettingAssumption, CopiesLast, PTL DEF MCSpec
<1> QED
  BY <1>2, <1>3, <1>4, <1>5, <1>6 DEF SettingsHold
=============================================================================
