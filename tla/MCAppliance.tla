----------------------------- MODULE MCAppliance -----------------------------
(***************************************************************************)
(* The parts that change the appliance itself and talk through files, rows *)
(* and the answers of the helper.  They share no variable here: one of     *)
(* them moves in a behaviour, focus, and the others stay as they began.    *)
(***************************************************************************)
EXTENDS Naturals, Sequences

CONSTANTS None, NoRow, NoRequest, Sentinel, Torn, Blank, NoShare

\* what each of them is checked for, and how often the world does what it does to it
CONSTANTS MaxHelperRequests, MaxHelperMishaps
CONSTANTS Width, MaxNetworkSaves, MaxNetworkFaults, MaxLinks
CONSTANTS ScheduleIds, Managed, CatchupGrace, MaxScheduleTime, MaxScheduleEdits, MaxRuns,
          MaxScheduleStarts
CONSTANTS Versions, NoTag, MaxUpdateRequests, MaxUpdateFaults, MaxUpdateCuts
CONSTANTS MaxOsRuns, MaxOsFaults, MaxBoots
CONSTANTS Windows, LastRelease, MaxConfigEdits, MaxOpens, MaxConfigStarts, MaxThrows, MaxSwitches
CONSTANTS Hosts, HostAddresses, MaxCertChanges, MaxBreaks
CONSTANTS Tabs, MaxSessions, IdleTime, LifeTime, LoginWindow, MaxFailures, MaxSignTime,
          MaxPasswords, MaxEnds
CONSTANTS WindowMs, Limit, MaxRateTime, MaxHits
CONSTANTS Paths, Texts, MaxHistoryWrites, MaxLoads, MaxClicks
CONSTANTS MaxServerFaults, MaxFieldEdits, MaxPresses
CONSTANTS MaxFileWrites, MaxFileRequests, MaxLists
CONSTANTS Machines, Leasable, MaxDhcpChanges, MaxLeases
CONSTANTS OptionSections, Keep, MaxOptionEdits, MaxImports, MaxCopyTime, MaxCopyCuts

VARIABLE focus   \* never changes

VARIABLES sys, request, program, at, thrown, log, record, killed, requests, failures, kills
VARIABLES config, profile, clone, onClone, armed, pending, stored, link, via, seat,
          answer, saves, faults, links, cloneLost, fired
VARIABLES rows, when, phase, fires, runs, missed, catching, clock, due, caught, edits, starts
VARIABLES published, sick, channel, automatic, m, running, tree, file, script, history,
          updateRequests, updateFaults, cuts
VARIABLES osPhase, osFile, osScript, autoReboot, osResults, osRuns, osFaults, boots
VARIABLES release, up, schema, table, form, control, told, deaf, rolledBack, configEdits, opens,
          configStarts, throws, switches
VARIABLES host, address, wanted, listener, live, disk, saving, reissue, serial, broken, changes, breaks
VARIABLES password, given, opened, completed, sessions, authClock, attempts, jar, tabs, jobs,
          cut, ends
VARIABLES now, hits, granted, verdict
VARIABLES cache, versions, list, confirm, picked, shown, asked, restored, pageUse
VARIABLES faultsOfServer, fields, row, probe, tested, litter, turns, fieldEdits, presses
VARIABLES held, index, filter, queries, page, chosen, previewed, transfers, preview, saved,
          writes, sent, lists
VARIABLES settings, clients, leases, discovered, machines, section, choice, promised, resets,
          leasings
VARIABLES options, document, importing, importReport, optionsBefore, optionEdits, imports
VARIABLES copies, copyJob, good, cutOff, copyClock, copyCuts

Help == INSTANCE Helper WITH MaxRequests <- MaxHelperRequests, MaxMishaps <- MaxHelperMishaps
Net  == INSTANCE NetworkApply WITH MaxSaves <- MaxNetworkSaves, MaxFaults <- MaxNetworkFaults
Sch  == INSTANCE Scheduler WITH Ids <- ScheduleIds, MaxTime <- MaxScheduleTime,
            MaxEdits <- MaxScheduleEdits, MaxStarts <- MaxScheduleStarts
Upd  == INSTANCE Updates WITH MaxRequests <- MaxUpdateRequests, MaxFaults <- MaxUpdateFaults,
            MaxCuts <- MaxUpdateCuts
OsUp == INSTANCE OsUpdates
Conf == INSTANCE ConfigStore WITH MaxEdits <- MaxConfigEdits, MaxStarts <- MaxConfigStarts,
            rows <- table, edits <- configEdits, starts <- configStarts
Cert == INSTANCE Certificates WITH Addresses <- HostAddresses, MaxChanges <- MaxCertChanges,
            up <- listener, due <- reissue
Sign == INSTANCE Auth WITH MaxTime <- MaxSignTime, clock <- authClock, failures <- attempts
Rate == INSTANCE RateLimit WITH MaxTime <- MaxRateTime
Hist == INSTANCE HistoryPages WITH Contents <- Texts, MaxWrites <- MaxHistoryWrites,
            history <- versions, spent <- pageUse
Test == INSTANCE Tester WITH MaxFaults <- MaxServerFaults, MaxEdits <- MaxFieldEdits,
            faults <- faultsOfServer, form <- fields, stored <- row, test <- probe,
            shown <- tested, edits <- fieldEdits
File == INSTANCE FilesPage WITH Absent <- None, MaxWrites <- MaxFileWrites,
            MaxRequests <- MaxFileRequests, cache <- held, asked <- queries, list <- page,
            selected <- chosen, requests <- transfers
Dhc  == INSTANCE Dhcp WITH Addresses <- Leasable, Unset <- None, MaxChanges <- MaxDhcpChanges,
            listed <- machines, page <- section, chosen <- choice, changes <- resets
Back == INSTANCE Backup WITH Sections <- OptionSections, Unset <- None,
            MaxEdits <- MaxOptionEdits, MaxTime <- MaxCopyTime, MaxCuts <- MaxCopyCuts,
            stored <- options, report <- importReport,
            before <- optionsBefore, edits <- optionEdits, files <- copies, clock <- copyClock,
            cuts <- copyCuts, job <- copyJob

ASSUME SettingAssumption == /\ Sch!SettingIsSound /\ Upd!SettingIsSound /\ Sign!SettingIsSound
                            /\ Net!SettingIsSound /\ Rate!BoundsAreSound /\ Back!KeepIsSound
ASSUME MarkersAssumption == /\ Cert!MarkersAreApart /\ OsUp!NoneIsNothing /\ Test!NoShareIsNoForm
                            /\ Conf!MarkersAreApart

helperVars == <<sys, request, program, at, thrown, log, record, killed, requests, failures, kills>>
networkVars == <<config, profile, clone, onClone, armed, pending, stored, link, via, seat,
                 answer, saves, faults, links, cloneLost, fired>>
scheduleVars == <<rows, when, phase, fires, runs, missed, catching, clock, due, caught,
                  edits, starts>>
updateVars == <<published, sick, channel, automatic, m, running, tree, file, script, history,
                updateRequests, updateFaults, cuts>>
osVars == <<osPhase, osFile, osScript, autoReboot, osResults, osRuns, osFaults, boots>>
configVars == <<release, up, schema, table, form, control, told, deaf, rolledBack, configEdits,
                opens, configStarts, throws, switches>>
certVars == <<host, address, wanted, listener, live, disk, saving, reissue, serial, broken, changes, breaks>>
authVars == <<password, given, opened, completed, sessions, authClock, attempts, jar, tabs,
              jobs, cut, ends>>
limiterVars == <<now, hits, granted, verdict>>
historyVars == <<cache, versions, list, confirm, picked, shown, asked, restored, pageUse>>
testVars == <<faultsOfServer, fields, row, probe, tested, litter, turns, fieldEdits, presses>>
filesVars == <<held, index, filter, queries, page, chosen, previewed, transfers, preview,
               saved, writes, sent, lists>>
dhcpVars == <<settings, clients, leases, discovered, machines, section, choice, promised,
              resets, leasings>>
documentVars == <<options, document, importing, importReport, optionsBefore, optionEdits,
                  imports>>
copyVars == <<copies, copyJob, good, cutOff, copyClock, copyCuts>>

-----------------------------------------------------------------------------
\* a part that does not move begins in one state only
HelperRests == sys = Help!FirstSys
NetworkRests == via = "loopback" /\ seat = "lan"
SchedulerRests == clock = 1 /\ \A id \in ScheduleIds \ {Managed} : rows[id] = NoRow
UpdatesRest == published = {} /\ sick = {} /\ channel = "stable" /\ automatic = FALSE
OsUpdatesRest == autoReboot = FALSE
CertificateRests == host = (CHOOSE h \in Hosts : TRUE) /\ address = (CHOOSE a \in HostAddresses : TRUE)

MCInit ==
    /\ focus \in {"helper", "network", "scheduler", "updates", "packages", "config",
                  "certificate", "signin", "limiter", "history", "test", "files", "dhcp", "document", "copies"}
    /\ Help!Init /\ (focus # "helper" => HelperRests)
    /\ Net!Init /\ (focus # "network" => NetworkRests)
    /\ Sch!Init /\ (focus # "scheduler" => SchedulerRests)
    /\ Upd!Init /\ (focus # "updates" => UpdatesRest)
    /\ OsUp!Init /\ (focus # "packages" => OsUpdatesRest)
    /\ Conf!Init /\ (focus # "config" => release = 1)
    /\ Cert!Init /\ (focus # "certificate" => CertificateRests)
    /\ Sign!Init
    /\ Rate!Init
    /\ Hist!Init /\ (focus # "history" => cache = [p \in Paths |-> CHOOSE c \in Texts : TRUE])
    /\ Test!TesterInit
    /\ File!FilesInit
    /\ Dhc!DhcpInit /\ (focus # "dhcp" => clients = {})
    /\ Back!DocumentInit
    /\ Back!CopyInit

MCNext ==
    /\ UNCHANGED focus
    /\ \/ /\ focus = "helper" /\ Help!Next
          /\ UNCHANGED <<networkVars, scheduleVars, updateVars, osVars, configVars, certVars,
                         authVars, limiterVars, historyVars, testVars, filesVars, dhcpVars,
                         documentVars, copyVars>>
       \/ /\ focus = "network" /\ Net!Next
          /\ UNCHANGED <<helperVars, scheduleVars, updateVars, osVars, configVars, certVars,
                         authVars, limiterVars, historyVars, testVars, filesVars, dhcpVars,
                         documentVars, copyVars>>
       \/ /\ focus = "scheduler" /\ Sch!Next
          /\ UNCHANGED <<helperVars, networkVars, updateVars, osVars, configVars, certVars,
                         authVars, limiterVars, historyVars, testVars, filesVars, dhcpVars,
                         documentVars, copyVars>>
       \/ /\ focus = "updates" /\ Upd!Next
          /\ UNCHANGED <<helperVars, networkVars, scheduleVars, osVars, configVars, certVars,
                         authVars, limiterVars, historyVars, testVars, filesVars, dhcpVars,
                         documentVars, copyVars>>
       \/ /\ focus = "packages" /\ OsUp!Next
          /\ UNCHANGED <<helperVars, networkVars, scheduleVars, updateVars, configVars, certVars,
                         authVars, limiterVars, historyVars, testVars, filesVars, dhcpVars,
                         documentVars, copyVars>>
       \/ /\ focus = "config" /\ Conf!Next
          /\ UNCHANGED <<helperVars, networkVars, scheduleVars, updateVars, osVars, certVars,
                         authVars, limiterVars, historyVars, testVars, filesVars, dhcpVars,
                         documentVars, copyVars>>
       \/ /\ focus = "certificate" /\ Cert!Next
          /\ UNCHANGED <<helperVars, networkVars, scheduleVars, updateVars, osVars, configVars,
                         authVars, limiterVars, historyVars, testVars, filesVars, dhcpVars,
                         documentVars, copyVars>>
       \/ /\ focus = "signin" /\ Sign!Next
          /\ UNCHANGED <<helperVars, networkVars, scheduleVars, updateVars, osVars, configVars,
                         certVars, limiterVars, historyVars, testVars, filesVars, dhcpVars,
                         documentVars, copyVars>>
       \/ /\ focus = "limiter" /\ Rate!Next
          /\ UNCHANGED <<helperVars, networkVars, scheduleVars, updateVars, osVars, configVars,
                         certVars, authVars, historyVars, testVars, filesVars, dhcpVars,
                         documentVars, copyVars>>
       \/ /\ focus = "history" /\ Hist!Next
          /\ UNCHANGED <<helperVars, networkVars, scheduleVars, updateVars, osVars, configVars,
                         certVars, authVars, limiterVars, testVars, filesVars, dhcpVars,
                         documentVars, copyVars>>
       \/ /\ focus = "test" /\ Test!TesterNext
          /\ UNCHANGED <<helperVars, networkVars, scheduleVars, updateVars, osVars, configVars,
                         certVars, authVars, limiterVars, historyVars, filesVars, dhcpVars,
                         documentVars, copyVars>>
       \/ /\ focus = "files" /\ File!FilesNext
          /\ UNCHANGED <<helperVars, networkVars, scheduleVars, updateVars, osVars, configVars,
                         certVars, authVars, limiterVars, historyVars, testVars, dhcpVars,
                         documentVars, copyVars>>
       \/ /\ focus = "dhcp" /\ Dhc!DhcpNext
          /\ UNCHANGED <<helperVars, networkVars, scheduleVars, updateVars, osVars, configVars,
                         certVars, authVars, limiterVars, historyVars, testVars, filesVars,
                         documentVars, copyVars>>
       \/ /\ focus = "document" /\ Back!DocumentNext
          /\ UNCHANGED <<helperVars, networkVars, scheduleVars, updateVars, osVars, configVars,
                         certVars, authVars, limiterVars, historyVars, testVars, filesVars,
                         dhcpVars, copyVars>>
       \/ /\ focus = "copies" /\ Back!CopiesNext
          /\ UNCHANGED <<helperVars, networkVars, scheduleVars, updateVars, osVars, configVars,
                         certVars, authVars, limiterVars, historyVars, testVars, filesVars,
                         dhcpVars, documentVars>>

mcvars == <<focus, helperVars, networkVars, scheduleVars, updateVars, osVars, configVars,
            certVars, authVars, limiterVars, historyVars, testVars, filesVars, dhcpVars,
            documentVars, copyVars>>
(* The fairness each of them states for itself.                            *)
MCFairness ==
    /\ WF_updateVars(focus = "updates" /\ Upd!Poll)
    /\ WF_updateVars(focus = "updates" /\ Upd!Script)
    /\ WF_updateVars(focus = "updates" /\ Upd!EndCheck)
MCSpec == MCInit /\ [][MCNext]_mcvars /\ MCFairness

-----------------------------------------------------------------------------
Types ==
    CASE focus = "helper"    -> Help!TypeOK
      [] focus = "network"   -> Net!TypeOK
      [] focus = "scheduler" -> Sch!TypeOK
      [] focus = "updates"   -> Upd!TypeOK
      [] focus = "packages"  -> OsUp!OsTypeOK
      [] focus = "config"    -> Conf!ConfigTypeOK
      [] focus = "certificate" -> Cert!CertificateTypeOK
      [] focus = "signin" -> Sign!AuthTypeOK
      [] focus = "limiter" -> Len(hits) <= 2
      [] focus = "history" -> Hist!HistoryTypeOK
      [] focus = "test" -> Test!TesterTypeOK
      [] focus = "files" -> File!FilesTypeOK
      [] focus = "dhcp" -> Dhc!DhcpTypeOK
      [] focus \in {"document", "copies"} -> Back!BackupTypeOK

(* What the helper puts in force has been checked, and it leaves no secret. *)
HelperIsCareful == focus = "helper" => Help!HelperIsCareful

(* Packets are forwarded only under rules that were written for it.        *)
RulesBeforeRoutes == Help!RulesBeforeRoutes

(* The way to the interface: an apply that cuts its caller off is undone   *)
(* by a timer; the listener can be started again with what it serves,      *)
(* under the name the machine goes by; a session that is let in was opened *)
(* with the password in force; writes are slowed down by their limit; and  *)
(* what its pages say of a file server, and of a file, is so.              *)
InterfaceIsSafe ==
    /\ focus = "network" => Net!NetworkIsSafe
    /\ focus = "certificate" => Cert!ServedIsStored /\ Cert!StartsAgain /\ Cert!NamesItself
    /\ focus = "signin" => Sign!SignInIsSafe
    /\ focus = "limiter" => Rate!LimitIsExact
    /\ focus = "test" => Test!TestsAreTrue
    /\ focus = "files" => File!FilesAreTrue
    /\ focus = "dhcp" => Dhc!AddressesHold

(* Timers, rows and the configuration tell one story; what was missed runs *)
(* once.                                                                   *)
SchedulesHold == focus = "scheduler" => Sch!SchedulesHold

(* An update ends on a release that runs, and is on record once; two runs  *)
(* of apt are never let in side by side.                                   *)
UpdatesEndWell == /\ focus = "updates" => Upd!UpdatesEndWell
                  /\ focus = "packages" => OsUp!RestMeansRest

(* A stored setting changes only by the save it was edited for.  It is     *)
(* always one that the running release understands, over updates and       *)
(* kills, and the parts of the service run on it.  The same goes for the   *)
(* certificate that an operator has installed, and for a file, which only  *)
(* the restore that named it replaces with an old version.  A document of  *)
(* settings does what its import reports, and takes no secret away; the    *)
(* last whole copy of the database stays.                                  *)
SettingsHold ==
    /\ [][Conf!EditsStand /\ Conf!NothingFallsBack' /\ Conf!SubscribersAreCurrent']_configVars
    /\ [][Cert!ReplacedOnPurpose]_certVars
    /\ [][Hist!RestoresAreSafe]_historyVars
    /\ [][Back!ImportsAreHonest' /\ Back!SecretsStay']_documentVars
    /\ [][Back!LastBackupStays' /\ Back!DirectoryIsBounded']_copyVars

(* The page is told that an update is over.                                *)
StatusSettles == focus = "updates" => Upd!StatusSettles
=============================================================================
