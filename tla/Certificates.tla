----------------------------- MODULE Certificates -----------------------------
(***************************************************************************)
(* The certificate of the management interface: the one the listener       *)
(* serves, the three files it is started from, and what replaces it: the   *)
(* operator, and the appliance itself when its names have changed.         *)
(*                                                                         *)
(* A certificate is the names it carries, its subject and whether it is    *)
(* signed by itself; its key has its serial.  Files are written one after  *)
(* the other with nothing between but a failure or the end of the process. *)
(***************************************************************************)
EXTENDS Naturals

CONSTANTS None, Torn,              \* no file; one that was not written to its end
          Hosts, Addresses,
          MaxChanges, MaxBreaks    \* bounds

VARIABLES
  host, address,   \* of the machine
  wanted,          \* security.certificateName; None when it is empty
  up,              \* "down", "ensuring", "up", or "failed" when it cannot be started
  live,            \* what the listener serves
  disk,            \* cert.pem, key.pem and chain.pem
  saving,          \* a save in progress: what, how far, on whose behalf
  due,             \* a reissue that is called next, with its extra names
  serial,
  broken,          \* a save has been cut off since the files were last written whole
  changes, breaks

vars == <<host, address, wanted, up, live, disk, saving, due, serial, broken, changes, breaks>>
bounds == <<changes, breaks>>

Files == {"cert", "key", "chain"}
Steps == <<"cert", "key", "chain">>
NoMaterial == [cert |-> None, key |-> None, chain |-> None]
Idle == up = "up" /\ saving = None /\ due = None

\* the key of a certificate is told by its serial, and a chain by the leaf it is for
Pair(certificate, chained) ==
    [cert |-> certificate, key |-> certificate.serial,
     chain |-> IF chained THEN certificate.serial ELSE None]
Loads(material) ==
    material.cert \notin {None, Torn} /\ material.key = material.cert.serial
\* a key file that is missing is as good as none of the three
Present == disk.cert # None /\ disk.key # None

-----------------------------------------------------------------------------
(* The names it should speak for, and the one it is issued to.             *)
CommonName == IF wanted # None THEN wanted ELSE host
Sans(extras) == {CommonName, host} \union extras

\* the interfaces are read as they are at that moment
SelfSigned(names) ==
    [serial |-> serial + 1, subject |-> CommonName, own |-> TRUE, by |-> "appliance",
     names |-> names \union {CommonName, address}]

CoveredByNames(certificate, extras) == Sans(extras) \subseteq certificate.names
Covered(certificate, extras) ==
    certificate.subject = CommonName /\ Sans(extras) \subseteq certificate.names

Carried(certificate, extras) == Sans(extras)
CarriedOver(certificate, extras) == Sans(extras) \union certificate.names

-----------------------------------------------------------------------------
Init ==
    /\ host \in Hosts /\ address \in Addresses /\ wanted = None
    /\ up = "down" /\ live = NoMaterial /\ disk = NoMaterial
    /\ saving = None /\ due = None /\ serial = 0 /\ broken = FALSE
    /\ changes = 0 /\ breaks = 0

Save(material, who) == saving' = [material |-> material, at |-> 1, who |-> who]

\* the listener is made of what was loaded; a pair that does not load ends the start
Serve(material) ==
    IF Loads(material)
    THEN up' = "up" /\ live' = material /\ due' = {}
    ELSE up' = "failed" /\ UNCHANGED <<live, due>>

Start ==
    /\ up = "down"
    /\ IF Present
       THEN Serve(disk) /\ UNCHANGED <<saving, serial>>
       ELSE /\ up' = "ensuring"
            /\ serial' = serial + 1
            /\ Save(Pair(SelfSigned({}), FALSE), "start")
            /\ UNCHANGED <<live, due>>
    /\ UNCHANGED <<host, address, wanted, disk, broken, bounds>>

WriteFileKeepsChain ==
    /\ saving # None /\ saving.at \in DOMAIN Steps
    /\ disk' = [disk EXCEPT ![Steps[saving.at]] =
                  IF saving.material[Steps[saving.at]] = None THEN @ ELSE saving.material[Steps[saving.at]]]
    /\ saving' = [saving EXCEPT !.at = @ + 1]
    /\ UNCHANGED <<host, address, wanted, up, live, due, serial, broken, bounds>>
\* one file after the other; a chain that is not sent is removed
WriteFile ==
    /\ saving # None /\ saving.at \in DOMAIN Steps
    /\ disk' = [disk EXCEPT ![Steps[saving.at]] = saving.material[Steps[saving.at]]]
    /\ saving' = [saving EXCEPT !.at = @ + 1]
    /\ UNCHANGED <<host, address, wanted, up, live, due, serial, broken, bounds>>

Saved ==
    /\ saving # None /\ saving.at \notin DOMAIN Steps
    /\ saving' = None /\ broken' = FALSE
    /\ IF up = "ensuring" THEN Serve(saving.material) ELSE UNCHANGED <<up, live, due>>
    /\ UNCHANGED <<host, address, wanted, disk, serial, bounds>>

\* the disk is full: the file is cut short and the caller is told, over a listener
\* that already serves the new certificate
SaveFails ==
    /\ saving # None /\ saving.at \in DOMAIN Steps /\ breaks < MaxBreaks
    /\ breaks' = breaks + 1
    /\ disk' \in {disk, [disk EXCEPT ![Steps[saving.at]] = Torn]}
    /\ saving' = None /\ broken' = TRUE
    /\ up' = IF up = "ensuring" THEN "down" ELSE up
    /\ UNCHANGED <<host, address, wanted, live, due, serial, changes>>

End ==
    /\ up \in {"up", "ensuring"} /\ breaks < MaxBreaks
    /\ breaks' = breaks + 1
    /\ up' = "down" /\ live' = NoMaterial /\ due' = None /\ saving' = None
    /\ IF saving # None /\ saving.at \in DOMAIN Steps
       THEN /\ disk' \in {disk, [disk EXCEPT ![Steps[saving.at]] = Torn]}
            /\ broken' = TRUE
       ELSE UNCHANGED <<disk, broken>>
    /\ UNCHANGED <<host, address, wanted, serial, changes>>

-----------------------------------------------------------------------------
InstallPersistsFirst(material, sound, who) ==
    /\ IF sound THEN Save(material, who) ELSE UNCHANGED saving
    /\ IF sound /\ Loads(material) THEN live' = material ELSE UNCHANGED live
    /\ serial' = serial + 1
\* validate, then hot-swap, then persist
Install(material, sound, who) ==
    /\ IF sound /\ Loads(material)
       THEN live' = material /\ Save(material, who)
       ELSE UNCHANGED <<live, saving>>
    /\ serial' = serial + 1

ReissueAnything ==
    /\ up = "up" /\ saving = None /\ due # None
    /\ due' = None
    /\ IF disk.cert \in {None, Torn} \/ Covered(disk.cert, due)
       THEN UNCHANGED <<live, saving, serial>>
       ELSE Install(Pair(SelfSigned(CarriedOver(disk.cert, due)), FALSE), TRUE, "reissue")
    /\ UNCHANGED <<host, address, wanted, up, disk, broken, bounds>>
\* at the start, after a rename and when the section is saved; it goes by the file
Reissue ==
    /\ up = "up" /\ saving = None /\ due # None
    /\ due' = None
    /\ IF disk.cert \in {None, Torn} \/ ~disk.cert.own \/ Covered(disk.cert, due)
       THEN UNCHANGED <<live, saving, serial>>
       ELSE Install(Pair(SelfSigned(CarriedOver(disk.cert, due)), FALSE), TRUE, "reissue")
    /\ UNCHANGED <<host, address, wanted, up, disk, broken, bounds>>

Changes == changes < MaxChanges /\ changes' = changes + 1

\* the address has been applied with the name, and may be reverted on its own
Rename(h, a) ==
    /\ Idle /\ Changes /\ h # host
    /\ host' = h /\ address' \in {address, a} /\ due' = {a}
    /\ UNCHANGED <<wanted, up, live, disk, saving, serial, broken, breaks>>
AddressMoves(a) ==
    /\ Changes /\ address' = a /\ a # address
    /\ UNCHANGED <<host, wanted, up, live, disk, saving, due, serial, broken, breaks>>

SaveName(name) ==
    /\ Idle /\ Changes /\ name # wanted
    /\ wanted' = name /\ due' = {}
    /\ UNCHANGED <<host, address, up, live, disk, saving, serial, broken, breaks>>

\* a pair the schema lets through may be expired, of another key, or refused by TLS
Upload(own, chained, kind) ==
    LET certificate == [serial |-> serial + 1, subject |-> "elsewhere", own |-> own,
                        by |-> "operator", names |-> {"elsewhere"}]
        pair == Pair(certificate, chained)
    IN
      /\ Idle /\ Changes
      /\ Install(IF kind = "refused" THEN [pair EXCEPT !.key = 0] ELSE pair, kind # "invalid", "upload")
      /\ UNCHANGED <<host, address, wanted, up, disk, due, broken, breaks>>

Regenerate(extras) ==
    /\ Idle /\ Changes
    /\ Install(Pair(SelfSigned(Sans(extras)), FALSE), TRUE, "regenerate")
    /\ UNCHANGED <<host, address, wanted, up, disk, due, broken, breaks>>

Next ==
    \/ Start \/ WriteFile \/ Saved \/ SaveFails \/ End \/ Reissue
    \/ \E h \in Hosts, a \in Addresses : Rename(h, a)
    \/ \E a \in Addresses : AddressMoves(a)
    \/ \E name \in {None, "published"} : SaveName(name)
    \/ \E own, chained \in BOOLEAN, kind \in {"sound", "invalid", "refused"} : Upload(own, chained, kind)
    \/ \E extras \in {{}, {"extra"}} : Regenerate(extras)

Spec == Init /\ [][Next]_vars

-----------------------------------------------------------------------------
Names == Hosts \union Addresses \union {"published", "extra", "elsewhere"}
Issued == {c \in [serial : Nat, subject : Names, own : BOOLEAN, by : {"appliance", "operator"},
                  names : SUBSET Names] : c.by = "appliance" => c.own}
Materials == [cert : Issued \union {None, Torn}, key : Nat \union {None, Torn},
              chain : Nat \union {None, Torn}]
Saves == [material : Materials, at : Nat, who : {"start", "upload", "regenerate", "reissue"}]

\* what the constants are asked for: a marker is none of what it marks the absence of
MarkersAreApart ==
    /\ None # Torn /\ None \notin Issued /\ Torn \notin Issued /\ None \notin Nat
    /\ None \notin Saves /\ \A extras \in SUBSET Names : None # extras

CertificateTypeOK ==
    /\ up \in {"down", "ensuring", "up", "failed"}
    /\ up = "up" <=> live # NoMaterial
    /\ saving # None => up \in {"ensuring", "up"}

(* What the listener serves is what it will be started from, the chain     *)
(* included, unless a save was cut off; and nothing else keeps it from     *)
(* starting again.                                                         *)
ServedIsStored == (Idle /\ ~broken) => live = disk
StartsAgain == up = "failed" => broken

(* A certificate the appliance made is issued to the name it is to have    *)
(* and speaks for its host, over renames, saves of the name and restarts.  *)
NamesItself ==
    (Idle /\ ~broken /\ live.cert.by = "appliance") =>
        live.cert.subject = CommonName /\ {CommonName, host} \subseteq live.cert.names

(* A certificate that a site has had signed is replaced by the operator    *)
(* only; and when the appliance replaces its own, no name is lost, so that *)
(* the address an apply is reverted to is still answered for.              *)
ReplacedOnPurpose ==
    /\ (disk.cert \notin {None, Torn} /\ disk'.cert # disk.cert /\ saving # None /\ ~disk.cert.own)
         => saving.who \in {"upload", "regenerate"}
    /\ (saving = None /\ saving' # None /\ saving'.who = "reissue")
         => disk.cert.names \subseteq live'.cert.names
=============================================================================
