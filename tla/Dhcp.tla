--------------------------------- MODULE Dhcp ---------------------------------
(***************************************************************************)
(* The addresses of the machine side: the reservations that the routes of  *)
(* web/routes/dhcp.ts keep, the configuration of dnsmasq built from them   *)
(* (dhcp/dhcp-config-manager.ts), the list of machines made of its leases, *)
(* and the section of the network page that edits the rest.                *)
(*                                                                         *)
(* A range of addresses is what it is worth to the page: the one shipped,  *)
(* the one proposed for a single machine, or one that somebody chose.      *)
(***************************************************************************)
EXTENDS Naturals, FiniteSets, Functions

CONSTANTS Machines, Addresses, Unset,
          MaxChanges, MaxLeases   \* bounds

VARIABLES settings,     \* the section dhcp
          clients,      \* rows of machine_clients
          leases,       \* what dnsmasq has handed out
          discovered,   \* rows of discovered_machines
          listed,       \* the answer of GET /dhcp/machines, until something changes
          page,         \* the section on the network page
          chosen,       \* the range in force is one that a person typed, and not the shipped one
          promised,     \* what was last answered for a hardware address as it was typed
          changes, leasings

dhcpVars == <<settings, clients, leases, discovered, listed, page, chosen, promised, changes, leasings>>

Macs == Machines \X {"lower", "upper"}   \* one adapter, and how its address is spelt
Ranges == {"factory", "single", "own"}
Settings == [enabled : BOOLEAN, range : Ranges, gateway : {Unset, "other"}]
Form(stored) == [form |-> stored, dirty |-> FALSE, saving |-> FALSE, typed |-> FALSE]
NoPage == [form |-> Unset, dirty |-> FALSE, saving |-> FALSE, typed |-> FALSE]

-----------------------------------------------------------------------------
(* The text for dnsmasq, one line for each reservation.                    *)
Reservations == {row \in clients : row.reserved /\ row.ip # Unset}
Lower(mac) == mac[1]
Host(row) == [mac |-> Lower(row.mac), ip |-> row.ip, name |-> row.name]
Gateway == IF settings.gateway = Unset THEN "bridge" ELSE settings.gateway
BuildConfiguration ==
    [interface |-> "machine", range |-> settings.range, router |-> Gateway, dns |-> Unset,
     hosts |-> {Host(row) : row \in Reservations}]

-----------------------------------------------------------------------------
DhcpInit ==
    /\ settings = [enabled |-> FALSE, range |-> "factory", gateway |-> Unset]
    /\ clients \in {{}} \cup {{[mac |-> mac, ip |-> Unset, name |-> Unset, reserved |-> FALSE]} :
                              mac \in Macs}   \* known before reservations were
    /\ leases = <<>> /\ discovered = <<>> /\ listed = Unset
    /\ page = NoPage /\ chosen = FALSE
    /\ promised = [mac \in Macs |-> Unset]
    /\ changes = 0 /\ leasings = 0

Change == changes < MaxChanges /\ changes' = changes + 1

(* POST /dhcp/reserve: without a name the row is called by its address.    *)
RowsOf(mac) == {row \in clients : row.mac = mac}
Kept(mac, ip, name) == [mac |-> mac, ip |-> ip, name |-> name, reserved |-> TRUE]
RowsAfterByName(mac, ip, name) ==   \* for a mutant: a known row keeps its flag
    IF RowsOf(mac) = {} THEN clients \cup {Kept(mac, ip, name)}
    ELSE (clients \ RowsOf(mac)) \cup {[Kept(mac, ip, name) EXCEPT !.reserved = row.reserved] :
                                       row \in RowsOf(mac)}
RowsAfter(mac, ip, name) ==
    IF RowsOf(mac) = {} THEN clients \cup {Kept(mac, ip, name)}
    ELSE (clients \ RowsOf(mac)) \cup {Kept(mac, ip, name)}
Reserve(mac, ip, name) ==
    /\ Change
    /\ clients' = RowsAfter(mac, ip, name)
    /\ promised' = [promised EXCEPT ![mac] = ip]
    /\ UNCHANGED <<settings, leases, discovered, listed, page, chosen, leasings>>

(* DELETE /dhcp/reserve/:mac keeps the row and its name.                   *)
Unreserve(mac) ==
    /\ Change
    /\ clients' = {IF row.mac = mac THEN [row EXCEPT !.ip = Unset, !.reserved = FALSE] ELSE row :
                   row \in clients}
    /\ promised' = [promised EXCEPT ![mac] = Unset]
    /\ UNCHANGED <<settings, leases, discovered, listed, page, chosen, leasings>>

-----------------------------------------------------------------------------
(* dnsmasq writes its file as it likes.  Lines that are no lease are left  *)
(* out by the parser, and a file that cannot be read is an empty one.      *)
Free(ip) == \A machine \in DOMAIN leases : leases[machine] # ip
Lease(machine, ip) ==
    /\ leasings < MaxLeases /\ Free(ip)
    /\ leases' = [m \in DOMAIN leases \cup {machine} |-> IF m = machine THEN ip ELSE leases[m]]
    /\ listed' = Unset /\ leasings' = leasings + 1
    /\ UNCHANGED <<settings, clients, discovered, page, chosen, promised, changes>>
Expire(machine) ==
    /\ machine \in DOMAIN leases
    /\ leases' = Restrict(leases, DOMAIN leases \ {machine}) /\ listed' = Unset
    /\ UNCHANGED <<settings, clients, discovered, page, chosen, promised, changes, leasings>>

(* updateDiscoveredMachines: one transaction.  The row of a machine that   *)
(* is new lacks the two times the table asks for (003_dhcp.sql:60), which  *)
(* takes the whole pass back.                                              *)
Accepted(row) == row.createdAt # Unset
NewRowInFull(machine) == [ip |-> leases[machine], createdAt |-> "now"]   \* for a mutant
NewRow(machine) == [ip |-> leases[machine], createdAt |-> Unset]
RowFor(machine) == IF machine \in DOMAIN discovered
                   THEN [discovered[machine] EXCEPT !.ip = leases[machine]] ELSE NewRow(machine)
UpdateDiscovered ==
    /\ leases # <<>>
    /\ discovered' =
          IF \A machine \in DOMAIN leases : Accepted(RowFor(machine))
          THEN [machine \in DOMAIN discovered \cup DOMAIN leases |->
                   IF machine \in DOMAIN leases THEN RowFor(machine) ELSE discovered[machine]]
          ELSE discovered
    /\ UNCHANGED <<settings, clients, leases, listed, page, chosen, promised, changes, leasings>>

(* GET /dhcp/machines: a row of the table comes before a lease.            *)
List ==
    /\ listed = Unset
    /\ listed' = [machine \in DOMAIN discovered \cup DOMAIN leases |->
                     IF machine \in DOMAIN discovered THEN discovered[machine].ip ELSE leases[machine]]
    /\ UNCHANGED <<settings, clients, leases, discovered, page, chosen, promised, changes, leasings>>

-----------------------------------------------------------------------------
(* DhcpServerSection: the narrow range is offered in the place of the      *)
(* shipped one, and is an edit like another until it is saved.             *)
ProposeToAll(stored) == ~stored.enabled   \* for a mutant
ProposeNarrow(stored) == stored.range = "factory" /\ ~stored.enabled
Load ==
    /\ page = NoPage
    /\ page' = IF ProposeNarrow(settings)
               THEN [Form([settings EXCEPT !.range = "single"]) EXCEPT !.dirty = TRUE]
               ELSE Form(settings)
    /\ UNCHANGED <<settings, clients, leases, discovered, listed, chosen, promised, changes, leasings>>
Edit(form) ==
    /\ Change /\ page # NoPage /\ form # page.form
    /\ page' = [page EXCEPT !.form = form, !.dirty = TRUE,
                            !.typed = @ \/ form.range # page.form.range]
    /\ UNCHANGED <<settings, clients, leases, discovered, listed, chosen, promised, leasings>>
Save ==
    /\ page.dirty /\ ~page.saving
    /\ settings' = page.form
    /\ chosen' = (/\ page.form.range # "factory"
                  /\ page.typed \/ (chosen /\ page.form.range = settings.range))
    /\ page' = [page EXCEPT !.saving = TRUE]
    /\ UNCHANGED <<clients, leases, discovered, listed, promised, changes, leasings>>
Saved ==
    /\ page.saving
    /\ page' = Form(settings)
    /\ UNCHANGED <<settings, clients, leases, discovered, listed, chosen, promised, changes, leasings>>
SaveFails ==   \* the server took it, and its answer is lost; one it never got changes nothing
    /\ page.saving
    /\ page' = [page EXCEPT !.saving = FALSE]
    /\ UNCHANGED <<settings, clients, leases, discovered, listed, chosen, promised, changes, leasings>>
Leave ==
    /\ page # NoPage
    /\ page' = NoPage
    /\ UNCHANGED <<settings, clients, leases, discovered, listed, chosen, promised, changes, leasings>>

DhcpNext ==
    \/ \E mac \in Macs, ip \in Addresses, name \in {Unset, "named"} : Reserve(mac, ip, name)
    \/ \E mac \in Macs : Unreserve(mac)
    \/ \E machine \in Machines, ip \in Addresses : Lease(machine, ip)
    \/ \E machine \in Machines : Expire(machine)
    \/ UpdateDiscovered \/ List
    \/ Load \/ Save \/ Saved \/ SaveFails \/ Leave
    \/ \E form \in Settings : Edit(form)

-----------------------------------------------------------------------------
DhcpTypeOK ==
    /\ settings \in Settings
    /\ \A row \in clients : row.mac \in Macs /\ row.ip \in Addresses \cup {Unset}
    /\ leases \in UNION {[S -> Addresses] : S \in SUBSET Machines}
    /\ page = NoPage \/ page.form \in Settings

(* What was answered for an address as it was typed is what dnsmasq would  *)
(* be given: one line if it was reserved, none of it once it is given up,  *)
(* whatever else was asked for in between.  (Two spellings of one adapter  *)
(* are two rows and two lines.)                                            *)
ReservationsAreKept ==
    \A machine \in Machines :
        /\ \A host \in BuildConfiguration.hosts : host.mac = machine =>
               \E mac \in Macs : Lower(mac) = machine /\ promised[mac] = host.ip
        /\ \A mac \in Macs : Lower(mac) = machine /\ promised[mac] # Unset =>
               \E host \in BuildConfiguration.hosts : host.mac = machine /\ host.ip = promised[mac]

(* A machine that holds a lease is listed under the address it holds now.  *)
MachinesAreCurrent ==
    listed # Unset => \A machine \in DOMAIN leases : listed[machine] = leases[machine]

(* A range that a person chose is not replaced by the one the page offers. *)
RangesAreRespected ==
    chosen => ~(page # NoPage /\ ~page.typed /\ page.form.range # settings.range /\ ~page.saving)

AddressesHold == ReservationsAreKept /\ MachinesAreCurrent /\ RangesAreRespected
=============================================================================
