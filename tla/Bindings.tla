------------------------------ MODULE Bindings ------------------------------
(***************************************************************************)
(* Which device holds which address: the device_bindings and devices       *)
(* tables, and everything that writes them -                               *)
(*   - passive discovery (record_binding, in one BEGIN IMMEDIATE           *)
(*     transaction per sighting);                                          *)
(*   - resolve_device, which the portal, the block page and Squid's        *)
(*     helpers call concurrently and which gives an orphaned binding a     *)
(*     fresh device, in a transaction of its own after unlocked reads;     *)
(*   - the dashboard's add, update and delete;                             *)
(*   - the controller's startup purge of off-LAN rows.                     *)
(*                                                                         *)
(* devices.mac_address is UNIQUE and no route changes it, so a device is   *)
(* named by its MAC and a binding's device_id is the flag "linked": it is  *)
(* either that device's or NULL. Where the code orders rows by             *)
(* last_seen_at and takes the first, any of them may be taken.             *)
(***************************************************************************)
EXTENDS Naturals, FiniteSets

CONSTANTS
    Mac, Ip,
    NoMac, NoIp,
    OwnLan,       \* the addresses inside the household's local_network
    Resolver,     \* concurrent callers of resolve_device
    MaxAdds,      \* bound: devices added by hand
    MaxStarts     \* bound: starts of the controller

ASSUME NoneAssumption == NoMac \notin Mac /\ NoIp \notin Ip
ASSUME LanAssumption == OwnLan \subseteq Ip
ASSUME BoundsAssumption == MaxAdds \in Nat /\ MaxStarts \in Nat

VARIABLES
    devices,      \* devices[m]: no row, a plain row, or one an admin or a login assigned
    rows,         \* the device_bindings row of each (mac, ip) pair
    lan,          \* the addresses local_network admits, Ip while it is unset
    resolving,    \* resolving[r]: the orphan resolve_device is about to heal
    raised,       \* history: an IntegrityError has left resolve_device
    place,        \* history: place[m], where the last recorded sighting of m was
    holder,       \* history: holder[i], who the last recorded sighting of i was
    deleted,      \* history: MACs with bindings whose device was deleted
    adds, starts, \* devices added by hand, and starts of the controller, so far
    purge,        \* where the controller's purge is, what it has still to look at, and at whom it is
    excused       \* history: a device was added by hand, or a purge took the rows of a MAC
                  \* that somebody was healing

history == <<place, holder>>
vars == <<devices, rows, lan, resolving, raised, place, holder, deleted, adds, starts,
          purge, excused>>

NoRow == [known |-> FALSE, active |-> FALSE, linked |-> FALSE]
NoPurge == [at |-> "idle", todo |-> {}, mac |-> NoMac]
Row == {r \in [known: BOOLEAN, active: BOOLEAN, linked: BOOLEAN] :
            r.active \/ r.linked => r.known}

TypeOK ==
    /\ devices \in [Mac -> {"none", "plain", "assigned"}]
    /\ rows \in [Mac \X Ip -> Row]
    /\ lan \in {OwnLan, Ip}
    /\ resolving \in [Resolver -> Mac \cup {NoMac}]
    /\ raised \in BOOLEAN
    /\ place \in [Mac -> Ip \cup {NoIp}] /\ holder \in [Ip -> Mac \cup {NoMac}]
    /\ deleted \subseteq Mac
    /\ adds \in 0..MaxAdds /\ starts \in 0..MaxStarts
    /\ purge \in [at: {"idle", "row", "bindings", "device"}, todo: SUBSET Mac, mac: Mac \cup {NoMac}]
    /\ excused \in BOOLEAN

Init ==
    /\ devices = [m \in Mac |-> "none"]
    /\ rows = [p \in Mac \X Ip |-> NoRow]
    /\ lan \in {OwnLan, Ip}
    /\ resolving = [r \in Resolver |-> NoMac]
    /\ raised = FALSE
    /\ place = [m \in Mac |-> NoIp] /\ holder = [i \in Ip |-> NoMac]
    /\ deleted = {}
    /\ adds = 0 /\ starts = 0 /\ excused = FALSE
    /\ purge = NoPurge

-----------------------------------------------------------------------------
Known(m) == {i \in Ip : rows[m, i].known}
ActiveMacs(i) == {m \in Mac : rows[m, i].active}
ActiveIps(m) == {i \in Ip : rows[m, i].active}
LinkedIps(m) == {i \in Ip : rows[m, i].linked}

\* SELECT ... fetchone(): one row of those that match, if any does.
FetchOne(S, none) == IF S = {} THEN {none} ELSE S

\* Mutant: the sighting of a known pair only touches last_seen_at.
RefreshSeenOnly(m, i) ==
    /\ rows[m, i].known
    /\ UNCHANGED <<rows, devices, deleted>>

\* Mutant: the device is created again with the sighting of a known pair.
RefreshRecreates(m, i) ==
    /\ rows[m, i].known
    /\ rows' = [rows EXCEPT ![<<m, i>>].active = TRUE]
    /\ devices' = IF devices[m] = "none" THEN [devices EXCEPT ![m] = "plain"] ELSE devices
    /\ UNCHANGED deleted

\* record_binding for a pair that has a row: only last_seen_at, source and
\* active are updated.
Refresh(m, i) ==
    /\ rows[m, i].known
    /\ rows' = [rows EXCEPT ![<<m, i>>].active = TRUE]
    /\ UNCHANGED <<devices, deleted>>

\* record_binding for a new pair: one conflicting row per axis is deactivated, the
\* device is the MAC's own, created if the MAC has never had a binding.
Insert(m, i) ==
    /\ ~rows[m, i].known
    /\ LET known == devices[m] # "none" \/ Known(m) = {}
       IN  /\ devices' = IF devices[m] = "none" /\ known
                         THEN [devices EXCEPT ![m] = "plain"] ELSE devices
           /\ \E other \in FetchOne(ActiveMacs(i), NoMac), old \in FetchOne(ActiveIps(m), NoIp) :
                 rows' = [p \in Mac \X Ip |->
                            IF p = <<m, i>>
                            THEN [known |-> TRUE, active |-> TRUE, linked |-> known]
                            ELSE IF p \in {<<other, i>>, <<m, old>>}
                            THEN [rows[p] EXCEPT !.active = FALSE]
                            ELSE rows[p]]
    /\ deleted' = IF devices'[m] # "none" THEN deleted \ {m} ELSE deleted

\* record_binding, called by discovery snapshots and the rtnetlink listener, which the
\* controller starts after the purge.
RecordBinding(m, i) ==
    /\ i \in lan /\ purge.at = "idle"
    /\ Refresh(m, i) \/ Insert(m, i)
    /\ place' = [place EXCEPT ![m] = i] /\ holder' = [holder EXCEPT ![i] = m]
    /\ UNCHANGED <<lan, resolving, raised, adds, starts, purge, excused>>

-----------------------------------------------------------------------------
\* resolve_device's unlocked reads: no linked row holds the address, an orphan does.
ResolveLook(r, i) ==
    /\ resolving[r] = NoMac
    /\ \A m \in ActiveMacs(i) : ~rows[m, i].linked
    /\ \E m \in ActiveMacs(i) : resolving' = [resolving EXCEPT ![r] = m]
    /\ UNCHANGED <<devices, rows, lan, raised, history, deleted, adds, starts, purge, excused>>

\* Mutant: the state is not looked at again under the write lock.
ResolveHealNoRecheck(r) ==
    LET m == resolving[r]
    IN  /\ m # NoMac
        /\ resolving' = [resolving EXCEPT ![r] = NoMac]
        /\ \/ /\ devices[m] # "none"
              /\ raised' = TRUE
              /\ UNCHANGED <<devices, rows, deleted>>
           \/ /\ devices[m] = "none"
              /\ devices' = [devices EXCEPT ![m] = "plain"]
              /\ rows' = [p \in Mac \X Ip |-> IF p[1] = m /\ rows[p].known
                                              THEN [rows[p] EXCEPT !.linked = TRUE] ELSE rows[p]]
              /\ deleted' = deleted \ {m}
              /\ UNCHANGED raised
        /\ UNCHANGED <<lan, history, adds, starts, purge, excused>>

\* ... and its transaction: already healed, or create the device and repoint every
\* orphan of the MAC; the INSERT fails if a device has that MAC already.
ResolveHeal(r) ==
    LET m == resolving[r]
    IN  /\ m # NoMac
        /\ resolving' = [resolving EXCEPT ![r] = NoMac]
        /\ \/ /\ LinkedIps(m) # {}
              /\ UNCHANGED <<devices, rows, raised, deleted>>
           \/ /\ LinkedIps(m) = {} /\ devices[m] # "none"
              /\ raised' = TRUE
              /\ UNCHANGED <<devices, rows, deleted>>
           \/ /\ LinkedIps(m) = {} /\ devices[m] = "none"
              /\ devices' = [devices EXCEPT ![m] = "plain"]
              /\ rows' = [p \in Mac \X Ip |-> IF p[1] = m /\ rows[p].known
                                              THEN [rows[p] EXCEPT !.linked = TRUE] ELSE rows[p]]
              /\ deleted' = deleted \ {m}
              /\ UNCHANGED raised
        /\ UNCHANGED <<lan, history, adds, starts, purge, excused>>

-----------------------------------------------------------------------------
\* add_device and import_devices; an existing row is left alone.
AddDevice(m) ==
    /\ devices[m] = "none" /\ adds < MaxAdds
    /\ \E kind \in {"plain", "assigned"} : devices' = [devices EXCEPT ![m] = kind]
    /\ adds' = adds + 1 /\ excused' = TRUE
    /\ deleted' = deleted \ {m}
    /\ UNCHANGED <<rows, lan, resolving, raised, history, starts, purge>>

\* update_device, or a portal login: the row gains or loses its assignment.
UpdateDevice(m) ==
    /\ devices[m] # "none"
    /\ \E kind \in {"plain", "assigned"} \ {devices[m]} : devices' = [devices EXCEPT ![m] = kind]
    /\ UNCHANGED <<rows, lan, resolving, raised, history, deleted, adds, starts, purge, excused>>

\* ON DELETE SET NULL orphans the device's bindings.
DropDevice(m) ==
    /\ devices' = [devices EXCEPT ![m] = "none"]
    /\ rows' = [p \in Mac \X Ip |-> IF p[1] = m THEN [rows[p] EXCEPT !.linked = FALSE]
                                    ELSE rows[p]]
    /\ deleted' = IF Known(m) # {} THEN deleted \cup {m} ELSE deleted

\* delete_device.
DeleteDevice(m) ==
    /\ devices[m] # "none"
    /\ DropDevice(m)
    /\ UNCHANGED <<lan, resolving, raised, history, adds, starts, purge, excused>>

\* _purge_offlan_discovery_junk, which every start of the controller begins with, even one
\* after a crash in the middle of a purge. Its statements commit one by one.
ControllerStart ==
    /\ starts < MaxStarts /\ starts' = starts + 1
    /\ purge' = IF lan = Ip THEN NoPurge
                ELSE [at |-> "row", mac |-> NoMac,
                      todo |-> {m \in Mac : devices[m] = "plain" /\ LinkedIps(m) # {}}]
    /\ UNCHANGED <<devices, rows, lan, resolving, raised, history, deleted, adds, excused>>

\* Are all of the row's bindings off the LAN, now?
OffLan(m) == LinkedIps(m) # {} /\ LinkedIps(m) \cap lan = {}
PurgeCheck ==
    /\ purge.at = "row"
    /\ \/ purge.todo = {} /\ purge' = NoPurge
       \/ \E m \in purge.todo :
             purge' = [at |-> IF OffLan(m) THEN "bindings" ELSE "row",
                       todo |-> purge.todo \ {m}, mac |-> IF OffLan(m) THEN m ELSE NoMac]
    /\ UNCHANGED <<devices, rows, lan, resolving, raised, history, deleted, adds, starts, excused>>

\* DELETE FROM device_bindings WHERE device_id = ? ...
PurgeBindings ==
    LET m == purge.mac
    IN  /\ purge.at = "bindings"
        /\ purge' = [purge EXCEPT !.at = "device"]
        /\ rows' = [p \in Mac \X Ip |-> IF p[1] = m /\ rows[p].linked THEN NoRow ELSE rows[p]]
        /\ place' = IF place[m] \in LinkedIps(m) THEN [place EXCEPT ![m] = NoIp] ELSE place
        /\ excused' = (excused \/ \E r \in Resolver : resolving[r] = m)
        /\ UNCHANGED <<devices, lan, resolving, raised, holder, deleted, adds, starts>>

\* ... and of the device, whoever has assigned it, or added or healed one, meanwhile.
PurgeDevice ==
    /\ purge.at = "device"
    /\ purge' = [purge EXCEPT !.at = "row", !.mac = NoMac]
    /\ \/ devices[purge.mac] # "none" /\ DropDevice(purge.mac)
       \/ devices[purge.mac] = "none" /\ UNCHANGED <<devices, rows, deleted>>
    /\ UNCHANGED <<lan, resolving, raised, history, adds, starts, excused>>

\* The admin sets or clears local_network.
SetLan ==
    /\ \E l \in {OwnLan, Ip} \ {lan} : lan' = l
    /\ UNCHANGED <<devices, rows, resolving, raised, history, deleted, adds, starts, purge, excused>>

-----------------------------------------------------------------------------
Next ==
    \/ \E m \in Mac, i \in Ip : RecordBinding(m, i)
    \/ \E r \in Resolver : (\E i \in Ip : ResolveLook(r, i)) \/ ResolveHeal(r)
    \/ \E m \in Mac : AddDevice(m) \/ UpdateDevice(m) \/ DeleteDevice(m)
    \/ ControllerStart \/ PurgeCheck \/ PurgeBindings \/ PurgeDevice \/ SetLan

Spec == Init /\ [][Next]_vars

-----------------------------------------------------------------------------
(* Properties.                                                             *)

\* Enforcement follows the latest sighting: if the last thing recorded of m was that
\* it is at i, and the last thing recorded of i was that m is there, that binding is
\* active, however the two were deleted, orphaned, healed, taken over and seen again.
LatestIsActive ==
    \A m \in Mac, i \in Ip : place[m] = i /\ holder[i] = m => rows[m, i].active

\* resolve_device, "that gate exists specifically to block passive background binding
\* refreshes from reviving a deleted device": a deleted device with bindings comes back only by
\* resolve_device or by hand, whether its MAC is seen at a new address or at one it had.
Healed(m) == \E r \in Resolver : resolving[r] = m /\ resolving'[r] = NoMac
SightingRevivesNothing ==
    [][ \A m \in deleted : devices'[m] # "none" => Healed(m) \/ adds' # adds ]_vars

\* resolve_device's re-check under the write lock: "a concurrent caller that already
\* healed this MAC ... is picked up here instead of racing a second INSERT". However many
\* callers race, no heal meets a device with its MAC, unless a device was added by hand
\* or the purge took the rows of a MAC that is being healed.
HealNeverRaises == raised => excused

\* "TWO active=1 device_bindings rows for one IP -- an invariant nothing else in this
\* codebase expects to ever be violated".
OneActivePerIp == \A i \in Ip : Cardinality(ActiveMacs(i)) <= 1
=============================================================================
