------------------------------- MODULE Devices -------------------------------
(***************************************************************************)
(* The devices table under the hands of everyone who decides about a       *)
(* device: the dashboard's device, user and group routes (dashboard.py),   *)
(* the captive portal's login and its administrator's form                 *)
(* (captive_portal_server.py), the limiter both forms share, and discovery *)
(* which adds the devices nobody has decided about.                        *)
(*                                                                         *)
(* Every connection autocommits, so each SQL statement is a step of its    *)
(* own: a portal thread resolves the device, checks a password and updates *)
(* the row in three.  Rows are named by their id, which SQLite hands out   *)
(* again once the row with the highest id is gone; a page of the dashboard *)
(* names its rows by the ids they had when it was rendered.                *)
(*                                                                         *)
(* A source address stands for its device's MAC (Bindings has the rest).   *)
(* Labels, bump_enabled and quarantined_at play no part.                   *)
(***************************************************************************)
EXTENDS Naturals, FiniteSets

CONSTANTS
    Mac, User, Group,
    None,
    Handler,       \* threads of the portal's server
    MaxAttempts,   \* _MAX_ATTEMPTS of the portal's limiter
    MaxId,         \* bound: row ids
    MaxEdits,      \* bound: routes, discoveries and restarts
    MaxForms       \* bound: forms posted to the portal

ASSUME NoneAssumption == None \notin Mac \union User \union Group
ASSUME HandlerAssumption == IsFiniteSet(Handler) /\ Handler # {}
ASSUME BoundAssumption == {MaxAttempts, MaxId, MaxEdits, MaxForms} \subseteq Nat /\ MaxAttempts > 0

VARIABLES
    rows,        \* devices: rows[id], or None
    users,       \* the users that exist
    groups,      \* the groups that exist
    binding,     \* the MAC's active binding: none, of a device, or an orphan
    page,        \* page[id]: the MAC the administrator's page shows beside that id
    vouching,    \* the id update_device has yet to set is_authenticated for, or 0
    pc, form,    \* where each portal thread is, and the form it serves
    attempts,    \* failures of a source inside the limiter's window
    vouched,     \* history: MACs somebody let in, by a login or as an administrator
    reissued,    \* history: ids given to a new MAC while a form or page held them for another
    edits, forms

portal == <<pc, form, attempts, forms>>
tables == <<users, groups, binding>>
vars == <<rows, tables, page, vouching, portal, vouched, reissued, edits>>

Id == 1..MaxId
Row == {r \in [mac: Mac, user: User \union {None}, group: Group \union {None},
               ignored: BOOLEAN, is_authenticated: BOOLEAN, bypass_login: BOOLEAN] :
            r.user = None \/ r.group = None}
ASSUME RowAssumption == None \notin Row

Form == [mac: Mac \union {None}, id: Id \union {0}, user: User \union {None}]
NoForm == [mac |-> None, id |-> 0, user |-> None]

TypeOK ==
    /\ rows \in [Id -> Row \union {None}]
    /\ users \subseteq User /\ groups \subseteq Group
    /\ binding \in [Mac -> {"none", "linked", "orphan"}]
    /\ page \in [Id -> Mac \union {None}]
    /\ vouching \in Id \union {0}
    /\ pc \in [Handler -> {"idle", "credentials", "find_for_login", "find_for_admin",
                           "password", "update", "act"}]
    /\ form \in [Handler -> Form]
    /\ attempts \in [Mac -> Nat]
    /\ vouched \subseteq Mac /\ reissued \subseteq Id
    /\ edits \in 0..MaxEdits /\ forms \in 0..MaxForms

Init ==
    /\ rows = [n \in Id |-> None] /\ page = [n \in Id |-> None] /\ vouching = 0
    /\ users = User /\ groups = Group /\ binding = [m \in Mac |-> "none"]
    /\ pc = [h \in Handler |-> "idle"] /\ form = [h \in Handler |-> NoForm]
    /\ attempts = [m \in Mac |-> 0]
    /\ vouched = {} /\ reissued = {}
    /\ edits = 0 /\ forms = 0

Edit == edits < MaxEdits /\ edits' = edits + 1

-----------------------------------------------------------------------------
(* Rows                                                                    *)

Exists(n) == n \in Id /\ rows[n] # None
Has(m) == \E n \in Id : Exists(n) /\ rows[n].mac = m
Assigned(r) == r.user # None \/ r.group # None

\* INTEGER PRIMARY KEY without AUTOINCREMENT: one above the highest id in use.
NextId(n) == /\ n \in Id /\ \A k \in Id : k >= n => ~Exists(k)
             /\ n = 1 \/ Exists(n - 1)

\* INSERT INTO devices, with what this makes of the forms that still hold the id.
Create(n, r) ==
    /\ NextId(n)
    /\ rows' = [rows EXCEPT ![n] = r]
    /\ reissued' = IF \/ page[n] \notin {None, r.mac} \/ vouching = n
                      \/ \E h \in Handler : form[h].id = n /\ form[h].mac # r.mac
                   THEN reissued \union {n} ELSE reissued \ {n}

\* Mutant: a discovered device takes the column's default of 1.
PendingTrusted(m) == [mac |-> m, user |-> None, group |-> None, ignored |-> FALSE,
                      is_authenticated |-> TRUE, bypass_login |-> FALSE]

\* create_pending_device.
Pending(m) == [mac |-> m, user |-> None, group |-> None, ignored |-> FALSE,
               is_authenticated |-> FALSE, bypass_login |-> FALSE]

\* UPDATE ... WHERE id = ?: no row, no effect.
Change(S, change(_)) ==
    rows' = [n \in Id |-> IF n \in S /\ Exists(n) THEN change(rows[n]) ELSE rows[n]]

\* record_binding of a new address: the binding goes to the MAC's device; only the
\* first sighting of a MAC makes one.
Discover(m) ==
    /\ Edit
    /\ \/ Has(m) /\ binding[m] # "linked" /\ UNCHANGED <<rows, reissued>>
       \/ ~Has(m) /\ binding[m] = "none" /\ \E n \in Id : Create(n, Pending(m))
    /\ binding' = [binding EXCEPT ![m] = "linked"]
    /\ UNCHANGED <<users, groups, page, vouching, portal, vouched>>

\* _purge_offlan_discovery_junk of a starting controller, on a device found off the LAN.
Purge(n) ==
    /\ Edit
    /\ Exists(n) /\ ~Assigned(rows[n]) /\ ~rows[n].ignored /\ binding[rows[n].mac] = "linked"
    /\ rows' = [rows EXCEPT ![n] = None]
    /\ binding' = [binding EXCEPT ![rows[n].mac] = "none"]
    /\ UNCHANGED <<users, groups, page, vouching, portal, vouched, reissued>>

-----------------------------------------------------------------------------
(* The dashboard.  An administrator acts on rows of a page loaded before.  *)

LoadPage ==
    /\ page' = [n \in Id |-> IF Exists(n) THEN rows[n].mac ELSE None]
    /\ page' # page
    /\ UNCHANGED <<rows, tables, vouching, portal, vouched, reissued, edits>>

Shown == {n \in Id : page[n] # None}
Vouch(S) == vouched' = vouched \union {page[n] : n \in S}

\* The values of the assignment box: nothing, Ignore, a user, a group.
Assignment == {[user |-> None, group |-> None, ignored |-> b] : b \in BOOLEAN}
              \union {[user |-> u, group |-> None, ignored |-> FALSE] : u \in users}
              \union {[user |-> None, group |-> g, ignored |-> FALSE] : g \in groups}

\* add_device, and import_devices for the empty assignment: typing a MAC vouches for it.
AddDevice(m) ==
    /\ ~Has(m) /\ Edit
    /\ \E a \in Assignment, n \in Id :
          Create(n, [mac |-> m, user |-> a.user, group |-> a.group, ignored |-> a.ignored,
                     is_authenticated |-> TRUE, bypass_login |-> FALSE])
    /\ vouched' = vouched \union {m}
    /\ UNCHANGED <<tables, page, vouching, portal>>

\* delete_device, bulk_delete_devices, cleanup_stale_devices: a binding is left behind.
DeleteDevices(S) ==
    /\ Edit
    /\ rows' = [n \in Id |-> IF n \in S THEN None ELSE rows[n]]
    /\ rows' # rows
    /\ binding' = [m \in Mac |-> IF binding[m] = "linked" /\ ~Has(m)' THEN "orphan" ELSE binding[m]]
    /\ UNCHANGED <<users, groups, page, vouching, portal, vouched, reissued>>

\* Mutant: the box that turns the login off is saved without being looked at.
UpdateDeviceVouchless(n) ==
    /\ vouching = 0 /\ Edit
    /\ \E a \in Assignment, bypass \in BOOLEAN :
          /\ Change({n}, LAMBDA r : [r EXCEPT !.user = a.user, !.group = a.group,
                        !.bypass_login = bypass, !.ignored = a.ignored])
          /\ IF bypass \/ a.ignored \/ Assigned(a) THEN Vouch({n}) ELSE UNCHANGED vouched
    /\ UNCHANGED <<tables, page, vouching, portal, reissued>>

\* update_device: the whole form is written; turning bypass_login on with nothing
\* assigned means Ignore.  An assignment is vouched for in a statement of its own.
UpdateDevice(n) ==
    /\ vouching = 0 /\ Edit
    /\ \E a \in Assignment, bypass \in BOOLEAN :
          /\ Change({n}, LAMBDA r : [r EXCEPT !.user = a.user, !.group = a.group,
                        !.bypass_login = bypass,
                        !.ignored = a.ignored \/ (bypass /\ ~Assigned(a) /\ ~r.bypass_login)])
          /\ vouching' = IF Assigned(a) THEN n ELSE 0
          /\ IF bypass \/ a.ignored \/ Assigned(a) THEN Vouch({n}) ELSE UNCHANGED vouched
    /\ UNCHANGED <<tables, page, portal, reissued>>

UpdateDeviceVouch ==
    /\ vouching # 0
    /\ Change({vouching}, LAMBDA r : [r EXCEPT !.is_authenticated = TRUE])
    /\ vouching' = 0
    /\ UNCHANGED <<tables, page, portal, vouched, reissued, edits>>

BypassLogin(n) ==
    /\ Edit
    /\ Change({n}, LAMBDA r : [r EXCEPT !.bypass_login = TRUE, !.ignored = @ \/ ~Assigned(r)])
    /\ Vouch({n})
    /\ UNCHANGED <<tables, page, vouching, portal, reissued>>

\* Mutant: the device keeps its user.
BatchAssignKeepsUser(S, g) ==
    /\ g \in groups /\ Edit
    /\ Change(S, LAMBDA r : [r EXCEPT !.group = g, !.ignored = FALSE, !.is_authenticated = TRUE])
    /\ Vouch(S)
    /\ UNCHANGED <<tables, page, vouching, portal, reissued>>

\* _batch_assign_devices_to_group, one transaction.
BatchAssign(S, g) ==
    /\ g \in groups /\ Edit
    /\ Change(S, LAMBDA r : [r EXCEPT !.user = None, !.group = g, !.ignored = FALSE,
                                      !.is_authenticated = TRUE])
    /\ Vouch(S)
    /\ UNCHANGED <<tables, page, vouching, portal, reissued>>

\* bulk_set_ignored_devices; removing Ignore decides nothing about access.
BulkIgnore(S) ==
    /\ Edit
    /\ \/ /\ Change(S, LAMBDA r : [r EXCEPT !.ignored = TRUE, !.user = None, !.group = None])
          /\ Vouch(S)
       \/ /\ Change(S, LAMBDA r : [r EXCEPT !.ignored = FALSE])
          /\ UNCHANGED vouched
    /\ UNCHANGED <<tables, page, vouching, portal, reissued>>

\* delete_user and delete_group: ON DELETE SET NULL.
DeleteUser(u) ==
    /\ u \in users /\ Edit
    /\ users' = users \ {u}
    /\ Change(Id, LAMBDA r : [r EXCEPT !.user = IF @ = u THEN None ELSE @])
    /\ UNCHANGED <<groups, binding, page, vouching, portal, vouched, reissued>>

DeleteGroup(g) ==
    /\ g \in groups /\ Edit
    /\ groups' = groups \ {g}
    /\ Change(Id, LAMBDA r : [r EXCEPT !.group = IF @ = g THEN None ELSE @])
    /\ UNCHANGED <<users, binding, page, vouching, portal, vouched, reissued>>

\* The dashboard process is killed and started again, portal and limiter with it;
\* every start of a process vouches for assigned devices (db.py, _migrate).
Restart ==
    /\ Edit
    /\ Change(Id, LAMBDA r : [r EXCEPT !.is_authenticated = @ \/ Assigned(r)])
    /\ vouching' = 0
    /\ pc' = [h \in Handler |-> "idle"] /\ form' = [h \in Handler |-> NoForm]
    /\ attempts' = [m \in Mac |-> 0]
    /\ UNCHANGED <<tables, page, forms, vouched, reissued>>

-----------------------------------------------------------------------------
(* The portal                                                              *)

\* Mutant: the limit is passed by one.
AllowedOneMore(m) == attempts[m] <= MaxAttempts

\* RateLimiter.is_limited, asked first thing by both forms ...
Allowed(m) == attempts[m] < MaxAttempts

\* ... and record_failure.
Fail(h) ==
    /\ attempts' = [attempts EXCEPT ![form[h].mac] = @ + 1]
    /\ pc' = [pc EXCEPT ![h] = "idle"] /\ form' = [form EXCEPT ![h] = NoForm]

Goto(h, where) == pc' = [pc EXCEPT ![h] = where] /\ UNCHANGED <<attempts, forms>>
Finish(h) == Goto(h, "idle") /\ form' = [form EXCEPT ![h] = NoForm]

\* The oldest failure leaves the window.
Age(m) ==
    /\ attempts[m] > 0
    /\ attempts' = [attempts EXCEPT ![m] = @ - 1]
    /\ UNCHANGED <<rows, tables, page, vouching, pc, form, forms, vouched, reissued, edits>>

Post(h, m) ==
    /\ pc[h] = "idle" /\ forms < MaxForms /\ Allowed(m)
    /\ forms' = forms + 1
    /\ form' = [form EXCEPT ![h].mac = m]
    /\ \E where \in {"find_for_login", "credentials"} : pc' = [pc EXCEPT ![h] = where]
    /\ UNCHANGED <<rows, tables, page, vouching, attempts, vouched, reissued, edits>>

\* verify_admin_credentials.
Credentials(h) ==
    /\ pc[h] = "credentials"
    /\ \/ Fail(h) /\ UNCHANGED forms
       \/ Goto(h, "find_for_admin") /\ UNCHANGED form
    /\ UNCHANGED <<rows, tables, page, vouching, vouched, reissued, edits>>

\* resolve_device: nothing without a binding; a new pending device for an orphan, which
\* raises if that MAC has been added by hand; or the MAC's device.
Resolve(h) ==
    /\ pc[h] \in {"find_for_login", "find_for_admin"}
    /\ LET m == form[h].mac
           next == IF pc[h] = "find_for_login" THEN "password" ELSE "act"
       IN  \/ /\ binding[m] = "none" \/ (binding[m] = "orphan" /\ Has(m))
              /\ Finish(h) /\ UNCHANGED <<rows, reissued, binding>>
           \/ /\ binding[m] = "linked" \/ ~Has(m)
              /\ binding[m] # "none"
              /\ binding' = [binding EXCEPT ![m] = "linked"]
              /\ Goto(h, next)
              /\ \E n \in Id :
                    /\ \/ Exists(n) /\ rows[n].mac = m /\ UNCHANGED <<rows, reissued>>
                       \/ ~Has(m) /\ Create(n, Pending(m))
                    /\ form' = [form EXCEPT ![h].id = n]
    /\ UNCHANGED <<users, groups, page, vouching, vouched, edits>>

\* The user's password; a form without a name for a nameless device goes no further.
Password(h) ==
    /\ pc[h] = "password"
    /\ \/ Fail(h) /\ UNCHANGED forms
       \/ /\ \E u \in users : form' = [form EXCEPT ![h].user = u]
          /\ Goto(h, "update")
       \/ Finish(h)
    /\ UNCHANGED <<rows, tables, page, vouching, vouched, reissued, edits>>

\* Mutant: the login takes the device over.
LoginUpdateTakesOver(h) ==
    /\ pc[h] = "update"
    /\ Change({form[h].id}, LAMBDA r :
          [r EXCEPT !.is_authenticated = TRUE, !.user = form[h].user, !.group = None])
    /\ vouched' = vouched \union {form[h].mac}
    /\ Finish(h)
    /\ UNCHANGED <<tables, page, vouching, reissued, edits>>

\* The login's UPDATE; a user deleted meanwhile, or a device that a group has got
\* meanwhile, makes it raise and changes nothing.
LoginUpdate(h) ==
    /\ pc[h] = "update"
    /\ LET n == form[h].id
           refused == Exists(n) /\ \/ rows[n].group # None
                                   \/ rows[n].user = None /\ form[h].user \notin users
       IN  IF refused THEN UNCHANGED <<rows, vouched>>
           ELSE /\ Change({n}, LAMBDA r :
                      [r EXCEPT !.is_authenticated = TRUE,
                                !.user = IF @ = None THEN form[h].user ELSE @])
                /\ vouched' = vouched \union {form[h].mac}
    /\ Finish(h)
    /\ UNCHANGED <<tables, page, vouching, reissued, edits>>

\* The administrator's three buttons, or none: a nameless device must be named, a
\* group must exist.
AdminAction(h) ==
    /\ pc[h] = "act"
    /\ \/ /\ \/ Change({form[h].id}, LAMBDA r : [r EXCEPT !.bypass_login = TRUE])
             \/ Change({form[h].id}, LAMBDA r :
                          [r EXCEPT !.ignored = TRUE, !.user = None, !.group = None])
             \/ \E g \in groups : Change({form[h].id}, LAMBDA r :
                          [r EXCEPT !.group = g, !.user = None, !.is_authenticated = TRUE])
          /\ vouched' = vouched \union {form[h].mac}
       \/ UNCHANGED <<rows, vouched>>
    /\ Finish(h)
    /\ UNCHANGED <<tables, page, vouching, reissued, edits>>

-----------------------------------------------------------------------------
Route ==
    \/ \E n \in Shown : UpdateDevice(n) \/ BypassLogin(n)
    \/ \E S \in SUBSET Shown \ {{}} :
          DeleteDevices(S) \/ BulkIgnore(S) \/ \E g \in Group : BatchAssign(S, g)
    \/ \E m \in Mac : AddDevice(m)
    \/ \E u \in User : DeleteUser(u)
    \/ \E g \in Group : DeleteGroup(g)

Next ==
    \/ Route \/ UpdateDeviceVouch \/ LoadPage \/ Restart
    \/ \E m \in Mac : Discover(m) \/ Age(m)
    \/ \E n \in Id : Purge(n)
    \/ \E h \in Handler :
          \/ \E m \in Mac : Post(h, m)
          \/ Credentials(h) \/ Resolve(h) \/ Password(h) \/ LoginUpdate(h) \/ AdminAction(h)

Spec == Init /\ [][Next]_vars

-----------------------------------------------------------------------------
(* Properties                                                              *)

\* "Auto-discovered = unknown = gated; admin-entered = known = trusted": whatever is
\* deleted, found again and edited meanwhile, a device is let past the portal only
\* after somebody let that MAC in, unless its row was given an id that a page or a
\* login still held for another device.
AccessIsVouched ==
    \A n \in Id \ reissued :
        Exists(n) /\ (rows[n].is_authenticated \/ rows[n].bypass_login \/ rows[n].ignored)
            => rows[n].mac \in vouched

\* _migrate, "no code path in this app assigns a user/group while leaving
\* is_authenticated=0": but for the two statements of update_device.
AssignedIsAuthenticated ==
    \A n \in Id : Exists(n) /\ Assigned(rows[n]) => rows[n].is_authenticated \/ n = vouching

\* The limiter is asked before the password is looked at and told after it: a source
\* gets at most as many tries beyond the limit as there are other threads.
LimitHolds == \A m \in Mac : attempts[m] < MaxAttempts + Cardinality(Handler)

\* "a device an admin already assigned to a user/group keeps that assignment", also one
\* assigned while its owner was typing a password.
LoginKeepsAssignment ==
    [][ \A h \in Handler : pc[h] = "update" /\ pc'[h] = "idle" /\ edits' = edits =>
            \A n \in Id : Exists(n) /\ Assigned(rows[n]) =>
                /\ rows'[n].user = rows[n].user /\ rows'[n].group = rows[n].group ]_vars
=============================================================================
