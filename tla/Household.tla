------------------------------ MODULE Household ------------------------------
(***************************************************************************)
(* The tables of access decisions and the dashboard's routes that write    *)
(* them: domains, DNS exceptions, categories, schedules, overrides and the *)
(* people they name.  A connection is in autocommit mode, so a route that  *)
(* writes several rows without BEGIN is a sequence of statements, and the  *)
(* other processes see every prefix of it; a statement that names somebody *)
(* deleted since the page was shown fails, and the rest is never executed. *)
(* A bulk route is one transaction.                                        *)
(*                                                                         *)
(* db.domain, db.category and db.schedule map an id to its row or None;    *)
(* db.allow maps the pattern of a DNS exception to its audience or None;   *)
(* db.device maps an address with an active binding to its device or None. *)
(* The audience columns of a row are row.access.  db.present is who        *)
(* exists.  Names, notes and the checks on a form's text are left out.     *)
(***************************************************************************)
EXTENDS Access, SequencesExt

CONSTANTS
    Client,         \* the addresses of the LAN
    Thread,         \* the dashboard's request threads
    Lists,          \* Lists[u]: the domains of the list at URL u
    Threshold,      \* MAX_SCOPED_CATEGORY_DOMAINS
    Audiences,      \* the audiences a form may send
    Modes,          \* a domain's modes that a form may send
    Windows,        \* the schedules a form may send, without their audience
    Durations,      \* the lengths of an override, in slots
    DeviceForms,    \* what a device's row may be changed to
    Paths,          \* path rules
    Person,         \* the users, groups and devices that there can be
    MaxTime, MaxEdits  \* the bounds of time and of the requests

Kind == {"users", "groups", "devices"}
Nobody == [everyone |-> FALSE, users |-> {}, groups |-> {}, devices |-> {}]

Audience == [everyone : BOOLEAN, users : SUBSET Person, groups : SUBSET Person,
             devices : SUBSET Person]
WindowForm == [days : SUBSET (0 .. Days - 1), start : 0 .. Slots - 1, end : 0 .. Slots - 1,
               lockout : BOOLEAN, mode : BOOLEAN]
DomainMode == {"trusted", "bump", "splice"}

DeviceRow == [id : Person, user : Person \union {None}, group : Person \union {None},
              ignored : BOOLEAN, quarantined : BOOLEAN, vouched : BOOLEAN, bump : BOOLEAN]
DomainRow == [pattern : Pattern, mode : DomainMode, kept : BOOLEAN, series : BOOLEAN,
              paths : SUBSET STRING, access : Audience]
AllowRow == [access : Audience]
CategoryRow == [url : DOMAIN Lists \union {None}, listed : SUBSET Pattern,
                manual : SUBSET Pattern, exceptions : SUBSET Pattern, access : Audience]
ScheduleRow == [days : SUBSET (0 .. Days - 1), start : 0 .. Slots - 1, end : 0 .. Slots - 1,
                lockout : BOOLEAN, mode : BOOLEAN, access : Audience, blocks : SUBSET Nat]

ASSUME WeekAssumption == Days \in Nat \ {0} /\ Slots \in Nat \ {0}
ASSUME FormsAssumption ==
    /\ Audiences \subseteq Audience /\ \A a \in Audiences, k \in Kind : IsFiniteSet(a[k])
    /\ Windows \subseteq WindowForm /\ Modes \subseteq DomainMode /\ Paths \subseteq STRING
    /\ DeviceForms \subseteq DeviceRow /\ Durations \subseteq Nat
    /\ \A u \in DOMAIN Lists : Lists[u] \subseteq Pattern
ASSUME NoRowAssumption ==
    /\ None \notin Person /\ None \notin DeviceRow /\ None \notin DomainRow
    /\ None \notin AllowRow /\ None \notin CategoryRow /\ None \notin ScheduleRow

VARIABLES
    db,       \* the tables
    job,      \* job[t]: the statements thread t has still to execute
    now,      \* the time, in slots
    edits     \* the requests so far, for the bound

householdVars == <<db, job, now, edits>>

Edit == edits < MaxEdits /\ edits' = edits + 1

\* A new row's id is one more than the greatest in use.
NewId(table, i) ==
    /\ i \in DOMAIN db[table]
    /\ i = 1 + Greatest({0} \union {j \in DOMAIN db[table] : db[table][j] # None})

DomainCount(category) == Cardinality(CategoryDomains(category))
OverThreshold(category) == DomainCount(category) > Threshold
Scoped(access) == ~access.everyone /\ \E k \in Kind : access[k] # {}

-----------------------------------------------------------------------------
(* Statements.                                                             *)

Scope(table, row, to) == [do |-> "scope", table |-> table, row |-> row, to |-> to]
Clear(table, row, kind) == [do |-> "clear", table |-> table, row |-> row, kind |-> kind]
Grant(table, row, kind, who) ==
    [do |-> "grant", table |-> table, row |-> row, kind |-> kind, who |-> who]

\* A statement on a row that is gone changes nothing; an INSERT for one violates the
\* foreign key.
Fails(d, s) ==
    \/ s.do = "grant" /\ (d[s.table][s.row] = None \/ s.who \notin d.present[s.kind])
    \/ s.do = "block" /\ (d.schedule[s.row] = None \/ d.category[s.who] = None)
    \/ s.do = "force" /\ (d.schedule[s.row] = None \/ s.who \notin d.present[s.kind])

Exec(d, s) ==
    IF s.do = "supersede"
    THEN [d EXCEPT !.override = {o \in @ : ~(o.kind = s.kind /\ o.who = s.who)}]
    ELSE IF s.do = "force"
    THEN [d EXCEPT !.override = @ \union {[schedule |-> s.row, kind |-> s.kind, who |-> s.who,
                                           created |-> s.created, expires |-> s.expires]}]
    ELSE IF d[s.table][s.row] = None THEN d
    ELSE CASE s.do = "scope" -> [d EXCEPT ![s.table][s.row].access.everyone = s.to]
           [] s.do = "clear" -> [d EXCEPT ![s.table][s.row].access[s.kind] = {}]
           [] s.do = "grant" -> [d EXCEPT ![s.table][s.row].access[s.kind] = @ \union {s.who}]
           [] s.do = "unblock" -> [d EXCEPT !.schedule[s.row].blocks = {}]
           [] s.do = "block" -> [d EXCEPT !.schedule[s.row].blocks = @ \union {s.who}]
           [] s.do = "reset" -> [d EXCEPT !.category[s.row].listed = {}]
           [] OTHER -> [d EXCEPT !.category[s.row].url = s.to]

\* The INSERT OR IGNOREs of one kind.
Grants(table, row, kind, whos) ==
    LET order == SetToSeq(whos) IN [i \in DOMAIN order |-> Grant(table, row, kind, order[i])]

\* _replace_domain_access, _replace_category_access and _replace_schedule_access.
ReplaceAccess(table, row, access) ==
    <<Scope(table, row, access.everyone), Clear(table, row, "users")>>
        \o Grants(table, row, "users", access.users) \o <<Clear(table, row, "groups")>>
        \o Grants(table, row, "groups", access.groups) \o <<Clear(table, row, "devices")>>
        \o Grants(table, row, "devices", access.devices)

GrantAll(table, row, access) ==
    Grants(table, row, "users", access.users) \o Grants(table, row, "groups", access.groups)
        \o Grants(table, row, "devices", access.devices)

\* Thread t executes its next statement; an error ends the request there.
Statement(t) ==
    /\ job[t] # <<>>
    /\ IF Fails(db, Head(job[t]))
       THEN job' = [job EXCEPT ![t] = <<>>] /\ db' = db
       ELSE job' = [job EXCEPT ![t] = Tail(@)] /\ db' = Exec(db, Head(job[t]))
    /\ UNCHANGED <<now, edits>>

\* A request comes to thread t: it changes db to d and leaves the rest to statements.
Request(t, d, rest) ==
    /\ Edit
    /\ job[t] = <<>>
    /\ db' = d
    /\ job' = [job EXCEPT ![t] = rest]
    /\ now' = now

\* BEGIN IMMEDIATE ... COMMIT: the rows of S get this audience, or none does when one
\* of the statements would fail.
Transaction(t, table, S, access) ==
    LET fails == \E i \in S, k \in Kind : \E who \in access[k] : Fails(db, Grant(table, i, k, who))
    IN  Request(t, IF fails THEN db
                   ELSE [db EXCEPT ![table] =
                           [i \in DOMAIN @ |-> IF i \in S /\ @[i] # None
                                               THEN [@[i] EXCEPT !.access = access] ELSE @[i]]],
                <<>>)

-----------------------------------------------------------------------------
(* Domains and DNS exceptions.                                             *)

AddDomain(t, i, p, mode, access) ==
    /\ NewId("domain", i)
    /\ \A j \in DOMAIN db.domain : db.domain[j] # None => db.domain[j].pattern # p
    /\ Request(t, [db EXCEPT !.domain[i] =
                     [pattern |-> p, mode |-> mode, kept |-> FALSE, series |-> FALSE, paths |-> {},
                      access |-> [Nobody EXCEPT !.everyone = access.everyone]]],
               GrantAll("domain", i, access))

\* The paste-a-URL shortcut of one user's view: the host's own pattern p, if no domain
\* covers it, and a path rule.
AddDomainFromUrl(t, i, p, user, path) ==
    \E host \in Covers[p] :
        LET found == FindDomain(db.domain, host)
            added == [db EXCEPT !.domain[i] =
                        [pattern |-> p, mode |-> "bump", kept |-> FALSE, series |-> FALSE,
                         paths |-> {path}, access |-> Nobody]]
        IN  /\ user \in db.present.users
            /\ p \in Literal
            /\ IF found = None THEN NewId("domain", i)
               ELSE i = found /\ db.domain[i].mode = "bump"
            /\ Request(t, IF found = None THEN added
                          ELSE [db EXCEPT !.domain[i].paths = @ \union {path}],
                       <<Grant("domain", i, "users", user)>>)

DeleteDomain(t, i) ==
    /\ db.domain[i] # None /\ ~db.domain[i].kept /\ ~db.domain[i].series
    /\ Request(t, [db EXCEPT !.domain[i] = None], <<>>)

\* The built-in rows are skipped.
BulkDeleteDomains(t, S) ==
    Request(t, [db EXCEPT !.domain =
                  [i \in DOMAIN @ |-> IF i \in S /\ @[i] # None /\ ~@[i].kept /\ ~@[i].series
                                      THEN None ELSE @[i]]], <<>>)

UpdateDomain(t, i, mode) ==
    /\ db.domain[i] # None
    /\ Request(t, [db EXCEPT !.domain[i].mode = mode], <<>>)

UpdateDomainAccess(t, i, access) == Request(t, db, ReplaceAccess("domain", i, access))

BulkUpdateDomainAccess(t, S, access) == Transaction(t, "domain", S, access)

AddPath(t, i, path) ==
    /\ db.domain[i] # None
    /\ Request(t, [db EXCEPT !.domain[i].paths = @ \union {path}], <<>>)

DeletePath(t, i, path) ==
    /\ db.domain[i] # None /\ path \in db.domain[i].paths
    /\ Request(t, [db EXCEPT !.domain[i].paths = @ \ {path}], <<>>)

AddAdguardAllowlist(t, p, access) ==
    /\ db.allow[p] = None
    /\ Request(t, [db EXCEPT !.allow[p] = [access |-> [Nobody EXCEPT !.everyone = access.everyone]]],
               GrantAll("allow", p, access))

DeleteAdguardAllowlist(t, p) ==
    /\ db.allow[p] # None
    /\ Request(t, [db EXCEPT !.allow[p] = None], <<>>)

-----------------------------------------------------------------------------
(* Categories.                                                             *)

\* The first fetch of a new category is in CategoryLists; here its rows come with it.
AddCategory(t, c, url) ==
    /\ NewId("category", c)
    /\ \E fetched \in BOOLEAN :
          Request(t, [db EXCEPT !.category[c] =
                        [url |-> url, manual |-> {}, exceptions |-> {}, access |-> Nobody,
                         listed |-> IF url # None /\ fetched THEN Lists[url] ELSE {}]], <<>>)

Without(table, S) == [i \in DOMAIN table |-> IF i \in S THEN None ELSE table[i]]

Unblock(schedules, S) ==
    [s \in DOMAIN schedules |->
        IF schedules[s] = None THEN None ELSE [schedules[s] EXCEPT !.blocks = @ \ S]]

\* schedule_categories cascades.
DeleteCategories(t, S) ==
    /\ \E c \in S : db.category[c] # None
    /\ Request(t, [db EXCEPT !.category = Without(@, S), !.schedule = Unblock(@, S)], <<>>)

\* A category that is too large for rules of its own is refused an audience; the check
\* is made before the first statement.
UpdateCategoryAccess(t, c, access) ==
    /\ db.category[c] # None => ~(OverThreshold(db.category[c]) /\ Scoped(access))
    /\ Request(t, db, ReplaceAccess("category", c, access))

BulkUpdateCategoryAccess(t, S, access) ==
    Transaction(t, "category", {c \in S : /\ db.category[c] # None
                                          /\ ~(OverThreshold(db.category[c]) /\ Scoped(access))},
                access)

AddCategoryDomains(t, c, S) ==
    /\ db.category[c] # None
    /\ Request(t, [db EXCEPT !.category[c].manual = @ \union (S \ db.category[c].listed)], <<>>)

DeleteCategoryDomain(t, c, p) ==
    /\ db.category[c] # None /\ p \in db.category[c].manual
    /\ Request(t, [db EXCEPT !.category[c].manual = @ \ {p}], <<>>)

AddCategoryOverride(t, c, p) ==
    /\ db.category[c] # None
    /\ Request(t, [db EXCEPT !.category[c].exceptions = @ \union {p}], <<>>)

DeleteCategoryOverride(t, c, p) ==
    /\ db.category[c] # None /\ p \in db.category[c].exceptions
    /\ Request(t, [db EXCEPT !.category[c].exceptions = @ \ {p}], <<>>)

UpdateCategorySubscription(t, c, url) ==
    /\ db.category[c] # None /\ db.category[c].url # url
    /\ Request(t, db, <<[do |-> "reset", table |-> "category", row |-> c],
                        [do |-> "url", table |-> "category", row |-> c, to |-> url]>>)

\* fetch_and_sync_category, from any of its callers; a row entered by hand keeps its source.
SyncCategory(c) ==
    /\ Edit
    /\ db.category[c] # None /\ db.category[c].url # None
    /\ db' = [db EXCEPT !.category[c].listed = Lists[db.category[c].url] \ db.category[c].manual]
    /\ UNCHANGED <<job, now>>

-----------------------------------------------------------------------------
(* Schedules and overrides.                                                *)

WindowRow(form, access, blocks) ==
    [days |-> form.days, start |-> form.start, end |-> form.end, lockout |-> form.lockout,
     mode |-> form.mode, access |-> access, blocks |-> blocks]

\* A new schedule applies to nobody and blocks nothing yet.
AddSchedule(t, s, form) ==
    /\ NewId("schedule", s)
    /\ Request(t, [db EXCEPT !.schedule[s] = WindowRow(form, Nobody, {})], <<>>)

\* delete_schedule and bulk_delete_schedules; overrides cascade.
DeleteSchedules(t, S) ==
    /\ \E s \in S : db.schedule[s] # None
    /\ Request(t, [db EXCEPT !.schedule = Without(@, S),
                             !.override = {o \in @ : o.schedule \notin S}], <<>>)

\* The window is saved first, then the audience, then the categories, if the page had
\* that section (it is not shown for a lockout).
UpdateSchedule(t, s, form, access, section, categories) ==
    LET order == SetToSeq(categories)
        blocks == <<[do |-> "unblock", table |-> "schedule", row |-> s]>>
                    \o [i \in DOMAIN order |->
                          [do |-> "block", table |-> "schedule", row |-> s, who |-> order[i]]]
    IN  Request(t, [db EXCEPT !.schedule[s] = WindowRow(form, @.access, @.blocks)],
                ReplaceAccess("schedule", s, access) \o (IF section THEN blocks ELSE <<>>))

BulkUpdateScheduleAccess(t, S, access) ==
    Transaction(t, "schedule", {s \in S : db.schedule[s] # None}, access)

\* _schedule_targets_selection.
Targets(s, kind, who) ==
    db.schedule[s].access.everyone \/ who \in db.schedule[s].access[kind]

AddScheduleOverride(t, s, kind, who, length) ==
    /\ db.schedule[s] # None /\ db.schedule[s].mode /\ Targets(s, kind, who)
    /\ Request(t, db, <<[do |-> "supersede", kind |-> kind, who |-> who],
                        [do |-> "force", row |-> s, kind |-> kind, who |-> who,
                         created |-> now, expires |-> now + length]>>)

CancelScheduleOverride(t, o) ==
    Request(t, [db EXCEPT !.override = @ \ {o}], <<>>)

-----------------------------------------------------------------------------
(* People and devices, as far as these tables see them.                    *)

Strip(table, kind, who) ==
    [i \in DOMAIN table |->
        IF table[i] = None THEN None ELSE [table[i] EXCEPT !.access[kind] = @ \ {who}]]

Orphan(devices, kind, who) ==
    [a \in DOMAIN devices |->
        IF devices[a] = None \/ (kind = "devices" /\ devices[a].id = who) THEN None
        ELSE [devices[a] EXCEPT !.user = IF kind = "users" /\ @ = who THEN None ELSE @,
                                !.group = IF kind = "groups" /\ @ = who THEN None ELSE @]]

\* Mutant: the grants of a deleted user, group or device stay.
DeletePersonKeepsGrants(t, kind, who) ==
    /\ who \in db.present[kind]
    /\ Request(t, [db EXCEPT !.present[kind] = @ \ {who}], <<>>)

\* A deleted user, group or device loses its grants and overrides (ON DELETE CASCADE);
\* the devices of a user or a group have none then (ON DELETE SET NULL).
DeletePerson(t, kind, who) ==
    /\ who \in db.present[kind]
    /\ Request(t, [db EXCEPT
          !.present[kind] = @ \ {who},
          !.domain = Strip(@, kind, who), !.allow = Strip(@, kind, who),
          !.category = Strip(@, kind, who), !.schedule = Strip(@, kind, who),
          !.override = {o \in @ : ~(o.kind = kind /\ o.who = who)},
          !.device = Orphan(@, kind, who)], <<>>)

\* What Devices has in detail: a login, an assignment, a pause, the bump switch.
SaveDevice(t, a, form) ==
    /\ db.device[a] # None
    /\ form.user \in db.present.users \union {None} /\ form.group \in db.present.groups \union {None}
    /\ Request(t, [db EXCEPT !.device[a] = [form EXCEPT !.id = db.device[a].id]], <<>>)

Tick ==
    /\ now < MaxTime
    /\ now' = now + 1
    /\ UNCHANGED <<db, job, edits>>

-----------------------------------------------------------------------------
(* All of it.                                                              *)

Sets(S) == SUBSET S \ {{}}

DomainRoute(t) ==
    \E i \in DOMAIN db.domain, p \in Pattern, m \in Modes, a \in Audiences, path \in Paths :
        \/ AddDomain(t, i, p, m, a)
        \/ \E u \in db.present.users : AddDomainFromUrl(t, i, p, u, path)
        \/ DeleteDomain(t, i)
        \/ UpdateDomain(t, i, m)
        \/ UpdateDomainAccess(t, i, a)
        \/ AddPath(t, i, path)
        \/ DeletePath(t, i, path)
        \/ AddAdguardAllowlist(t, p, a)
        \/ DeleteAdguardAllowlist(t, p)

CategoryRoute(t) ==
    \E c \in DOMAIN db.category, p \in Pattern, a \in Audiences, u \in DOMAIN Lists \union {None} :
        \/ AddCategory(t, c, u)
        \/ UpdateCategoryAccess(t, c, a)
        \/ AddCategoryDomains(t, c, {p})
        \/ DeleteCategoryDomain(t, c, p)
        \/ AddCategoryOverride(t, c, p)
        \/ DeleteCategoryOverride(t, c, p)
        \/ UpdateCategorySubscription(t, c, u)

ScheduleRoute(t) ==
    \E s \in DOMAIN db.schedule, w \in Windows, a \in Audiences, k \in Kind, d \in Durations :
        \/ AddSchedule(t, s, w)
        \/ /\ db.schedule[s] # None
           /\ \E section \in BOOLEAN, C \in SUBSET {c \in DOMAIN db.category : db.category[c] # None} :
                 UpdateSchedule(t, s, w, a, section, C)
        \/ \E who \in db.present[k] : AddScheduleOverride(t, s, k, who, d)
        \/ \E o \in db.override : CancelScheduleOverride(t, o)

BulkRoute(t) ==
    \E a \in Audiences :
        \/ \E S \in Sets(DOMAIN db.domain) :
              BulkDeleteDomains(t, S) \/ BulkUpdateDomainAccess(t, S, a)
        \/ \E S \in Sets(DOMAIN db.category) :
              DeleteCategories(t, S) \/ BulkUpdateCategoryAccess(t, S, a)
        \/ \E S \in Sets(DOMAIN db.schedule) :
              DeleteSchedules(t, S) \/ BulkUpdateScheduleAccess(t, S, a)

PeopleRoute(t) ==
    \/ \E k \in Kind : \E who \in db.present[k] : DeletePerson(t, k, who)
    \/ \E a \in DOMAIN db.device, f \in DeviceForms : SaveDevice(t, a, f)

HouseholdRoute ==
    /\ edits < MaxEdits
    /\ \/ \E t \in Thread :
              /\ job[t] = <<>>
              /\ \/ DomainRoute(t) \/ CategoryRoute(t) \/ ScheduleRoute(t)
                 \/ BulkRoute(t) \/ PeopleRoute(t)
       \/ \E c \in DOMAIN db.category : SyncCategory(c)

HouseholdStep == \E t \in Thread : Statement(t)

-----------------------------------------------------------------------------
(* What the rows must be, and the foreign keys (common/db.py's ON DELETE   *)
(* clauses): no row names anybody or anything that was deleted.            *)

Refers(access, present) == \A k \in Kind : access[k] \subseteq present[k]

DeviceRows(table, present) ==
    /\ DOMAIN table \subseteq Client
    /\ \A a \in DOMAIN table : table[a] # None =>
          /\ table[a] \in DeviceRow
          /\ table[a].id \in present.devices
          /\ table[a].user \in present.users \union {None}
          /\ table[a].group \in present.groups \union {None}

DomainRows(table, present) ==
    /\ DOMAIN table \subseteq Nat /\ None \notin DOMAIN table
    /\ \A i \in DOMAIN table : table[i] # None =>
          /\ table[i] \in DomainRow /\ Refers(table[i].access, present)
          /\ \A j \in DOMAIN table :
                (i # j /\ table[j] # None) => table[i].pattern # table[j].pattern

AllowRows(table, present) ==
    /\ DOMAIN table = Pattern
    /\ \A p \in Pattern : table[p] # None => table[p] \in AllowRow /\ Refers(table[p].access, present)

\* A domain is listed or entered by hand, not both.
CategoryRows(table, present) ==
    /\ DOMAIN table \subseteq Nat /\ IsFiniteSet(DOMAIN table)
    /\ \A c \in DOMAIN table : table[c] # None =>
          /\ table[c] \in CategoryRow /\ Refers(table[c].access, present)
          /\ table[c].listed \intersect table[c].manual = {}

ScheduleRows(table, category, present) ==
    /\ DOMAIN table \subseteq Nat
    /\ \A s \in DOMAIN table : table[s] # None =>
          /\ table[s] \in ScheduleRow /\ Refers(table[s].access, present)
          /\ \A c \in table[s].blocks : c \in DOMAIN category /\ category[c] # None

OverrideRows(table, schedule, present) ==
    \A o \in table : /\ o.schedule \in DOMAIN schedule /\ schedule[o.schedule] # None
                      /\ o.kind \in Kind /\ o.who \in present[o.kind]

Tables(d) ==
    /\ DOMAIN d = {"device", "present", "domain", "allow", "category", "schedule", "override"}
    /\ DOMAIN d.present = Kind /\ \A k \in Kind : d.present[k] \subseteq Person
    /\ DeviceRows(d.device, d.present) /\ DomainRows(d.domain, d.present) /\ AllowRows(d.allow, d.present)
    /\ CategoryRows(d.category, d.present) /\ ScheduleRows(d.schedule, d.category, d.present)
    /\ OverrideRows(d.override, d.schedule, d.present)
=============================================================================
