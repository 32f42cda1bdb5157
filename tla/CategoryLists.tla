---------------------------- MODULE CategoryLists ----------------------------
(***************************************************************************)
(* The categories and category_domains tables, and everything that writes  *)
(* them:                                                                   *)
(*   - fetch_and_sync_category, which reads a category's row, spends       *)
(*     minutes fetching its list and the files that list includes, and     *)
(*     then replaces the category's subscription rows; it runs in the      *)
(*     controller's daily loop over all categories and in the dashboard's  *)
(*     threads over those the administrator picks, at the same time;       *)
(*   - the dashboard's category routes, which edit the rows meanwhile;     *)
(*   - a restored backup, which has the categories and the domains entered *)
(*     by hand, but no subscribed ones.                                    *)
(*                                                                         *)
(* A list is the set of its domains, and its hash is that set.  The two    *)
(* statements of update_category_subscription are one step: a sync that    *)
(* stores between them ends as one that stores after them.  Names, times   *)
(* of synchronisation and exceptions (category_overrides) are left out.    *)
(***************************************************************************)
EXTENDS Naturals, FiniteSets

CONSTANTS
    Domain, Url, None,
    Served,         \* what the files may be when the system is installed
    Includes,       \* <<u, v>>: the file at u has a line that includes the file at v
    Loop,           \* the controller's category-fetch thread
    Route,          \* threads of the dashboard that synchronise
    MaxId,          \* bound: row ids
    MaxEdits,       \* bound: changes by the administrator
    MaxRestores,    \* bound: backups restored
    MaxPublishes,   \* bound: changes of the files on the network
    MaxFailures,    \* bound: fetches that fail and processes that restart
    MaxEvents       \* bound: all of these together

Syncer == {Loop} \union Route

ASSUME NoneAssumption == None \notin Url /\ \A S \in SUBSET Domain : None # S
ASSUME IncludesAssumption == Includes \subseteq Url \X Url
ASSUME ServedAssumption == Served \subseteq [Url -> SUBSET Domain]
ASSUME SyncerAssumption == Loop \notin Route /\ IsFiniteSet(Route)
ASSUME BoundAssumption ==
    {MaxId, MaxEdits, MaxRestores, MaxPublishes, MaxFailures, MaxEvents} \subseteq Nat

VARIABLES
    categories,   \* categories[n]: subscription_url and last_subscription_hash, or None
    manual,       \* category_domains whose source is manual
    subscribed,   \* category_domains whose source is subscription
    files,        \* what the network serves at each URL
    todo,         \* todo[s]: the rows s read and has yet to synchronise
    fetching,     \* fetching[s]: the category whose list s is fetching, or 0
    read,         \* read[s]: the files s has got for it
    skipped,      \* skipped[s]: included files s could not get
    got,          \* got[s]: the domains in those files
    backup,       \* the exported configuration, or None
    forgotten,    \* history: the category lost rows that its hash still stands for
    spent         \* how much of each bound is used up

tables == <<categories, manual, subscribed, forgotten>>
syncing == <<todo, fetching, read, skipped, got>>
vars == <<tables, files, syncing, backup, spent>>

Id == 1..MaxId
Row == [url: {None} \union Url, hash: {None} \union SUBSET Domain]
ASSUME NoRowAssumption == \A r \in Row : r # None

Bound == [edits |-> MaxEdits, restores |-> MaxRestores, publishes |-> MaxPublishes,
          failures |-> MaxFailures]

Events == spent.edits + spent.restores + spent.publishes + spent.failures

Spend(k) == spent[k] < Bound[k] /\ Events < MaxEvents /\ spent' = [spent EXCEPT ![k] = @ + 1]

Exists(n) == n \in Id /\ categories[n] # None
Subscribed(n) == Exists(n) /\ categories[n].url # None

\* The rows of category_domains belong to a category, and none appears twice.
TypeOK ==
    /\ categories \in [Id -> {None} \union Row]
    /\ manual \in [Id -> SUBSET Domain] /\ subscribed \in [Id -> SUBSET Domain]
    /\ \A n \in Id : /\ manual[n] \intersect subscribed[n] = {}
                     /\ ~Exists(n) => manual[n] \union subscribed[n] = {}
    /\ files \in [Url -> SUBSET Domain]
    /\ todo \in [Syncer -> [Id -> {None} \union Row]]
    /\ fetching \in [Syncer -> Id \union {0}]
    /\ read \in [Syncer -> SUBSET Url] /\ skipped \in [Syncer -> SUBSET Url]
    /\ got \in [Syncer -> SUBSET Domain]
    /\ backup \in {None} \union
                  [categories: [Id -> {None} \union Row],
                   manual: {None} \union [Id -> SUBSET Domain]]
    /\ forgotten \in [Id -> BOOLEAN]
    /\ spent \in [DOMAIN Bound -> Nat] /\ \A k \in DOMAIN Bound : spent[k] <= Bound[k]

NoRows == [n \in Id |-> None]

\* One seeded category, as yet without a list.
Init ==
    /\ \E u \in Url : categories = [n \in Id |-> IF n = 1 THEN [url |-> u, hash |-> None]
                                                         ELSE None]
    /\ manual = [n \in Id |-> {}] /\ subscribed = [n \in Id |-> {}]
    /\ files \in Served
    /\ todo = [s \in Syncer |-> NoRows] /\ fetching = [s \in Syncer |-> 0]
    /\ read = [s \in Syncer |-> {}] /\ skipped = [s \in Syncer |-> {}]
    /\ got = [s \in Syncer |-> {}]
    /\ backup = None
    /\ forgotten = [n \in Id |-> FALSE]
    /\ spent = [k \in DOMAIN Bound |-> 0]

-----------------------------------------------------------------------------
(* Synchronisation                                                         *)

Idle(s) == todo[s] = NoRows

\* SELECT * FROM categories: the loop and "sync all" take every subscribed row,
\* "sync now" one, the bulk action some.
Begin(s) ==
    /\ Idle(s)
    /\ \E S \in IF s = Loop THEN {{n \in Id : Subscribed(n)}}
                ELSE SUBSET {n \in Id : Subscribed(n)} :
          /\ S # {}
          /\ todo' = [todo EXCEPT ![s] = [n \in Id |-> IF n \in S THEN categories[n] ELSE None]]
    /\ UNCHANGED <<tables, files, fetching, read, skipped, got, backup, spent>>

\* The rows of a run are taken one after the other; _fetch of the list itself.
Fetch(s, n) ==
    /\ fetching[s] = 0 /\ todo[s][n] # None
    /\ LET url == todo[s][n].url
       IN  /\ fetching' = [fetching EXCEPT ![s] = n]
           /\ read' = [read EXCEPT ![s] = {url}]
           /\ got' = [got EXCEPT ![s] = files[url]]
    /\ UNCHANGED <<tables, files, todo, skipped, backup, spent>>

\* CategoryFetchError: the category is left as it is and the run goes on.
FetchFails(s, n) ==
    /\ fetching[s] = 0 /\ todo[s][n] # None
    /\ Spend("failures")
    /\ todo' = [todo EXCEPT ![s][n] = None]
    /\ UNCHANGED <<tables, files, fetching, read, skipped, got, backup>>

\* _resolve_includes: the files named by those read so far, none of them twice.
Unvisited(s) ==
    {v \in Url : \E u \in read[s] : <<u, v>> \in Includes} \ (read[s] \union skipped[s])

FetchInclude(s, v) ==
    /\ fetching[s] # 0 /\ v \in Unvisited(s)
    /\ read' = [read EXCEPT ![s] = @ \union {v}]
    /\ got' = [got EXCEPT ![s] = @ \union files[v]]
    /\ UNCHANGED <<tables, files, todo, fetching, skipped, backup, spent>>

\* ... an unreachable one is skipped, with a warning, until a later run reaches it. (The
\* include graphs here are below the caps on files and bytes, which cut a larger one
\* in the same place every time.)
SkipInclude(s, v) ==
    /\ fetching[s] # 0 /\ v \in Unvisited(s)
    /\ Spend("failures")
    /\ skipped' = [skipped EXCEPT ![s] = @ \union {v}]
    /\ UNCHANGED <<tables, files, todo, fetching, read, got, backup>>

\* Nothing of a finished list is kept.
Done(s) ==
    /\ fetching' = [fetching EXCEPT ![s] = 0]
    /\ read' = [read EXCEPT ![s] = {}] /\ skipped' = [skipped EXCEPT ![s] = {}]
    /\ got' = [got EXCEPT ![s] = {}]

\* Mutant: without the DELETE.
ReplaceAccumulates(n, list) ==
    /\ subscribed' = [subscribed EXCEPT ![n] = (@ \union list) \ manual[n]]
    /\ categories' = [categories EXCEPT ![n].hash = list]
    /\ forgotten' = [forgotten EXCEPT ![n] = FALSE]
    /\ UNCHANGED manual

\* DELETE the subscription rows, INSERT OR IGNORE the new ones, UPDATE the hash.
Replace(n, list) ==
    /\ subscribed' = [subscribed EXCEPT ![n] = list \ manual[n]]
    /\ categories' = [categories EXCEPT ![n].hash = list]
    /\ forgotten' = [forgotten EXCEPT ![n] = FALSE]
    /\ UNCHANGED manual

\* The end of fetch_and_sync_category.
Settle(s) ==
    LET n == fetching[s]
    IN  /\ todo' = [todo EXCEPT ![s][n] = None]
        /\ Done(s)
        /\ UNCHANGED <<files, backup, spent>>

\* The list hashes as the row did when this run read it: only last_synced_at moves.
StoreUnchanged(s) ==
    /\ fetching[s] # 0 /\ Unvisited(s) = {}
    /\ got[s] = todo[s][fetching[s]].hash
    /\ UNCHANGED tables
    /\ Settle(s)

\* Mutant: a category that has a hash counts as synchronised.
ReadyOnce(s) ==
    /\ fetching[s] # 0 /\ Unvisited(s) = {}
    /\ todo[s][fetching[s]].hash = None

\* The list is complete and is not the one the row's hash stands for.
Ready(s) ==
    /\ fetching[s] # 0 /\ Unvisited(s) = {}
    /\ got[s] # todo[s][fetching[s]].hash

\* Mutant: foreign keys are not enforced, and a late list goes to a deleted category.
StoreNoForeignKey(s) ==
    /\ Ready(s)
    /\ IF Exists(fetching[s])
       THEN Replace(fetching[s], got[s])
       ELSE /\ subscribed' = [subscribed EXCEPT ![fetching[s]] = got[s]]
            /\ UNCHANGED <<categories, manual, forgotten>>
    /\ Settle(s)

\* One BEGIN IMMEDIATE transaction; statements about a deleted category find no row.
Store(s) ==
    /\ Ready(s)
    /\ IF Exists(fetching[s]) THEN Replace(fetching[s], got[s])
                              ELSE got[s] = {} /\ UNCHANGED tables
    /\ Settle(s)

\* The category is gone, so an INSERT breaks its foreign key: the transaction rolls back
\* and the IntegrityError ends the whole run.
StoreRaises(s) ==
    /\ Ready(s)
    /\ ~Exists(fetching[s]) /\ got[s] # {}
    /\ todo' = [todo EXCEPT ![s] = NoRows]
    /\ Done(s)
    /\ UNCHANGED <<tables, files, backup, spent>>

\* The dashboard or the controller restarts and its threads are gone.
Restart(S) ==
    /\ \E s \in S : ~Idle(s)
    /\ Spend("failures")
    /\ todo' = [s \in Syncer |-> IF s \in S THEN NoRows ELSE todo[s]]
    /\ fetching' = [s \in Syncer |-> IF s \in S THEN 0 ELSE fetching[s]]
    /\ read' = [s \in Syncer |-> IF s \in S THEN {} ELSE read[s]]
    /\ skipped' = [s \in Syncer |-> IF s \in S THEN {} ELSE skipped[s]]
    /\ got' = [s \in Syncer |-> IF s \in S THEN {} ELSE got[s]]
    /\ UNCHANGED <<tables, files, backup>>

-----------------------------------------------------------------------------
(* The administrator                                                       *)

\* INTEGER PRIMARY KEY without AUTOINCREMENT: one above the highest id in use.
NextId(n) == (\A k \in Id : k >= n => ~Exists(k)) /\ (n = 1 \/ Exists(n - 1))

\* add_category; with a URL, the same thread synchronises the new row at once.
AddCategory(r, n, url) ==
    /\ Idle(r) /\ NextId(n)
    /\ Spend("edits")
    /\ categories' = [categories EXCEPT ![n] = [url |-> url, hash |-> None]]
    /\ todo' = IF url = None THEN todo ELSE [todo EXCEPT ![r][n] = categories'[n]]
    /\ UNCHANGED <<manual, subscribed, forgotten, files, fetching, read, skipped, got, backup>>

\* delete_category; its domains go with it.
DeleteCategory(n) ==
    /\ Exists(n)
    /\ Spend("edits")
    /\ categories' = [categories EXCEPT ![n] = None]
    /\ manual' = [manual EXCEPT ![n] = {}] /\ subscribed' = [subscribed EXCEPT ![n] = {}]
    /\ forgotten' = [forgotten EXCEPT ![n] = FALSE]
    /\ UNCHANGED <<files, syncing, backup>>

\* update_category_subscription: the old rows go, the old hash stays.
SetSubscription(n, url) ==
    /\ Exists(n) /\ categories[n].url # url
    /\ Spend("edits")
    /\ subscribed' = [subscribed EXCEPT ![n] = {}]
    /\ categories' = [categories EXCEPT ![n].url = url]
    /\ forgotten' = [forgotten EXCEPT ![n] = @ \/ categories[n].hash # None]
    /\ UNCHANGED <<manual, files, syncing, backup>>

\* add_category_domain and bulk_add_category_domains: INSERT OR IGNORE.
AddDomains(n, new) ==
    /\ Exists(n) /\ ~(new \subseteq manual[n] \union subscribed[n])
    /\ Spend("edits")
    /\ manual' = [manual EXCEPT ![n] = @ \union (new \ subscribed[n])]
    /\ UNCHANGED <<categories, subscribed, forgotten, files, syncing, backup>>

\* delete_category_domain, for a manual row.
DeleteDomain(n, d) ==
    /\ Exists(n) /\ d \in manual[n]
    /\ Spend("edits")
    /\ manual' = [manual EXCEPT ![n] = @ \ {d}]
    /\ forgotten' = [forgotten EXCEPT ![n] = @ \/ categories[n].hash # None]
    /\ UNCHANGED <<categories, subscribed, files, syncing, backup>>

\* export_config reads table after table: whole rows of categories first,
ExportCategories ==
    /\ backup = None
    /\ backup' = [categories |-> categories, manual |-> None]
    /\ UNCHANGED <<tables, files, syncing, spent>>

\* ... and the manual rows of category_domains last.
ExportDomains ==
    /\ backup # None /\ backup.manual = None
    /\ backup' = [backup EXCEPT !.manual = manual]
    /\ UNCHANGED <<tables, files, syncing, spent>>

\* restore_config replaces every table in one transaction, which rolls back if a domain
\* of the backup has no category there.
Restore ==
    /\ backup # None /\ backup.manual # None
    /\ \A n \in Id : backup.manual[n] # {} => backup.categories[n] # None
    /\ Spend("restores")
    /\ categories' = backup.categories
    /\ manual' = backup.manual
    /\ subscribed' = [n \in Id |-> {}]
    /\ forgotten' = [n \in Id |-> IF backup.categories[n] = None THEN FALSE
                                 ELSE backup.categories[n].hash # None]
    /\ UNCHANGED <<files, syncing, backup>>

\* The maintainers of a list change one of its files.
Publish(u) ==
    /\ Spend("publishes")
    /\ \E list \in SUBSET Domain \ {files[u]} : files' = [files EXCEPT ![u] = list]
    /\ UNCHANGED <<tables, syncing, backup>>

-----------------------------------------------------------------------------
Progress(s) ==
    \/ \E n \in Id : Fetch(s, n)
    \/ \E v \in Url : FetchInclude(s, v)
    \/ StoreUnchanged(s) \/ Store(s) \/ StoreRaises(s)

Next ==
    \/ \E s \in Syncer : Begin(s) \/ Progress(s)
    \/ \E s \in Syncer : \/ \E n \in Id : FetchFails(s, n)
                         \/ \E v \in Url : SkipInclude(s, v)
    \/ Restart({Loop}) \/ Restart(Route)
    \/ \E r \in Route, n \in Id, url \in Url \union {None} : AddCategory(r, n, url)
    \/ \E n \in Id : DeleteCategory(n) \/ \E url \in Url \union {None} : SetSubscription(n, url)
    \/ \E n \in Id, new \in SUBSET Domain : AddDomains(n, new)
    \/ \E n \in Id, d \in Domain : DeleteDomain(n, d)
    \/ ExportCategories \/ ExportDomains \/ Restore
    \/ \E u \in Url : Publish(u)

Spec == Init /\ [][Next]_vars

\* The loop comes round every interval while the controller runs, and a run that has
\* begun goes on; nobody is made to edit, and no fetch to fail.
FairSpec == Spec /\ WF_vars(Begin(Loop)) /\ \A s \in Syncer : WF_vars(Progress(s))

-----------------------------------------------------------------------------
(* Properties.                                                             *)

\* "Replace, don't accumulate": whatever syncs, edits and restores overlap, every
\* subscribed row of a category is of the list its last_subscription_hash stands for.
NoLeftovers ==
    \A n \in Id : subscribed[n] # {} => /\ categories[n].hash # None
                                        /\ subscribed[n] \subseteq categories[n].hash

\* What a list holds: its own file and all that it includes.
Reach(u) ==
    {v \in Url : \A C \in SUBSET Url :
        u \in C /\ (\A e \in Includes : e[1] \in C => e[2] \in C) => v \in C}
Listed(n) == UNION {files[v] : v \in Reach(categories[n].url)}

\* Once it is left alone, a subscribed category blocks what its list names and nothing
\* the list has dropped, unless rows were lost that the hash still stands for: overlapping
\* runs, stale rows, partial lists, reissued ids and failed runs are all made up for.
Converges ==
    <>[](\A n \in Id : Subscribed(n) =>
            /\ subscribed[n] \subseteq Listed(n)
            /\ \/ Listed(n) \subseteq subscribed[n] \union manual[n]
               \/ forgotten[n] /\ categories[n].hash = Listed(n))

\* backup.py: after a restore "the next sync (scheduled, or a manual "Sync now" click)
\* repopulates the rest".
SyncRepopulates ==
    <>[](\A n \in Id : Subscribed(n) => Listed(n) \subseteq subscribed[n] \union manual[n])
=============================================================================
