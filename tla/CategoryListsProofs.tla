------------------------- MODULE CategoryListsProofs -------------------------
(***************************************************************************)
(* Type correctness of CategoryLists, and that no row of an earlier list   *)
(* stays in a category, for every set of domains, files and threads.       *)
(*                                                                         *)
(* The invariant is the conjunction of what is true of the tables, of the  *)
(* runs in flight (the rows they read were subscribed) and of the rest.    *)
(***************************************************************************)
EXTENDS CategoryLists, TLAPS

Kinds == {"edits", "restores", "publishes", "failures"}

TablesOK ==
    /\ categories \in [Id -> {None} \union Row]
    /\ manual \in [Id -> SUBSET Domain] /\ subscribed \in [Id -> SUBSET Domain]
    /\ \A n \in Id : manual[n] \intersect subscribed[n] = {}
    /\ \A n \in Id : categories[n] = None => manual[n] = {} /\ subscribed[n] = {}
    /\ forgotten \in [Id -> BOOLEAN]
    /\ NoLeftovers

RunsOK ==
    /\ todo \in [Syncer -> [Id -> {None} \union Row]]
    /\ \A s \in Syncer, n \in Id : todo[s][n] # None => todo[s][n].url \in Url
    /\ fetching \in [Syncer -> Id \union {0}]
    /\ read \in [Syncer -> SUBSET Url] /\ skipped \in [Syncer -> SUBSET Url]
    /\ got \in [Syncer -> SUBSET Domain]

FilesOK == files \in [Url -> SUBSET Domain]

BackupOK == backup \in {None} \union [categories: [Id -> {None} \union Row],
                                      manual: {None} \union [Id -> SUBSET Domain]]

SpentOK == spent \in [Kinds -> Nat] /\ \A k \in Kinds : spent[k] <= Bound[k]

IInv == TablesOK /\ RunsOK /\ FilesOK /\ BackupOK /\ SpentOK

-----------------------------------------------------------------------------
LEMMA BoundIs ==
    /\ DOMAIN Bound = Kinds
    /\ \A k \in Kinds : Bound[k] \in Nat
BY BoundAssumption DEF Bound, Kinds

LEMMA SpendKeeps ==
    ASSUME SpentOK, NEW k \in Kinds, Spend(k)
    PROVE  SpentOK'
<1>1. spent \in [Kinds -> Nat] /\ spent[k] < Bound[k] /\ spent' = [spent EXCEPT ![k] = @ + 1]
  BY DEF SpentOK, Spend
<1>2. spent' \in [Kinds -> Nat]
  BY <1>1
<1>3. \A j \in Kinds : spent'[j] <= Bound[j]
  BY <1>1, BoundIs DEF SpentOK
<1>4. QED  BY <1>2, <1>3 DEF SpentOK, Bound

LEMMA InvImpliesTypeOK == IInv => TypeOK /\ NoLeftovers
<1> SUFFICES ASSUME IInv PROVE TypeOK /\ NoLeftovers
  OBVIOUS
<1>1. \A n \in Id : ~Exists(n) => manual[n] \union subscribed[n] = {}
  BY DEF IInv, TablesOK, Exists
<1>2. spent \in [DOMAIN Bound -> Nat] /\ \A k \in DOMAIN Bound : spent[k] <= Bound[k]
  BY BoundIs DEF IInv, SpentOK
<1>3. QED  BY <1>1, <1>2 DEF IInv, TablesOK, RunsOK, FilesOK, BackupOK, TypeOK

LEMMA InitIInv == Init => IInv
<1> SUFFICES ASSUME Init PROVE IInv
  OBVIOUS
<1>1. TablesOK
  <2>1. PICK u \in Url : categories = [n \in Id |-> IF n = 1 THEN [url |-> u, hash |-> None]
                                                            ELSE None]
    BY DEF Init
  <2>2. [url |-> u, hash |-> None] \in Row
    BY DEF Row
  <2>3. categories \in [Id -> {None} \union Row]
    BY <2>1, <2>2
  <2>4. QED  BY <2>3 DEF Init, TablesOK, NoLeftovers
<1>2. RunsOK
  BY DEF Init, RunsOK, NoRows
<1>3. FilesOK /\ BackupOK
  BY ServedAssumption DEF Init, FilesOK, BackupOK
<1>4. SpentOK
  BY BoundIs DEF Init, SpentOK
<1>5. QED  BY <1>1, <1>2, <1>3, <1>4 DEF IInv

-----------------------------------------------------------------------------
(* Runs                                                                    *)

LEMMA TablesStay == TablesOK /\ UNCHANGED tables => TablesOK'
BY DEF tables, TablesOK, NoLeftovers

LEMMA RunsStay == RunsOK /\ UNCHANGED syncing => RunsOK'
BY DEF syncing, RunsOK

\* A run that gives up one of its rows, or all of them, keeps its types.
LEMMA TodoLess ==
    ASSUME RunsOK, NEW s \in Syncer, NEW left \in [Id -> {None} \union Row],
           \A n \in Id : left[n] # None => left[n] = todo[s][n],
           todo' = [todo EXCEPT ![s] = left]
    PROVE  /\ todo' \in [Syncer -> [Id -> {None} \union Row]]
           /\ \A t \in Syncer, n \in Id : todo'[t][n] # None => todo'[t][n].url \in Url
<1>1. todo \in [Syncer -> [Id -> {None} \union Row]]
  BY DEF RunsOK
<1>2. todo' \in [Syncer -> [Id -> {None} \union Row]]
  BY <1>1
<1>3. ASSUME NEW t \in Syncer, NEW n \in Id, todo'[t][n] # None
      PROVE  todo'[t][n].url \in Url
  <2>1. todo'[t][n] = todo[t][n]
    BY <1>1, <1>3
  <2>2. QED  BY <1>3, <2>1 DEF RunsOK
<1>4. QED  BY <1>2, <1>3

LEMMA DoneTyped ==
    ASSUME RunsOK, NEW s \in Syncer, Done(s)
    PROVE  /\ fetching' \in [Syncer -> Id \union {0}]
           /\ read' \in [Syncer -> SUBSET Url] /\ skipped' \in [Syncer -> SUBSET Url]
           /\ got' \in [Syncer -> SUBSET Domain]
BY DEF RunsOK, Done

LEMMA SettleKeeps ==
    ASSUME RunsOK, NEW s \in Syncer, fetching[s] \in Id, Settle(s)
    PROVE  RunsOK'
<1> DEFINE left == [todo[s] EXCEPT ![fetching[s]] = None]
<1>1. todo[s] \in [Id -> {None} \union Row]
  BY DEF RunsOK
<1>2. left \in [Id -> {None} \union Row] /\ \A n \in Id : left[n] # None => left[n] = todo[s][n]
  BY <1>1
<1>3. todo' = [todo EXCEPT ![s] = left] /\ Done(s)
  BY DEF Settle
<1> HIDE DEF left
<1>4. QED  BY <1>2, <1>3, TodoLess, DoneTyped DEF RunsOK

LEMMA Rows == \A r \in Row : r.url \in {None} \union Url /\ r.hash \in {None} \union SUBSET Domain
BY DEF Row

LEMMA BeginKeeps == ASSUME IInv, NEW s \in Syncer, Begin(s) PROVE IInv'
<1>1. PICK S \in SUBSET {n \in Id : Subscribed(n)} :
        todo' = [todo EXCEPT ![s] = [n \in Id |-> IF n \in S THEN categories[n] ELSE None]]
  BY DEF Begin
<1> DEFINE taken == [n \in Id |-> IF n \in S THEN categories[n] ELSE None]
<1>2. taken \in [Id -> {None} \union Row]
  BY DEF IInv, TablesOK
<1>3. ASSUME NEW n \in Id, taken[n] # None
      PROVE  taken[n].url \in Url
  <2>1. n \in S /\ taken[n] = categories[n] /\ categories[n] \in Row
    BY <1>3 DEF IInv, TablesOK
  <2>2. categories[n].url # None
    BY <2>1 DEF Subscribed
  <2>3. QED  BY <2>1, <2>2, Rows
<1>4. todo \in [Syncer -> [Id -> {None} \union Row]] /\ todo' = [todo EXCEPT ![s] = taken]
  BY <1>1 DEF IInv, RunsOK
<1> HIDE DEF taken
<1>5. todo' \in [Syncer -> [Id -> {None} \union Row]]
  BY <1>2, <1>4
<1>6. \A t \in Syncer, n \in Id : todo'[t][n] # None => todo'[t][n].url \in Url
  BY <1>3, <1>4 DEF IInv, RunsOK
<1>7. UNCHANGED <<tables, files, fetching, read, skipped, got, backup, spent>>
  BY DEF Begin
<1>8. RunsOK'
  BY <1>5, <1>6, <1>7 DEF IInv, RunsOK
<1>9. QED  BY <1>7, <1>8, TablesStay DEF IInv, FilesOK, BackupOK, SpentOK, Bound

LEMMA FetchKeeps == ASSUME IInv, NEW s \in Syncer, NEW n \in Id, Fetch(s, n) PROVE IInv'
<1>1. todo[s][n].url \in Url
  BY DEF Fetch, IInv, RunsOK
<1>2. RunsOK'
  BY <1>1 DEF Fetch, IInv, RunsOK, FilesOK
<1>3. QED  BY <1>2, TablesStay DEF Fetch, IInv, FilesOK, BackupOK, SpentOK, Bound

LEMMA FetchFailsKeeps == ASSUME IInv, NEW s \in Syncer, NEW n \in Id, FetchFails(s, n) PROVE IInv'
<1> DEFINE left == [todo[s] EXCEPT ![n] = None]
<1>1. todo[s] \in [Id -> {None} \union Row]
  BY DEF IInv, RunsOK
<1>2. left \in [Id -> {None} \union Row] /\ \A k \in Id : left[k] # None => left[k] = todo[s][k]
  BY <1>1
<1>3. todo' = [todo EXCEPT ![s] = left]
  BY DEF FetchFails
<1> HIDE DEF left
<1>4. RunsOK'
  BY <1>2, <1>3, TodoLess DEF FetchFails, IInv, RunsOK
<1>5. SpentOK'
  BY SpendKeeps DEF FetchFails, IInv, Kinds
<1>6. QED  BY <1>4, <1>5, TablesStay DEF FetchFails, IInv, FilesOK, BackupOK

LEMMA FetchIncludeKeeps ==
    ASSUME IInv, NEW s \in Syncer, NEW v \in Url, FetchInclude(s, v) PROVE IInv'
<1>1. RunsOK'
  BY DEF FetchInclude, IInv, RunsOK, FilesOK
<1>2. QED  BY <1>1, TablesStay DEF FetchInclude, IInv, FilesOK, BackupOK, SpentOK, Bound

LEMMA SkipIncludeKeeps ==
    ASSUME IInv, NEW s \in Syncer, NEW v \in Url, SkipInclude(s, v) PROVE IInv'
<1>1. RunsOK'
  BY DEF SkipInclude, IInv, RunsOK
<1>2. SpentOK'
  BY SpendKeeps DEF SkipInclude, IInv, Kinds
<1>3. QED  BY <1>1, <1>2, TablesStay DEF SkipInclude, IInv, FilesOK, BackupOK

LEMMA RestartKeeps == ASSUME IInv, NEW S, Restart(S) PROVE IInv'
<1>1. NoRows \in [Id -> {None} \union Row] /\ \A n \in Id : NoRows[n] = None
  BY DEF NoRows
<1>2. todo' = [s \in Syncer |-> IF s \in S THEN NoRows ELSE todo[s]]
  BY DEF Restart
<1>3. todo \in [Syncer -> [Id -> {None} \union Row]]
  BY DEF IInv, RunsOK
<1>4. todo' \in [Syncer -> [Id -> {None} \union Row]]
  BY <1>1, <1>2, <1>3
<1>5. \A t \in Syncer, n \in Id : todo'[t][n] # None => todo'[t][n].url \in Url
  BY <1>1, <1>2 DEF IInv, RunsOK
<1>6. RunsOK'
  BY <1>4, <1>5 DEF Restart, IInv, RunsOK
<1>7. SpentOK'
  BY SpendKeeps DEF Restart, IInv, Kinds
<1>8. QED  BY <1>6, <1>7, TablesStay DEF Restart, IInv, FilesOK, BackupOK

-----------------------------------------------------------------------------
(* Tables                                                                  *)

\* A change of one category is a change of its row and of its domains.
LEMMA OneCategory ==
    ASSUME TablesOK, NEW n \in Id,
           categories' \in [Id -> {None} \union Row],
           manual' \in [Id -> SUBSET Domain], subscribed' \in [Id -> SUBSET Domain],
           forgotten' \in [Id -> BOOLEAN],
           \A k \in Id \ {n} : /\ categories'[k] = categories[k] /\ manual'[k] = manual[k]
                               /\ subscribed'[k] = subscribed[k],
           manual'[n] \intersect subscribed'[n] = {},
           categories'[n] = None => manual'[n] = {} /\ subscribed'[n] = {},
           subscribed'[n] # {} => /\ categories'[n].hash # None
                                  /\ subscribed'[n] \subseteq categories'[n].hash
    PROVE  TablesOK'
<1>1. \A k \in Id : manual'[k] \intersect subscribed'[k] = {}
  BY DEF TablesOK
<1>2. \A k \in Id : categories'[k] = None => manual'[k] = {} /\ subscribed'[k] = {}
  BY DEF TablesOK
<1>3. NoLeftovers'
  BY DEF TablesOK, NoLeftovers
<1>4. QED  BY <1>1, <1>2, <1>3 DEF TablesOK

\* The new rows are of the list whose hash is stored with them.
LEMMA ReplaceKeeps ==
    ASSUME TablesOK, NEW n \in Id, Exists(n), NEW list \in SUBSET Domain, Replace(n, list)
    PROVE  TablesOK'
<1>1. categories \in [Id -> {None} \union Row] /\ categories[n] \in Row
  BY DEF TablesOK, Exists
<1>2. [categories[n] EXCEPT !.hash = list] \in Row /\ [categories[n] EXCEPT !.hash = list].hash = list
  BY <1>1 DEF Row
<1>3. categories' = [categories EXCEPT ![n] = [categories[n] EXCEPT !.hash = list]]
  BY DEF Replace
<1>4. categories' \in [Id -> {None} \union Row] /\ categories'[n].hash = list /\ categories'[n] \in Row
  BY <1>1, <1>2, <1>3
<1>5. categories'[n] # None /\ list # None
  BY <1>4, NoRowAssumption, NoneAssumption
<1>6. \A k \in Id \ {n} : categories'[k] = categories[k]
  BY <1>1, <1>3
<1>7. /\ manual' \in [Id -> SUBSET Domain] /\ manual' = manual
      /\ subscribed' \in [Id -> SUBSET Domain] /\ subscribed'[n] = list \ manual[n]
      /\ \A k \in Id \ {n} : subscribed'[k] = subscribed[k]
      /\ forgotten' \in [Id -> BOOLEAN]
  BY DEF Replace, TablesOK
<1>8. QED  BY <1>4, <1>5, <1>6, <1>7, OneCategory

LEMMA StoreUnchangedKeeps == ASSUME IInv, NEW s \in Syncer, StoreUnchanged(s) PROVE IInv'
<1>1. fetching[s] \in Id
  BY DEF StoreUnchanged, IInv, RunsOK
<1>2. RunsOK'
  BY <1>1, SettleKeeps DEF StoreUnchanged, IInv
<1>3. QED  BY <1>2, TablesStay DEF StoreUnchanged, Settle, IInv, FilesOK, BackupOK, SpentOK, Bound

LEMMA StoreKeeps == ASSUME IInv, NEW s \in Syncer, Store(s) PROVE IInv'
<1>1. fetching[s] \in Id /\ got[s] \in SUBSET Domain
  BY DEF Store, Ready, IInv, RunsOK
<1>2. RunsOK'
  BY <1>1, SettleKeeps DEF Store, IInv
<1>3. TablesOK'
  <2>1. CASE Exists(fetching[s])
    BY <1>1, <2>1, ReplaceKeeps DEF Store, IInv
  <2>2. CASE ~Exists(fetching[s])
    BY <2>2, TablesStay DEF Store, IInv
  <2>3. QED  BY <2>1, <2>2
<1>4. QED  BY <1>2, <1>3 DEF Store, Settle, IInv, FilesOK, BackupOK, SpentOK, Bound

LEMMA StoreRaisesKeeps == ASSUME IInv, NEW s \in Syncer, StoreRaises(s) PROVE IInv'
<1>1. NoRows \in [Id -> {None} \union Row] /\ \A n \in Id : NoRows[n] # None => NoRows[n] = todo[s][n]
  BY DEF NoRows
<1>2. todo' = [todo EXCEPT ![s] = NoRows] /\ Done(s)
  BY DEF StoreRaises
<1>3. RunsOK'
  BY <1>1, <1>2, TodoLess, DoneTyped DEF IInv, RunsOK
<1>4. QED  BY <1>3, TablesStay DEF StoreRaises, IInv, FilesOK, BackupOK, SpentOK, Bound

-----------------------------------------------------------------------------
(* The administrator                                                       *)

\* A reissued id has no rows of the category that had it before.
LEMMA AddCategoryKeeps ==
    ASSUME IInv, NEW r \in Route, NEW n \in Id, NEW url \in Url \union {None},
           AddCategory(r, n, url)
    PROVE  IInv'
<1> DEFINE new == [url |-> url, hash |-> None]
<1>1. new \in Row /\ new # None /\ new.url = url
  BY NoRowAssumption DEF Row
<1>2. categories \in [Id -> {None} \union Row] /\ categories' = [categories EXCEPT ![n] = new]
  BY DEF AddCategory, IInv, TablesOK
<1>3. /\ todo \in [Syncer -> [Id -> {None} \union Row]] /\ r \in Syncer
      /\ todo' = IF url = None THEN todo
                 ELSE [todo EXCEPT ![r] = [todo[r] EXCEPT ![n] = categories'[n]]]
  BY DEF AddCategory, IInv, RunsOK, Syncer
<1> HIDE DEF new
<1>4. categories' \in [Id -> {None} \union Row] /\ categories'[n] = new
  BY <1>1, <1>2
<1>5. \A k \in Id \ {n} : categories'[k] = categories[k]
  BY <1>2
<1>6. categories[n] = None
  <2>1. n \in Nat
    BY BoundAssumption DEF Id
  <2>2. ~Exists(n)
    BY <2>1 DEF AddCategory, NextId
  <2>3. QED  BY <2>2 DEF Exists
<1>7. manual[n] = {} /\ subscribed[n] = {} /\ UNCHANGED <<manual, subscribed, forgotten>>
  BY <1>6 DEF AddCategory, IInv, TablesOK
<1>8. TablesOK'
  BY <1>1, <1>4, <1>5, <1>7, OneCategory DEF IInv, TablesOK
<1>9. RunsOK'
  <2>1. CASE url = None
    BY <1>3, <2>1, RunsStay DEF AddCategory, IInv, syncing
  <2>2. CASE url # None
    <3> DEFINE row == [todo[r] EXCEPT ![n] = new]
    <3>1. /\ todo[r] \in [Id -> {None} \union Row]
          /\ row \in [Id -> {None} \union Row] /\ row[n] = new
          /\ \A k \in Id \ {n} : row[k] = todo[r][k]
      BY <1>1, <1>3
    <3>2. todo' = [todo EXCEPT ![r] = row]
      BY <1>3, <1>4, <2>2
    <3> HIDE DEF row
    <3>3. todo' \in [Syncer -> [Id -> {None} \union Row]]
      BY <1>3, <3>1, <3>2
    <3>4. \A k \in Id : row[k] # None => row[k].url \in Url
      BY <1>1, <1>3, <2>2, <3>1 DEF IInv, RunsOK
    <3>5. \A t \in Syncer, k \in Id : todo'[t][k] # None => todo'[t][k].url \in Url
      BY <1>3, <3>2, <3>4 DEF IInv, RunsOK
    <3>6. QED  BY <3>3, <3>5 DEF AddCategory, IInv, RunsOK
  <2>3. QED  BY <2>1, <2>2
<1>10. SpentOK'
  BY SpendKeeps DEF AddCategory, IInv, Kinds
<1>11. QED  BY <1>8, <1>9, <1>10 DEF AddCategory, IInv, FilesOK, BackupOK

\* What every change of the tables alone leaves as it was.
LEMMA EditKeeps ==
    ASSUME IInv, Spend("edits"), TablesOK', UNCHANGED <<files, syncing, backup>>
    PROVE  IInv'
<1>1. SpentOK'
  BY SpendKeeps DEF IInv, Kinds
<1>2. QED  BY <1>1, RunsStay DEF IInv, FilesOK, BackupOK

LEMMA DeleteCategoryKeeps == ASSUME IInv, NEW n \in Id, DeleteCategory(n) PROVE IInv'
<1>1. /\ categories' \in [Id -> {None} \union Row]
      /\ manual' \in [Id -> SUBSET Domain] /\ subscribed' \in [Id -> SUBSET Domain]
      /\ forgotten' \in [Id -> BOOLEAN]
      /\ manual'[n] = {} /\ subscribed'[n] = {}
      /\ \A k \in Id \ {n} : /\ categories'[k] = categories[k] /\ manual'[k] = manual[k]
                             /\ subscribed'[k] = subscribed[k]
  BY DEF DeleteCategory, IInv, TablesOK
<1>2. TablesOK'
  BY <1>1, OneCategory DEF IInv
<1>3. QED  BY <1>2, EditKeeps DEF DeleteCategory

LEMMA SetSubscriptionKeeps ==
    ASSUME IInv, NEW n \in Id, NEW url \in Url \union {None}, SetSubscription(n, url)
    PROVE  IInv'
<1>1. categories \in [Id -> {None} \union Row] /\ categories[n] \in Row
  BY DEF SetSubscription, Exists, IInv, TablesOK
<1>2. [categories[n] EXCEPT !.url = url] \in Row
  BY <1>1 DEF Row
<1>3. categories' = [categories EXCEPT ![n] = [categories[n] EXCEPT !.url = url]]
  BY DEF SetSubscription
<1>4. categories' \in [Id -> {None} \union Row] /\ categories'[n] # None
  BY <1>1, <1>2, <1>3, NoRowAssumption
<1>5. /\ manual' \in [Id -> SUBSET Domain] /\ subscribed' \in [Id -> SUBSET Domain]
      /\ forgotten' \in [Id -> BOOLEAN]
      /\ subscribed'[n] = {}
      /\ \A k \in Id \ {n} : manual'[k] = manual[k] /\ subscribed'[k] = subscribed[k]
  BY DEF SetSubscription, IInv, TablesOK
<1>6. \A k \in Id \ {n} : categories'[k] = categories[k]
  BY <1>1, <1>3
<1>7. TablesOK'
  BY <1>4, <1>5, <1>6, OneCategory DEF IInv
<1>8. QED  BY <1>7, EditKeeps DEF SetSubscription

LEMMA AddDomainsKeeps ==
    ASSUME IInv, NEW n \in Id, NEW new \in SUBSET Domain, AddDomains(n, new) PROVE IInv'
<1>1. /\ manual' \in [Id -> SUBSET Domain]
      /\ manual'[n] = manual[n] \union (new \ subscribed[n])
      /\ \A k \in Id \ {n} : manual'[k] = manual[k]
      /\ categories[n] # None /\ UNCHANGED <<categories, subscribed, forgotten>>
  BY DEF AddDomains, Exists, IInv, TablesOK
<1>2. manual'[n] \intersect subscribed'[n] = {}
  BY <1>1 DEF IInv, TablesOK
<1>3. TablesOK'
  BY <1>1, <1>2, OneCategory DEF IInv, TablesOK, NoLeftovers
<1>4. QED  BY <1>3, EditKeeps DEF AddDomains

LEMMA DeleteDomainKeeps ==
    ASSUME IInv, NEW n \in Id, NEW d \in Domain, DeleteDomain(n, d) PROVE IInv'
<1>1. /\ manual' \in [Id -> SUBSET Domain] /\ forgotten' \in [Id -> BOOLEAN]
      /\ manual'[n] = manual[n] \ {d}
      /\ \A k \in Id \ {n} : manual'[k] = manual[k]
      /\ categories[n] # None /\ UNCHANGED <<categories, subscribed>>
  BY DEF DeleteDomain, Exists, IInv, TablesOK
<1>2. manual'[n] \intersect subscribed'[n] = {}
  BY <1>1 DEF IInv, TablesOK
<1>3. TablesOK'
  BY <1>1, <1>2, OneCategory DEF IInv, TablesOK, NoLeftovers
<1>4. QED  BY <1>3, EditKeeps DEF DeleteDomain

LEMMA ExportCategoriesKeeps == ASSUME IInv, ExportCategories PROVE IInv'
<1>1. BackupOK'
  BY DEF ExportCategories, IInv, TablesOK, BackupOK
<1>2. QED  BY <1>1, TablesStay, RunsStay DEF ExportCategories, IInv, FilesOK, SpentOK, Bound

LEMMA ExportDomainsKeeps == ASSUME IInv, ExportDomains PROVE IInv'
<1>1. BackupOK'
  BY DEF ExportDomains, IInv, TablesOK, BackupOK
<1>2. QED  BY <1>1, TablesStay, RunsStay DEF ExportDomains, IInv, FilesOK, SpentOK, Bound

\* No subscribed row is restored.
LEMMA RestoreKeeps ==
    ASSUME IInv, Restore
    PROVE  IInv'
<1>1. backup.categories \in [Id -> {None} \union Row] /\ backup.manual \in [Id -> SUBSET Domain]
  BY DEF Restore, IInv, BackupOK
<1>2. categories' \in [Id -> {None} \union Row] /\ manual' \in [Id -> SUBSET Domain]
  BY <1>1 DEF Restore
<1>3. subscribed' = [n \in Id |-> {}]
  BY DEF Restore
<1>4. forgotten' \in [Id -> BOOLEAN]
  BY DEF Restore
<1>5. \A n \in Id : categories'[n] = None => manual'[n] = {}
  BY DEF Restore
<1>6. TablesOK'
  BY <1>2, <1>3, <1>4, <1>5 DEF TablesOK, NoLeftovers
<1>7. SpentOK'
  BY SpendKeeps DEF Restore, IInv, Kinds
<1>8. QED  BY <1>6, <1>7, RunsStay DEF Restore, IInv, FilesOK, BackupOK

LEMMA PublishKeeps == ASSUME IInv, NEW u \in Url, Publish(u) PROVE IInv'
<1>1. FilesOK'
  BY DEF Publish, IInv, FilesOK
<1>2. SpentOK'
  BY SpendKeeps DEF Publish, IInv, Kinds
<1>3. QED  BY <1>1, <1>2, TablesStay, RunsStay DEF Publish, IInv, BackupOK

-----------------------------------------------------------------------------
LEMMA NextIInv == IInv /\ [Next]_vars => IInv'
<1> SUFFICES ASSUME IInv, [Next]_vars PROVE IInv'
  OBVIOUS
<1>1. ASSUME NEW s \in Syncer, Begin(s) \/ Progress(s) PROVE IInv'
  BY <1>1, BeginKeeps, FetchKeeps, FetchIncludeKeeps, StoreUnchangedKeeps, StoreKeeps,
     StoreRaisesKeeps DEF Progress
<1>2. ASSUME NEW s \in Syncer, NEW n \in Id, FetchFails(s, n) PROVE IInv'
  BY <1>2, FetchFailsKeeps
<1>3. ASSUME NEW s \in Syncer, NEW v \in Url, SkipInclude(s, v) PROVE IInv'
  BY <1>3, SkipIncludeKeeps
<1>4. CASE Restart({Loop}) \/ Restart(Route)
  BY <1>4, RestartKeeps
<1>5. ASSUME NEW r \in Route, NEW n \in Id, NEW url \in Url \union {None}, AddCategory(r, n, url)
      PROVE  IInv'
  BY <1>5, AddCategoryKeeps
<1>6. ASSUME NEW n \in Id, DeleteCategory(n) PROVE IInv'
  BY <1>6, DeleteCategoryKeeps
<1>7. ASSUME NEW n \in Id, NEW url \in Url \union {None}, SetSubscription(n, url) PROVE IInv'
  BY <1>7, SetSubscriptionKeeps
<1>8. ASSUME NEW n \in Id, NEW new \in SUBSET Domain, AddDomains(n, new) PROVE IInv'
  BY <1>8, AddDomainsKeeps
<1>9. ASSUME NEW n \in Id, NEW d \in Domain, DeleteDomain(n, d) PROVE IInv'
  BY <1>9, DeleteDomainKeeps
<1>10. CASE ExportCategories \/ ExportDomains \/ Restore
  BY <1>10, ExportCategoriesKeeps, ExportDomainsKeeps, RestoreKeeps
<1>11. ASSUME NEW u \in Url, Publish(u) PROVE IInv'
  BY <1>11, PublishKeeps
<1>12. CASE UNCHANGED vars
  BY <1>12, TablesStay, RunsStay DEF vars, IInv, FilesOK, BackupOK, SpentOK, Bound
<1>13. QED
  BY <1>1, <1>2, <1>3, <1>4, <1>5, <1>6, <1>7, <1>8, <1>9, <1>10, <1>11, <1>12 DEF Next

LEMMA Invariant == Spec => []IInv
BY InitIInv, NextIInv, PTL DEF Spec

\* In every reachable state the tables, the runs in flight and the backup hold what their
\* columns and variables may: no domain twice in a category, none without a category.
THEOREM TypeCorrect == Spec => []TypeOK
BY Invariant, InvImpliesTypeOK, PTL

\* Whatever runs, edits and restores overlap, and whichever of them die: a category's
\* subscribed rows are of the one list whose hash it keeps, never of two.
THEOREM NothingIsLeftOver == Spec => []NoLeftovers
BY Invariant, InvImpliesTypeOK, PTL
=============================================================================
