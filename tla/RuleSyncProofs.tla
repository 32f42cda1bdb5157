---------------------------- MODULE RuleSyncProofs ----------------------------
(***************************************************************************)
(* The administrator's rules, the event rows, the tables' foreign keys,    *)
(* windows, and what a cycle leaves in AdGuard, for any tables, audiences  *)
(* and bounds.                                                             *)
(*                                                                         *)
(* AdminRulesSurvive is not inductive: a block that lost its end marker    *)
(* would take the rules after it along.  The invariant says that what is   *)
(* owed lies outside of the managed block, in AdGuard's text (Kept) and,   *)
(* between the cycle's read and its write, in the text that was read       *)
(* (Spliced).                                                              *)
(*                                                                         *)
(* DnsAgreesWithDb speaks of the end of a cycle, and says nothing of the   *)
(* way there.  DInv says at every stage of a cycle that nobody disturbs    *)
(* what has been built from the tables and what AdGuard has still to be    *)
(* told; that merged rules block just what all of them together mean is a  *)
(* fact about the operators alone (AllMean, MergeBlocks).                  *)
(***************************************************************************)
EXTENDS RuleSync, SequenceTheorems, FiniteSetTheorems, WellFoundedInduction, TLAPS

\* The cycle is a record.
Shaped == {"at", "read"} \subseteq DOMAIN cycle

\* What is owed is not in the block.
Kept == owed \subseteq Outside(text)

\* What is owed is in what the cycle is about to write.
Spliced == cycle.at = "write" => owed \subseteq StripManagedBlock(cycle.read)

\* The state of the callbacks is the last row's, at any moment.
Honest == ~unsaid => (failing <=> event = "error")

\* The rules outside of the block are the administrator's.
Written(rules) ==
    /\ {"before", "after", "block", "closed", "stray"} \subseteq DOMAIN rules
    /\ rules.before \union rules.after \subseteq Foreign
Authored ==
    /\ Written(text)
    /\ page # None => Written(page)
    /\ cycle.at = "write" => Written(cycle.read)

OInv == Shaped /\ Kept /\ Spliced /\ Authored

-----------------------------------------------------------------------------
(* The splice.                                                             *)

\* What _strip_managed_block leaves is what lies outside of the markers.
LEMMA StripIsOutside == ASSUME NEW rules PROVE StripManagedBlock(rules) = Outside(rules)
  BY DEF StripManagedBlock, Outside

\* A step of the cycle that neither writes nor reads the rules goes on elsewhere.
GoesOn == /\ owed' = owed /\ text' = text /\ page' = page
          /\ DOMAIN cycle' = DOMAIN cycle /\ cycle'.at # "write"

LEMMA GoingOn == ASSUME OInv, GoesOn PROVE OInv'
  BY DEF OInv, GoesOn, Shaped, Kept, Spliced, Authored, Written, Outside, StripManagedBlock

\* So does one that leaves the cycle alone.
LEMMA Aside ==
    ASSUME OInv, owed' = owed, text' = text, cycle' = cycle, page' = page \/ page' = text PROVE OInv'
  BY DEF OInv, Shaped, Kept, Spliced, Authored, Written, Outside, StripManagedBlock

\* A remote call ends at one of two points of the cycle.
LEMMA CallEnds ==
    ASSUME NEW x, NEW y, NEW x_, NEW c, CycleCall(x, y, x_, c)
    PROVE  cycle' = c \/ cycle' = [cycle EXCEPT !.at = "failed"]
  BY DEF CycleCall

LEMMA ReadEnds ==
    ASSUME NEW c, CycleRead(c)
    PROVE  cycle' = c \/ cycle' = [cycle EXCEPT !.at = "failed"]
  BY DEF CycleRead

-----------------------------------------------------------------------------
(* The cycle.                                                              *)

LEMMA FetchKeeps == ASSUME OInv, FetchEligible PROVE OInv'
<1>1. GoesOn
  BY DEF FetchEligible, CycleLocal, adguardVars, GoesOn, OInv, Shaped
<1> QED  BY <1>1, GoingOn

LEMMA BuildKeeps == ASSUME OInv, BuildRules PROVE OInv'
<1>1. ASSUME NEW at, NEW next \in {"splice", "category", "ech", "allow", "read"}, NEW rules,
             Build(at, next, rules)
      PROVE  GoesOn
  BY <1>1 DEF Build, CycleLocal, adguardVars, GoesOn, OInv, Shaped
<1> QED  BY <1>1, GoingOn DEF BuildRules

\* The rules that are read are the text, in which everything owed is outside.
LEMMA GetKeeps == ASSUME OInv, GetCustomRules PROVE OInv'
<1> DEFINE c == [cycle EXCEPT !.at = "write", !.read = text,
                              !.rules = Merge(cycle.rules), !.eligible = <<>>]
<1>1. owed' = owed /\ text' = text /\ page' = page
  BY DEF GetCustomRules, CycleLocal, adguardVars
<1>2. CASE cycle' = [cycle EXCEPT !.at = "failed"]
  <2>1. GoesOn
    BY <1>1, <1>2 DEF GoesOn, OInv, Shaped
  <2> QED  BY <2>1, GoingOn
<1>3. CASE cycle' = c
  <2>1. Shaped' /\ cycle'.read = text
    BY <1>3 DEF OInv, Shaped
  <2>2. Kept'
    BY <1>1 DEF OInv, Kept, Outside
  <2>3. Spliced'
    BY <1>1, <2>1, <2>2, StripIsOutside DEF OInv, Kept, Spliced, StripManagedBlock, Outside
  <2>4. Authored'
    BY <1>1, <2>1 DEF OInv, Authored, Written
  <2> QED  BY <2>1, <2>2, <2>3, <2>4 DEF OInv
<1> QED
  <2> HIDE DEF c
  <2>1. CycleRead(c)
    BY DEF GetCustomRules, c
  <2> QED  BY <2>1, <1>2, <1>3, ReadEnds

\* The rules that are written are the kept ones before a block that is closed or absent.
LEMMA SetKeeps == ASSUME OInv, SetCustomRules PROVE OInv'
<1> DEFINE kept == StripManagedBlock(cycle.read)
           new == [before |-> kept, block |-> cycle.rules, closed |-> cycle.rules # {}, after |-> {},
                  stray |-> cycle.read.stray]
           done == [cycle EXCEPT !.at = "filters", !.rules = {}, !.read = None]
<1>1. owed' = owed /\ page' = page /\ cycle.at = "write"
  BY DEF SetCustomRules, CycleLocal
<1>2. /\ text' = text \/ text' = new
      /\ cycle' = done \/ cycle' = [cycle EXCEPT !.at = "failed"]
  <2>1. CASE new = cycle.read
    BY <2>1 DEF SetCustomRules
  <2>2. CASE new # cycle.read
    <3>1. CycleCall(text, new, text', done)
      BY <2>2 DEF SetCustomRules
    <3> QED  BY <3>1 DEF CycleCall
  <2> QED  BY <2>1, <2>2
<1>3. Outside(new) = kept
  BY DEF Outside
<1>4. owed \subseteq kept
  BY <1>1 DEF OInv, Spliced
<1>7. Written(new)
  BY <1>1 DEF OInv, Authored, Written, StripManagedBlock
<1> HIDE DEF new, kept
<1>5. Kept'
  <2>1. CASE text' = text  BY <2>1, <1>1 DEF OInv, Kept, Outside
  <2>2. CASE text' = new  BY <2>2, <1>1, <1>3, <1>4 DEF Kept, Outside
  <2> QED  BY <2>1, <2>2, <1>2
<1>6. Shaped' /\ cycle'.at # "write"
  BY <1>2 DEF OInv, Shaped
<1>8. Authored'
  BY <1>1, <1>2, <1>6, <1>7 DEF OInv, Authored, Written
<1> QED  BY <1>5, <1>6, <1>8 DEF OInv, Spliced

\* The calls after the rules.
LEMMA RestKeeps ==
    ASSUME OInv,
           \/ GetFiltersStatus \/ SyncFilter \/ DisableFilter
           \/ GetSafesearchStatus \/ SetSafesearchSettings \/ StartRewrite \/ OnError \/ OnSuccess
    PROVE  OInv'
<1>1. owed' = owed /\ text' = text /\ page' = page
  BY DEF GetFiltersStatus, SyncFilter, DisableFilter, GetSafesearchStatus, SetSafesearchSettings,
         StartRewrite, OnError, OnSuccess, CycleLocal, RewriteLocal, ReportLocal, adguardVars
<1>2. DOMAIN NextFilter = DOMAIN cycle /\ NextFilter.at # "write"
  BY DEF NextFilter, OInv, Shaped
<1>3. CASE GetFiltersStatus
  <2>1. PICK S : \/ cycle' = [cycle EXCEPT !.at = "safe"]
                 \/ cycle' = [cycle EXCEPT !.at = "filter", !.status = filters, !.left = S]
                 \/ cycle' = [cycle EXCEPT !.at = "failed"]
    BY <1>3 DEF GetFiltersStatus, CycleRead
  <2>2. GoesOn
    BY <1>1, <2>1 DEF GoesOn, OInv, Shaped
  <2> QED  BY <2>2, GoingOn
<1>4. CASE SyncFilter
  <2>1. \/ cycle' = NextFilter \/ cycle' = [cycle EXCEPT !.at = "disable"]
        \/ cycle' = [cycle EXCEPT !.at = "failed"]
    BY <1>4 DEF SyncFilter, CycleCall
  <2>2. GoesOn
    BY <1>1, <1>2, <2>1 DEF GoesOn, OInv, Shaped
  <2> QED  BY <2>2, GoingOn
<1>5. CASE DisableFilter
  <2>1. cycle' = NextFilter \/ cycle' = [cycle EXCEPT !.at = "failed"]
    BY <1>5 DEF DisableFilter, CycleCall
  <2>2. GoesOn
    BY <1>1, <1>2, <2>1 DEF GoesOn, OInv, Shaped
  <2> QED  BY <2>2, GoingOn
<1>6. CASE GetSafesearchStatus \/ SetSafesearchSettings
  <2>1. \/ cycle' = [cycle EXCEPT !.at = "rewrite"]
        \/ cycle' = [cycle EXCEPT !.at = "safe set", !.read = settings.safe]
        \/ cycle' = [cycle EXCEPT !.at = "rewrite", !.read = None]
        \/ cycle' = [cycle EXCEPT !.at = "failed"]
    BY <1>6 DEF GetSafesearchStatus, SetSafesearchSettings, CycleRead, CycleCall
  <2>2. GoesOn
    BY <1>1, <2>1 DEF GoesOn, OInv, Shaped
  <2> QED  BY <2>2, GoingOn
<1>7. CASE StartRewrite
  <2>1. \/ cycle' = cycle /\ cycle.at = "rewrite"
        \/ cycle' = [cycle EXCEPT !.at = "done"]
    BY <1>7 DEF StartRewrite, RewriteEnds
  <2>2. GoesOn
    BY <1>1, <2>1 DEF GoesOn, OInv, Shaped
  <2> QED  BY <2>2, GoingOn
<1>8. CASE OnError \/ OnSuccess
  BY <1>1, <1>8 DEF OnError, OnSuccess, Idle, OInv, Shaped, Kept, Spliced, Authored, Written, Outside
<1> QED  BY <1>3, <1>4, <1>5, <1>6, <1>7, <1>8

LEMMA RewriteKeeps == ASSUME OInv, NEW x, RewriteStep(x) PROVE OInv'
<1>1. owed' = owed /\ text' = text /\ page' = page
  BY DEF RewriteStep, GetRewrites, DeleteRewrite, AddRewrite, RewriteUnchanged, RewriteLocal
<1>2. cycle' = cycle \/ cycle' = [cycle EXCEPT !.at = "done"] \/ cycle' = [cycle EXCEPT !.at = "failed"]
  BY DEF RewriteStep, GetRewrites, DeleteRewrite, AddRewrite, RewriteUnchanged, RewriteEnds
<1>3. CASE cycle' = cycle
  BY <1>1, <1>3, Aside
<1>4. CASE cycle' # cycle
  <2>1. GoesOn
    BY <1>1, <1>2, <1>4 DEF GoesOn, OInv, Shaped
  <2> QED  BY <2>1, GoingOn
<1> QED  BY <1>3, <1>4

-----------------------------------------------------------------------------
(* Everybody else.                                                         *)

\* What is owed after a save lies outside of the saved text's block; while the cycle is
\* about to write, it also was owed before.
LEMMA SaveKeeps == ASSUME OInv, AdminSaves PROVE OInv'
<1>1. cycle' = cycle /\ owed' = IF cycle.at = "write" THEN owed \intersect Outside(text') ELSE Outside(text')
  BY DEF AdminSaves, Others
<1>2. Kept'
  BY <1>1 DEF Kept, Outside
<1>3. Spliced'
  BY <1>1 DEF OInv, Spliced, StripManagedBlock
<1>4. Authored'
  <2>1. page # None /\ page' = None
    BY DEF AdminSaves
  <2>2. Written(text')
    BY <2>1 DEF AdminSaves, OInv, Authored, Written
  <2> QED  BY <1>1, <2>1, <2>2 DEF OInv, Authored, Written
<1> QED  BY <1>1, <1>2, <1>3, <1>4 DEF OInv, Shaped

LEMMA OthersKeep ==
    ASSUME OInv,
           \/ UpdateFilteringSettings \/ SyncOptigateRewriteNow \/ UpdateAdmin \/ RestartAdguard
           \/ RestartController \/ AdminOpensPage \/ Household
    PROVE  OInv'
<1>1. CASE RestartController
  BY <1>1 DEF RestartController, adguardVars, Idle, OInv, Shaped, Kept, Spliced, Authored, Written, Outside
<1>2. CASE UpdateFilteringSettings \/ SyncOptigateRewriteNow \/ UpdateAdmin \/ RestartAdguard
            \/ AdminOpensPage \/ Household
  <2>1. owed' = owed /\ text' = text /\ cycle' = cycle /\ (page' = page \/ page' = text)
    BY <1>2 DEF UpdateFilteringSettings, SyncOptigateRewriteNow, UpdateAdmin, RestartAdguard,
                AdminOpensPage, Household, adguardVars, Others
  <2> QED  BY <2>1, Aside
<1> QED  BY <1>1, <1>2

-----------------------------------------------------------------------------
(* The theorems.                                                           *)

LEMMA InitKeeps == Init => OInv
  BY DEF Init, Idle, OInv, Shaped, Kept, Spliced, Authored, Written, Outside

LEMMA NextKeeps == OInv /\ [Next]_ruleVars => OInv'
<1> SUFFICES ASSUME OInv, [Next]_ruleVars PROVE OInv'
  OBVIOUS
<1>1. CASE UNCHANGED ruleVars
  BY <1>1, Aside DEF ruleVars, adguardVars
<1>2. CASE Cycle
  BY <1>2, FetchKeeps, BuildKeeps, GetKeeps, SetKeeps, RestKeeps DEF Cycle
<1>3. CASE \E x \in Actor : RewriteStep(x)
  BY <1>3, RewriteKeeps
<1>4. CASE AdminSaves
  BY <1>4, SaveKeeps
<1>5. CASE \/ UpdateFilteringSettings \/ SyncOptigateRewriteNow \/ UpdateAdmin \/ RestartAdguard
           \/ RestartController \/ AdminOpensPage \/ Household
  BY <1>5, OthersKeep
<1> QED  BY <1>1, <1>2, <1>3, <1>4, <1>5 DEF Next

\* A rule that the administrator saved, other than between the cycle's read of the rules
\* and its write, stays until he removes it, whatever calls fail, restarts and loses its
\* end marker (sync_once, _strip_managed_block).
THEOREM RulesSurvive == Spec => []AdminRulesSurvive
<1>1. OInv => AdminRulesSurvive
  BY DEF OInv, Kept, AdminRulesSurvive, Outside
<1> QED  BY <1>1, InitKeeps, NextKeeps, PTL DEF Spec

LEMMA InitHonest == Init => Honest
  BY NoneAssumption DEF Init, Honest

LEMMA NextHonest == Honest /\ [Next]_ruleVars => Honest'
<1> SUFFICES ASSUME Honest, [Next]_ruleVars PROVE Honest'
  OBVIOUS
<1>1. CASE OnError \/ OnSuccess \/ RestartController
  BY <1>1 DEF OnError, OnSuccess, RestartController, Log, Honest
<1>2. CASE UNCHANGED <<failing, event, unsaid>>
  BY <1>2 DEF Honest
<1>3. \/ OnError \/ OnSuccess \/ RestartController \/ UNCHANGED <<failing, event, unsaid>>
  <2>1. CASE Cycle
    BY <2>1 DEF Cycle, FetchEligible, BuildRules, Build, GetCustomRules, SetCustomRules,
                GetFiltersStatus, SyncFilter, DisableFilter, GetSafesearchStatus,
                SetSafesearchSettings, StartRewrite, CycleLocal, RewriteLocal
  <2>2. CASE \E x \in Actor : RewriteStep(x)
    BY <2>2 DEF RewriteStep, GetRewrites, DeleteRewrite, AddRewrite, RewriteUnchanged, RewriteLocal
  <2> QED
    BY <2>1, <2>2 DEF Next, UpdateFilteringSettings, SyncOptigateRewriteNow, UpdateAdmin,
        RestartAdguard, AdminOpensPage, AdminSaves, Household, Others, ruleVars
<1> QED  BY <1>1, <1>2, <1>3

\* The loop is failing just when its last event row says so, unless a row was lost or a
\* restart ended a streak (failure_recovery_callbacks).
THEOREM StreaksAreReported == Spec => []StreakIsReported
<1>1. Honest => StreakIsReported
  BY DEF Honest, StreakIsReported
<1> QED  BY <1>1, InitHonest, NextHonest, PTL DEF Spec

-----------------------------------------------------------------------------
(* The tables, which every process writes a statement or a transaction at  *)
(* a time.                                                                 *)

\* The tables stay in order, and no table loses or gets a place for a row.
Leads(d, e) ==
    /\ Tables(e)
    /\ DOMAIN e.category = DOMAIN d.category /\ DOMAIN e.schedule = DOMAIN d.schedule

-----------------------------------------------------------------------------
(* Audiences.                                                              *)

Named(present) == {a \in Audience : Refers(a, present)}

LEMMA NobodyIsNamed ==
    ASSUME NEW present, NEW everyone \in BOOLEAN
    PROVE  Nobody \in Named(present) /\ [Nobody EXCEPT !.everyone = everyone] \in Named(present)
  BY DEF Nobody, Named, Audience, Refers, Kind

\* One more or no more of a kind, or all of them or not.
LEMMA Renamed ==
    ASSUME NEW present, NEW a \in Named(present), NEW kind \in Kind
    PROVE  /\ [a EXCEPT ![kind] = {}] \in Named(present)
           /\ \A everyone \in BOOLEAN : [a EXCEPT !.everyone = everyone] \in Named(present)
           /\ \A who \in present[kind] :
                 who \in Person => [a EXCEPT ![kind] = @ \union {who}] \in Named(present)
  BY DEF Named, Audience, Refers, Kind

LEMMA Unnamed ==
    ASSUME NEW present, DOMAIN present = Kind, NEW a \in Named(present), NEW kind \in Kind, NEW who
    PROVE  [a EXCEPT ![kind] = @ \ {who}] \in Named([present EXCEPT ![kind] = @ \ {who}])
  BY DEF Named, Audience, Refers, Kind

-----------------------------------------------------------------------------
(* One table at a time.                                                    *)

LEMMA NewDevices ==
    ASSUME NEW d, Tables(d), NEW x, DeviceRows(x, d.present) PROVE Leads(d, [d EXCEPT !.device = x])
  BY DEF Tables, Leads

LEMMA NewDomains ==
    ASSUME NEW d, Tables(d), NEW x, DomainRows(x, d.present) PROVE Leads(d, [d EXCEPT !.domain = x])
  BY DEF Tables, Leads

LEMMA NewAllows ==
    ASSUME NEW d, Tables(d), NEW x, AllowRows(x, d.present) PROVE Leads(d, [d EXCEPT !.allow = x])
  BY DEF Tables, Leads

\* Categories that schedules block are not deleted.
LEMMA NewCategories ==
    ASSUME NEW d, Tables(d), NEW x, CategoryRows(x, d.present), DOMAIN x = DOMAIN d.category,
           \A c \in DOMAIN x : d.category[c] # None => x[c] # None
    PROVE  Leads(d, [d EXCEPT !.category = x])
<1>1. ScheduleRows(d.schedule, x, d.present)
  BY DEF Tables, ScheduleRows
<1> QED  BY <1>1 DEF Tables, Leads

LEMMA NewSchedules ==
    ASSUME NEW d, Tables(d), NEW x, ScheduleRows(x, d.category, d.present),
           DOMAIN x = DOMAIN d.schedule,
           \A s \in DOMAIN x : d.schedule[s] # None => x[s] # None
    PROVE  Leads(d, [d EXCEPT !.schedule = x])
<1>1. OverrideRows(d.override, x, d.present)
  BY DEF Tables, OverrideRows
<1> QED  BY <1>1 DEF Tables, Leads

LEMMA NewOverrides ==
    ASSUME NEW d, Tables(d), NEW x, OverrideRows(x, d.schedule, d.present)
    PROVE  Leads(d, [d EXCEPT !.override = x])
  BY DEF Tables, Leads

-----------------------------------------------------------------------------
(* Rows with an audience.                                                  *)

Granted == {"domain", "allow", "category", "schedule"}

\* Rows of a table get audiences that name nobody deleted.
LEMMA Regranted ==
    ASSUME NEW d, Tables(d), NEW table \in Granted, NEW x,
           x = [i \in DOMAIN x |-> x[i]], DOMAIN x = DOMAIN d[table],
           \A i \in DOMAIN x :
              x[i] # d[table][i] =>
                 /\ d[table][i] # None
                 /\ \E a \in Named(d.present) : x[i] = [d[table][i] EXCEPT !.access = a]
    PROVE  Leads(d, [d EXCEPT ![table] = x])
<1>1. CASE table = "domain"
  <2>1. \A i \in DOMAIN x : x[i] # None =>
           d.domain[i] # None /\ x[i] \in DomainRow /\ Refers(x[i].access, d.present)
              /\ x[i].pattern = d.domain[i].pattern
    BY <1>1 DEF Tables, DomainRows, DomainRow, Named
  <2>2. DomainRows(x, d.present)
    BY <1>1, <2>1 DEF Tables, DomainRows
  <2> QED  BY <1>1, <2>2, NewDomains
<1>2. CASE table = "allow"
  <2>1. AllowRows(x, d.present)
    BY <1>2 DEF Tables, AllowRows, AllowRow, Named
  <2> QED  BY <1>2, <2>1, NewAllows
<1>3. CASE table = "category"
  <2>1. \A c \in DOMAIN x : d.category[c] # None =>
           x[c] \in CategoryRow /\ Refers(x[c].access, d.present) /\ x[c].listed \intersect x[c].manual = {}
    BY <1>3 DEF Tables, CategoryRows, CategoryRow, Named
  <2>2. \A c \in DOMAIN x : d.category[c] = None => x[c] = None
    BY <1>3
  <2>3. CategoryRows(x, d.present)
    BY <1>3, <2>1, <2>2 DEF Tables, CategoryRows
  <2>4. \A c \in DOMAIN x : d.category[c] # None => x[c] # None
    BY <2>1, NoRowAssumption
  <2> QED  BY <1>3, <2>3, <2>4, NewCategories
<1>4. CASE table = "schedule"
  <2>1. \A s \in DOMAIN x : d.schedule[s] # None =>
           x[s] \in ScheduleRow /\ Refers(x[s].access, d.present) /\ x[s].blocks = d.schedule[s].blocks
    BY <1>4 DEF Tables, ScheduleRows, ScheduleRow, Named
  <2>2. \A s \in DOMAIN x : d.schedule[s] = None => x[s] = None
    BY <1>4
  <2>3. ScheduleRows(x, d.category, d.present)
    BY <1>4, <2>1, <2>2 DEF Tables, ScheduleRows
  <2>4. \A s \in DOMAIN x : d.schedule[s] # None => x[s] # None
    BY <2>1, NoRowAssumption
  <2> QED  BY <1>4, <2>3, <2>4, NewSchedules
<1> QED  BY <1>1, <1>2, <1>3, <1>4 DEF Granted

\* Every row has an audience that names nobody deleted.
LEMMA Audienced ==
    ASSUME NEW d, Tables(d), NEW table \in Granted, NEW i \in DOMAIN d[table], d[table][i] # None
    PROVE  d[table][i].access \in Named(d.present)
<1>1. CASE table = "domain"  BY <1>1 DEF Tables, DomainRows, DomainRow, Named
<1>2. CASE table = "allow"  BY <1>2 DEF Tables, AllowRows, AllowRow, Named
<1>3. CASE table = "category"  BY <1>3 DEF Tables, CategoryRows, CategoryRow, Named
<1>4. CASE table = "schedule"  BY <1>4 DEF Tables, ScheduleRows, ScheduleRow, Named
<1> QED  BY <1>1, <1>2, <1>3, <1>4 DEF Granted

\* Of one row.
LEMMA RegrantedOne ==
    ASSUME NEW d, Tables(d), NEW table \in Granted, NEW i, d[table][i] # None,
           NEW a, i \in DOMAIN d[table] => a \in Named(d.present)
    PROVE  Leads(d, [d EXCEPT ![table][i].access = a])
<1> DEFINE x == [d[table] EXCEPT ![i].access = a]
<1>1. /\ x = [j \in DOMAIN x |-> x[j]] /\ DOMAIN x = DOMAIN d[table]
      /\ \A j \in DOMAIN x : x[j] # d[table][j] =>
            d[table][j] # None /\ \E b \in Named(d.present) : x[j] = [d[table][j] EXCEPT !.access = b]
  OBVIOUS
<1>2. [d EXCEPT ![table][i].access = a] = [d EXCEPT ![table] = x]
  OBVIOUS
<1> HIDE DEF x
<1> QED  BY <1>1, <1>2, Regranted

-----------------------------------------------------------------------------
(* Statements.                                                             *)

Id == Nat \union Pattern

\* What a request may leave to do, where there are places for these categories and these
\* schedules.
Statements(categories, schedules) ==
    [do : {"scope"}, table : Granted, row : Id, to : BOOLEAN]
        \union [do : {"clear"}, table : Granted, row : Id, kind : Kind]
        \union [do : {"grant"}, table : Granted, row : Id, kind : Kind, who : Person]
        \union [do : {"unblock"}, table : {"schedule"}, row : Id]
        \union [do : {"block"}, table : {"schedule"}, row : Id, who : categories]
        \union [do : {"reset"}, table : {"category"}, row : Id]
        \union [do : {"url"}, table : {"category"}, row : Id, to : DOMAIN Lists \union {None}]
        \union [do : {"supersede"}, kind : Kind, who : Person]
        \union [do : {"force"}, row : schedules, kind : Kind, who : Person, created : Nat, expires : Nat]

Work(d) == Seq(Statements(DOMAIN d.category, DOMAIN d.schedule))

LEMMA ScopeKeeps ==
    ASSUME NEW d, Tables(d), NEW table \in Granted, NEW row, NEW to \in BOOLEAN
    PROVE  Leads(d, Exec(d, Scope(table, row, to)))
<1>1. CASE d[table][row] = None
  BY <1>1 DEF Scope, Exec, Leads
<1>2. CASE d[table][row] # None
  <2> DEFINE a == [d[table][row].access EXCEPT !.everyone = to]
  <2>1. row \in DOMAIN d[table] => a \in Named(d.present)
    <3> SUFFICES ASSUME row \in DOMAIN d[table] PROVE a \in Named(d.present)
      OBVIOUS
    <3>1. d[table][row].access \in Named(d.present)
      BY <1>2, Audienced
    <3>2. "users" \in Kind
      BY DEF Kind
    <3> QED  BY <3>1, <3>2, Renamed
  <2> HIDE DEF a
  <2>2. Leads(d, [d EXCEPT ![table][row].access = a])
    BY <1>2, <2>1, RegrantedOne
  <2>3. Exec(d, Scope(table, row, to)) = [d EXCEPT ![table][row].access = a]
    BY <1>2 DEF Exec, Scope, a
  <2> QED  BY <2>2, <2>3
<1> QED  BY <1>1, <1>2

LEMMA ClearKeeps ==
    ASSUME NEW d, Tables(d), NEW table \in Granted, NEW row, NEW kind \in Kind
    PROVE  Leads(d, Exec(d, Clear(table, row, kind)))
<1>1. CASE d[table][row] = None
  BY <1>1 DEF Clear, Exec, Leads
<1>2. CASE d[table][row] # None
  <2> DEFINE a == [d[table][row].access EXCEPT ![kind] = {}]
  <2>1. row \in DOMAIN d[table] => a \in Named(d.present)
    BY <1>2, Audienced, Renamed
  <2> HIDE DEF a
  <2>2. Leads(d, [d EXCEPT ![table][row].access = a])
    BY <1>2, <2>1, RegrantedOne
  <2>3. Exec(d, Clear(table, row, kind)) = [d EXCEPT ![table][row].access = a]
    BY <1>2 DEF Exec, Clear, a
  <2> QED  BY <2>2, <2>3
<1> QED  BY <1>1, <1>2

\* An INSERT that does not fail names somebody who is there.
LEMMA GrantKeeps ==
    ASSUME NEW d, Tables(d), NEW table \in Granted, NEW row, NEW kind \in Kind, NEW who,
           ~Fails(d, Grant(table, row, kind, who))
    PROVE  Leads(d, Exec(d, Grant(table, row, kind, who)))
<1> DEFINE a == [d[table][row].access EXCEPT ![kind] = @ \union {who}]
<1>1. d[table][row] # None /\ who \in d.present[kind]
  BY DEF Fails, Grant
<1>2. who \in Person
  BY <1>1 DEF Tables
<1>3. row \in DOMAIN d[table] => a \in Named(d.present)
  <2> SUFFICES ASSUME row \in DOMAIN d[table] PROVE a \in Named(d.present)
    OBVIOUS
  <2>1. d[table][row].access \in Named(d.present)
    BY <1>1, Audienced
  <2> QED  BY <1>1, <1>2, <2>1, Renamed
<1> HIDE DEF a
<1>4. Leads(d, [d EXCEPT ![table][row].access = a])
  BY <1>1, <1>3, RegrantedOne
<1>5. Exec(d, Grant(table, row, kind, who)) = [d EXCEPT ![table][row].access = a]
  BY <1>1 DEF Exec, Grant, a
<1> QED  BY <1>4, <1>5

\* The categories that a schedule blocks.
LEMMA Reblocked ==
    ASSUME NEW d, Tables(d), NEW row, d.schedule[row] # None, NEW blocks,
           row \in DOMAIN d.schedule =>
              blocks \subseteq {c \in DOMAIN d.category : d.category[c] # None}
    PROVE  Leads(d, [d EXCEPT !.schedule[row].blocks = blocks])
<1> DEFINE x == [d.schedule EXCEPT ![row].blocks = blocks]
<1>1. \A s \in DOMAIN x : d.schedule[s] # None =>
         /\ x[s] \in ScheduleRow /\ Refers(x[s].access, d.present)
         /\ \A c \in x[s].blocks : c \in DOMAIN d.category /\ d.category[c] # None
  <2>1. DOMAIN d.category \subseteq Nat
    BY DEF Tables, CategoryRows
  <2> QED  BY <2>1 DEF Tables, ScheduleRows, ScheduleRow
<1>2. DOMAIN x = DOMAIN d.schedule /\ \A s \in DOMAIN x : d.schedule[s] = None => x[s] = None
  OBVIOUS
<1>3. \A s \in DOMAIN x : d.schedule[s] # None => x[s] # None
  BY <1>1, NoRowAssumption
<1>4. DOMAIN x \subseteq Nat
  BY <1>2 DEF Tables, ScheduleRows
<1>5. [d EXCEPT !.schedule[row].blocks = blocks] = [d EXCEPT !.schedule = x]
  OBVIOUS
<1> HIDE DEF x
<1>6. ScheduleRows(x, d.category, d.present)
  BY <1>1, <1>2, <1>4 DEF ScheduleRows
<1> QED  BY <1>2, <1>3, <1>5, <1>6, NewSchedules

\* The row of a category changes, but for its audience.
LEMMA Recategorized ==
    ASSUME NEW d, Tables(d), NEW row, d.category[row] # None, NEW r,
           row \in DOMAIN d.category =>
              r \in CategoryRow /\ r.access = d.category[row].access /\ r.listed \intersect r.manual = {}
    PROVE  Leads(d, [d EXCEPT !.category[row] = r])
<1> DEFINE x == [d.category EXCEPT ![row] = r]
<1>1. DOMAIN x = DOMAIN d.category /\ \A c \in DOMAIN x : d.category[c] # None => x[c] # None
  BY NoRowAssumption
<1>2. CategoryRows(x, d.present)
  BY DEF Tables, CategoryRows
<1> HIDE DEF x
<1>3. Leads(d, [d EXCEPT !.category = x])
  BY <1>1, <1>2, NewCategories
<1> QED  BY <1>3 DEF x

\* A statement that does not fail keeps the tables in order.
LEMMA ExecKeeps ==
    ASSUME NEW d, Tables(d), NEW s \in Statements(DOMAIN d.category, DOMAIN d.schedule), ~Fails(d, s)
    PROVE  Leads(d, Exec(d, s))
<1>1. CASE s \in [do : {"scope"}, table : Granted, row : Id, to : BOOLEAN]
  <2>1. s = Scope(s.table, s.row, s.to) /\ s.table \in Granted /\ s.to \in BOOLEAN
    BY <1>1 DEF Scope
  <2> QED  BY <2>1, ScopeKeeps
<1>2. CASE s \in [do : {"clear"}, table : Granted, row : Id, kind : Kind]
  <2>1. s = Clear(s.table, s.row, s.kind) /\ s.table \in Granted /\ s.kind \in Kind
    BY <1>2 DEF Clear
  <2> QED  BY <2>1, ClearKeeps
<1>3. CASE s \in [do : {"grant"}, table : Granted, row : Id, kind : Kind, who : Person]
  <2>1. s = Grant(s.table, s.row, s.kind, s.who) /\ s.table \in Granted /\ s.kind \in Kind
    BY <1>3 DEF Grant
  <2> QED  BY <2>1, GrantKeeps
<1>4. CASE s \in [do : {"unblock"}, table : {"schedule"}, row : Id]
  <2>1. Exec(d, s) = IF d.schedule[s.row] = None THEN d ELSE [d EXCEPT !.schedule[s.row].blocks = {}]
    BY <1>4 DEF Exec
  <2>2. CASE d.schedule[s.row] = None
    BY <2>1, <2>2 DEF Leads
  <2>3. CASE d.schedule[s.row] # None
    <3>1. Leads(d, [d EXCEPT !.schedule[s.row].blocks = {}])
      BY <2>3, Reblocked
    <3> QED  BY <2>1, <2>3, <3>1
  <2> QED  BY <2>2, <2>3
<1>5. CASE s \in [do : {"block"}, table : {"schedule"}, row : Id, who : DOMAIN d.category]
  <2> DEFINE new == d.schedule[s.row].blocks \union {s.who}
  <2>1. d.schedule[s.row] # None /\ d.category[s.who] # None /\ s.who \in DOMAIN d.category
    BY <1>5 DEF Fails
  <2>2. s.row \in DOMAIN d.schedule => new \subseteq {c \in DOMAIN d.category : d.category[c] # None}
    BY <2>1 DEF Tables, ScheduleRows
  <2>3. Exec(d, s) = [d EXCEPT !.schedule[s.row].blocks = new]
    BY <1>5, <2>1 DEF Exec
  <2> HIDE DEF new
  <2> QED  BY <2>1, <2>2, <2>3, Reblocked
<1>6. CASE s \in [do : {"reset"}, table : {"category"}, row : Id]
  <2> DEFINE r == [d.category[s.row] EXCEPT !.listed = {}]
  <2>1. CASE d.category[s.row] = None
    BY <1>6, <2>1 DEF Exec, Leads
  <2>2. CASE d.category[s.row] # None
    <3>1. s.row \in DOMAIN d.category =>
             r \in CategoryRow /\ r.access = d.category[s.row].access /\ r.listed \intersect r.manual = {}
      BY <1>6, <2>2 DEF Tables, CategoryRows, CategoryRow
    <3>2. Exec(d, s) = [d EXCEPT !.category[s.row] = r]
      BY <1>6, <2>2 DEF Exec
    <3> HIDE DEF r
    <3> QED  BY <2>2, <3>1, <3>2, Recategorized
  <2> QED  BY <2>1, <2>2
<1>7. CASE s \in [do : {"url"}, table : {"category"}, row : Id, to : DOMAIN Lists \union {None}]
  <2> DEFINE r == [d.category[s.row] EXCEPT !.url = s.to]
  <2>1. CASE d.category[s.row] = None
    BY <1>7, <2>1 DEF Exec, Leads
  <2>2. CASE d.category[s.row] # None
    <3>1. s.row \in DOMAIN d.category =>
             r \in CategoryRow /\ r.access = d.category[s.row].access /\ r.listed \intersect r.manual = {}
      BY <1>7, <2>2 DEF Tables, CategoryRows, CategoryRow
    <3>2. Exec(d, s) = [d EXCEPT !.category[s.row] = r]
      BY <1>7, <2>2 DEF Exec
    <3> HIDE DEF r
    <3> QED  BY <2>2, <3>1, <3>2, Recategorized
  <2> QED  BY <2>1, <2>2
<1>8. CASE s \in [do : {"supersede"}, kind : Kind, who : Person]
  <2>1. PICK x : x \subseteq d.override /\ Exec(d, s) = [d EXCEPT !.override = x]
    BY <1>8 DEF Exec
  <2>2. OverrideRows(x, d.schedule, d.present)
    BY <2>1 DEF Tables, OverrideRows
  <2> QED  BY <2>1, <2>2, NewOverrides
<1>9. CASE s \in [do : {"force"}, row : DOMAIN d.schedule, kind : Kind, who : Person,
                  created : Nat, expires : Nat]
  <2> DEFINE o == [schedule |-> s.row, kind |-> s.kind, who |-> s.who,
                   created |-> s.created, expires |-> s.expires]
  <2>1. Exec(d, s) = [d EXCEPT !.override = @ \union {o}]
    BY <1>9 DEF Exec
  <2>2. d.schedule[s.row] # None /\ s.who \in d.present[s.kind]
    BY <1>9 DEF Fails
  <2>3. OverrideRows(d.override \union {o}, d.schedule, d.present)
    BY <1>9, <2>2 DEF Tables, OverrideRows
  <2> HIDE DEF o
  <2> QED  BY <2>1, <2>3, NewOverrides
<1> QED  BY <1>1, <1>2, <1>3, <1>4, <1>5, <1>6, <1>7, <1>8, <1>9 DEF Statements

\* A finite set can be put in a sequence.
LEMMA Order ==
    ASSUME NEW S, IsFiniteSet(S)
    PROVE  SetToSeq(S) \in Seq(S)
<1>1. Cardinality(S) \in Nat /\ ExistsBijection(1 .. Cardinality(S), S)
  BY FS_CardinalityType
<1>2. \E f \in [1 .. Cardinality(S) -> S] : IsInjective(f)
  BY <1>1 DEF ExistsBijection, Bijection, Injection, IsInjective
<1>3. SetToSeq(S) \in [1 .. Cardinality(S) -> S]
  BY <1>2 DEF SetToSeq
<1> QED  BY <1>1, <1>3, SeqDef

LEMMA Ordered ==
    ASSUME NEW S, IsFiniteSet(S)
    PROVE  \E n \in Nat : DOMAIN SetToSeq(S) = 1 .. n /\ \A i \in 1 .. n : SetToSeq(S)[i] \in S
<1>1. SetToSeq(S) \in Seq(S)
  BY Order
<1> QED  BY <1>1, ElementOfSeq, LenProperties

LEMMA GrantsWork ==
    ASSUME NEW d, NEW table \in Granted, NEW row \in Id, NEW kind \in Kind,
           NEW whos \in SUBSET Person, IsFiniteSet(whos)
    PROVE  Grants(table, row, kind, whos) \in Work(d)
<1> DEFINE S == [do : {"grant"}, table : Granted, row : Id, kind : Kind, who : Person]
<1>1. PICK n \in Nat : /\ DOMAIN SetToSeq(whos) = 1 .. n
                       /\ \A i \in 1 .. n : SetToSeq(whos)[i] \in whos
  BY Ordered
<1>2. \A i \in 1 .. n : Grant(table, row, kind, SetToSeq(whos)[i]) \in S
  BY <1>1 DEF Grant
<1>3. S \subseteq Statements(DOMAIN d.category, DOMAIN d.schedule)
  BY DEF Statements
<1> HIDE DEF S
<1>4. Grants(table, row, kind, whos)
         \in [1 .. n -> Statements(DOMAIN d.category, DOMAIN d.schedule)]
  BY <1>1, <1>2, <1>3 DEF Grants
<1> QED  BY <1>4, SeqDef DEF Work

LEMMA OneWork ==
    ASSUME NEW d, NEW s \in Statements(DOMAIN d.category, DOMAIN d.schedule)
    PROVE  <<s>> \in Work(d)
  BY DEF Work

LEMMA NoWork == ASSUME NEW d PROVE <<>> \in Work(d)
  BY DEF Work

LEMMA MoreWork == ASSUME NEW d, NEW s \in Work(d), NEW r \in Work(d) PROVE s \o r \in Work(d)
  BY ConcatProperties DEF Work

LEMMA AccessWork ==
    ASSUME NEW d, NEW table \in Granted, NEW row \in Id, NEW a \in Audiences
    PROVE  ReplaceAccess(table, row, a) \in Work(d) /\ GrantAll(table, row, a) \in Work(d)
<1>1. /\ a.everyone \in BOOLEAN
      /\ \A kind \in Kind : a[kind] \in SUBSET Person /\ IsFiniteSet(a[kind])
  BY FormsAssumption DEF Audience, Kind
<1>2. "users" \in Kind /\ "groups" \in Kind /\ "devices" \in Kind
  BY DEF Kind
<1>3. /\ Grants(table, row, "users", a.users) \in Work(d)
      /\ Grants(table, row, "groups", a.groups) \in Work(d)
      /\ Grants(table, row, "devices", a.devices) \in Work(d)
  BY <1>1, <1>2, GrantsWork
<1>4. \A kind \in Kind : Clear(table, row, kind) \in Statements(DOMAIN d.category, DOMAIN d.schedule)
  BY DEF Clear, Statements
<1>5. Scope(table, row, a.everyone) \in Statements(DOMAIN d.category, DOMAIN d.schedule)
  BY <1>1 DEF Scope, Statements
<1>6. /\ <<Scope(table, row, a.everyone), Clear(table, row, "users")>> \in Work(d)
      /\ <<Clear(table, row, "groups")>> \in Work(d)
      /\ <<Clear(table, row, "devices")>> \in Work(d)
  BY <1>2, <1>4, <1>5 DEF Work
<1>7. GrantAll(table, row, a) \in Work(d)
  BY <1>3, MoreWork DEF GrantAll
<1>8. ReplaceAccess(table, row, a) \in Work(d)
  <2> DEFINE g == Grants(table, row, "users", a.users)
             h == Grants(table, row, "groups", a.groups)
             i == Grants(table, row, "devices", a.devices)
             x == <<Scope(table, row, a.everyone), Clear(table, row, "users")>>
             y == <<Clear(table, row, "groups")>>
             z == <<Clear(table, row, "devices")>>
  <2>1. ReplaceAccess(table, row, a) = ((((x \o g) \o y) \o h) \o z) \o i
    BY DEF ReplaceAccess
  <2>2. x \in Work(d) /\ y \in Work(d) /\ z \in Work(d) /\ g \in Work(d) /\ h \in Work(d) /\ i \in Work(d)
    BY <1>3, <1>6
  <2> HIDE DEF g, h, i, x, y, z
  <2> QED  BY <2>1, <2>2, MoreWork
<1> QED  BY <1>7, <1>8

LEMMA BlocksWork ==
    ASSUME NEW d, Tables(d), NEW row \in Id, NEW C \in SUBSET DOMAIN d.category
    PROVE  <<[do |-> "unblock", table |-> "schedule", row |-> row]>>
             \o [i \in DOMAIN SetToSeq(C) |->
                    [do |-> "block", table |-> "schedule", row |-> row, who |-> SetToSeq(C)[i]]] \in Work(d)
<1> DEFINE S == [do : {"block"}, table : {"schedule"}, row : Id, who : DOMAIN d.category]
           block(i) == [do |-> "block", table |-> "schedule", row |-> row, who |-> SetToSeq(C)[i]]
<1>1. PICK n \in Nat : DOMAIN SetToSeq(C) = 1 .. n /\ \A i \in 1 .. n : SetToSeq(C)[i] \in C
  <2>1. IsFiniteSet(C)
    BY FS_Subset DEF Tables, CategoryRows
  <2> QED  BY <2>1, Ordered
<1>2. \A i \in 1 .. n : block(i) \in S
  BY <1>1
<1>3. S \subseteq Statements(DOMAIN d.category, DOMAIN d.schedule)
  BY DEF Statements
<1> HIDE DEF S, block
<1>4. [i \in DOMAIN SetToSeq(C) |-> block(i)] \in [1 .. n -> Statements(DOMAIN d.category, DOMAIN d.schedule)]
  BY <1>1, <1>2, <1>3
<1>5. [i \in DOMAIN SetToSeq(C) |-> block(i)] \in Work(d)
  BY <1>4, SeqDef DEF Work
<1>6. <<[do |-> "unblock", table |-> "schedule", row |-> row]>> \in Work(d)
  <2>1. [do |-> "unblock", table |-> "schedule", row |-> row] \in Statements(DOMAIN d.category, DOMAIN d.schedule)
    BY DEF Statements
  <2> QED  BY <2>1, OneWork
<1> QED  BY <1>5, <1>6, MoreWork DEF block

-----------------------------------------------------------------------------
(* Requests and their statements.                                          *)

\* The tables are in order and the statements to come fit them.
Orderly == Tables(db) /\ job \in [Thread -> Work(db)] /\ now \in Nat

LEMMA SameWork == ASSUME NEW d, NEW e, Leads(d, e) PROVE Work(e) = Work(d)
  BY DEF Leads, Work

LEMMA RequestKeeps ==
    ASSUME Orderly, NEW t \in Thread, NEW d, NEW rest, Request(t, d, rest),
           Leads(db, d), rest \in Work(db)
    PROVE  Orderly'
<1>1. db' = d /\ job' = [job EXCEPT ![t] = rest] /\ now' = now
  BY DEF Request
<1>2. Tables(db') /\ Work(db') = Work(db)
  BY <1>1, SameWork DEF Leads
<1>3. job' \in [Thread -> Work(db)]
  BY <1>1 DEF Orderly
<1> QED  BY <1>1, <1>2, <1>3 DEF Orderly

LEMMA StatementKeeps == ASSUME Orderly, NEW t \in Thread, Statement(t) PROVE Orderly'
<1> DEFINE S == Statements(DOMAIN db.category, DOMAIN db.schedule)
<1>1. job[t] \in Seq(S) /\ job[t] # <<>>
  BY DEF Orderly, Work, Statement
<1> HIDE DEF S
<1>2. Head(job[t]) \in S /\ Tail(job[t]) \in Seq(S) /\ <<>> \in Seq(S)
  BY <1>1, HeadTailProperties
<1>3. now' = now
  BY DEF Statement
<1>4. CASE Fails(db, Head(job[t]))
  <2>1. job' = [job EXCEPT ![t] = <<>>] /\ db' = db
    BY <1>4 DEF Statement
  <2>2. job' \in [Thread -> Work(db)]
    BY <1>2, <2>1 DEF Orderly, Work, S
  <2> QED  BY <1>3, <2>1, <2>2 DEF Orderly
<1>5. CASE ~Fails(db, Head(job[t]))
  <2>1. job' = [job EXCEPT ![t] = Tail(@)] /\ db' = Exec(db, Head(job[t]))
    BY <1>5 DEF Statement
  <2>2. Leads(db, db')
    BY <1>2, <1>5, <2>1, ExecKeeps DEF Orderly, S
  <2>3. job' \in [Thread -> Work(db)]
    BY <1>2, <2>1 DEF Orderly, Work, S
  <2>4. Work(db') = Work(db)
    BY <2>2, SameWork
  <2> QED  BY <1>3, <2>2, <2>3, <2>4 DEF Orderly, Leads
<1> QED  BY <1>4, <1>5

-----------------------------------------------------------------------------
(* Domains and DNS exceptions.                                             *)

\* One row of the domains.
LEMMA NewDomain ==
    ASSUME NEW d, Tables(d), NEW i \in DOMAIN d.domain, NEW r,
           r = None \/ (r \in DomainRow /\ Refers(r.access, d.present)),
           r # None => \A j \in DOMAIN d.domain :
                          (i # j /\ d.domain[j] # None) => d.domain[j].pattern # r.pattern
    PROVE  Leads(d, [d EXCEPT !.domain[i] = r])
<1> DEFINE x == [d.domain EXCEPT ![i] = r]
<1>1. DomainRows(x, d.present)
  BY DEF Tables, DomainRows
<1> HIDE DEF x
<1>2. Leads(d, [d EXCEPT !.domain = x])
  BY <1>1, NewDomains
<1> QED  BY <1>2 DEF x

\* A row of a domain changes, but for its pattern and its audience.
LEMMA SameDomain ==
    ASSUME NEW d, Tables(d), NEW i \in DOMAIN d.domain, d.domain[i] # None, NEW r \in DomainRow,
           r.pattern = d.domain[i].pattern, r.access = d.domain[i].access
    PROVE  Leads(d, [d EXCEPT !.domain[i] = r])
  BY NewDomain DEF Tables, DomainRows

LEMMA NewAllow ==
    ASSUME NEW d, Tables(d), NEW p \in Pattern, NEW r,
           r = None \/ (r \in AllowRow /\ Refers(r.access, d.present))
    PROVE  Leads(d, [d EXCEPT !.allow[p] = r])
<1> DEFINE x == [d.allow EXCEPT ![p] = r]
<1>1. AllowRows(x, d.present)
  BY DEF Tables, AllowRows
<1> HIDE DEF x
<1>2. Leads(d, [d EXCEPT !.allow = x])
  BY <1>1, NewAllows
<1> QED  BY <1>2 DEF x

LEMMA DomainIds == ASSUME Orderly, NEW i \in DOMAIN db.domain PROVE i \in Id /\ i # None
  BY DEF Orderly, Tables, DomainRows, Id

\* A set of ids has a least one.
LEMMA LeastId ==
    ASSUME NEW S, S \subseteq Nat, S # {}
    PROVE  Least(S) \in S /\ \A x \in S : Least(S) <= x
<1> DEFINE R == OpToRel(<, Nat)
<1>1. \A x, y \in Nat : x < y <=> <<x, y>> \in R
  BY DEF OpToRel
<1>2. IsWellFoundedOn(R, Nat)
  BY NatLessThanWellFounded
<1> HIDE DEF R
<1>3. IsWellFoundedOn(R, S)
  BY <1>2, IsWellFoundedOnSubset
<1>4. PICK x \in S : \A y \in S : <<y, x>> \notin R
  BY <1>3, WFMin
<1>5. \A y \in S : ~(y < x)
  BY <1>1, <1>4, Zenon
<1>6. \A y \in S : x <= y
  BY <1>5
<1> QED  BY <1>6 DEF Least

\* What find_domain finds: a row that covers the host, if there is one.
LEMMA Found ==
    ASSUME NEW d, Tables(d), NEW host
    PROVE  LET i == FindDomain(d.domain, host)
           IN  \/ /\ i = None
                  /\ \A j \in DOMAIN d.domain : d.domain[j] # None => host \notin Covers[d.domain[j].pattern]
               \/ /\ i # None /\ i \in DOMAIN d.domain /\ d.domain[i] # None
                  /\ host \in Covers[d.domain[i].pattern]
<1> DEFINE hits == {i \in DOMAIN d.domain : d.domain[i] # None /\ host \in Covers[d.domain[i].pattern]}
<1>1. FindDomain(d.domain, host) = IF hits = {} THEN None ELSE Least(hits)
  BY DEF FindDomain
<1>2. hits \subseteq Nat /\ None \notin hits
  BY DEF Tables, DomainRows
<1>3. hits # {} => Least(hits) \in hits
  BY <1>2, LeastId
<1> QED  BY <1>1, <1>2, <1>3

LEMMA AddDomainKeeps ==
    ASSUME Orderly, NEW t \in Thread, NEW i \in DOMAIN db.domain, NEW p \in Pattern,
           NEW mode \in Modes, NEW a \in Audiences, AddDomain(t, i, p, mode, a)
    PROVE  Orderly'
<1> DEFINE r == [pattern |-> p, mode |-> mode, kept |-> FALSE, series |-> FALSE, paths |-> {},
                 access |-> [Nobody EXCEPT !.everyone = a.everyone]]
<1>1. a.everyone \in BOOLEAN /\ mode \in DomainMode
  BY FormsAssumption DEF Audience
<1>2. [Nobody EXCEPT !.everyone = a.everyone] \in Named(db.present)
  BY <1>1, NobodyIsNamed
<1>3. r \in DomainRow /\ Refers(r.access, db.present)
  BY <1>1, <1>2 DEF DomainRow, Named
<1>4. \A j \in DOMAIN db.domain : db.domain[j] # None => db.domain[j].pattern # r.pattern
  BY DEF AddDomain
<1>5. Request(t, [db EXCEPT !.domain[i] = r], GrantAll("domain", i, a))
  BY DEF AddDomain
<1> HIDE DEF r
<1>6. Leads(db, [db EXCEPT !.domain[i] = r])
  BY <1>3, <1>4, NewDomain DEF Orderly
<1>7. GrantAll("domain", i, a) \in Work(db)
  BY AccessWork, DomainIds DEF Granted
<1> QED  BY <1>5, <1>6, <1>7, RequestKeeps

LEMMA AddDomainFromUrlKeeps ==
    ASSUME Orderly, NEW t \in Thread, NEW i \in DOMAIN db.domain, NEW p \in Pattern,
           NEW user \in db.present.users, NEW path \in Paths, AddDomainFromUrl(t, i, p, user, path)
    PROVE  Orderly'
<1>1. path \in STRING /\ user \in Person
  BY FormsAssumption DEF Orderly, Tables, Kind
<1>2. PICK host \in Covers[p] :
        LET found == FindDomain(db.domain, host)
        IN  /\ found # None => i = found
            /\ Request(t, IF found = None
                          THEN [db EXCEPT !.domain[i] =
                                  [pattern |-> p, mode |-> "bump", kept |-> FALSE, series |-> FALSE,
                                   paths |-> {path}, access |-> Nobody]]
                          ELSE [db EXCEPT !.domain[i].paths = @ \union {path}],
                       <<Grant("domain", i, "users", user)>>)
  BY DEF AddDomainFromUrl
<1>3. <<Grant("domain", i, "users", user)>> \in Work(db)
  <2>1. Grant("domain", i, "users", user) \in Statements(DOMAIN db.category, DOMAIN db.schedule)
    BY <1>1, DomainIds DEF Grant, Statements, Granted, Kind
  <2> QED  BY <2>1, OneWork
<1>4. CASE FindDomain(db.domain, host) = None
  <2> DEFINE r == [pattern |-> p, mode |-> "bump", kept |-> FALSE, series |-> FALSE,
                   paths |-> {path}, access |-> Nobody]
  <2>1. \A j \in DOMAIN db.domain : db.domain[j] # None => host \notin Covers[db.domain[j].pattern]
    <3>1. \A j \in DOMAIN db.domain : j # None
      BY DomainIds
    <3> QED  BY <1>4, <3>1, Found DEF Orderly
  <2>2. r \in DomainRow
    BY <1>1, NobodyIsNamed DEF DomainRow, DomainMode, Named
  <2>3. Refers(r.access, db.present)
    BY DEF Refers, Nobody, Kind
  <2>4. \A j \in DOMAIN db.domain : db.domain[j] # None => db.domain[j].pattern # r.pattern
    BY <2>1
  <2>5. Request(t, [db EXCEPT !.domain[i] = r], <<Grant("domain", i, "users", user)>>)
    BY <1>2, <1>4
  <2> HIDE DEF r
  <2>6. Leads(db, [db EXCEPT !.domain[i] = r])
    BY <2>2, <2>3, <2>4, NewDomain DEF Orderly
  <2> QED  BY <1>3, <2>5, <2>6, RequestKeeps
<1>5. CASE FindDomain(db.domain, host) # None
  <2> DEFINE r == [db.domain[i] EXCEPT !.paths = @ \union {path}]
  <2>1. db.domain[i] # None
    BY <1>2, <1>5, Found DEF Orderly
  <2>2. r \in DomainRow /\ r.pattern = db.domain[i].pattern /\ r.access = db.domain[i].access
    BY <1>1, <2>1 DEF Orderly, Tables, DomainRows, DomainRow
  <2>3. Request(t, [db EXCEPT !.domain[i] = r], <<Grant("domain", i, "users", user)>>)
    BY <1>2, <1>5
  <2> HIDE DEF r
  <2>4. Leads(db, [db EXCEPT !.domain[i] = r])
    BY <2>1, <2>2, SameDomain DEF Orderly
  <2> QED  BY <1>3, <2>3, <2>4, RequestKeeps
<1> QED  BY <1>4, <1>5

\* The other routes of one domain.
LEMMA DomainRowKeeps ==
    ASSUME Orderly, NEW t \in Thread, NEW i \in DOMAIN db.domain, NEW mode \in Modes,
           NEW a \in Audiences, NEW path \in Paths,
           \/ DeleteDomain(t, i) \/ UpdateDomain(t, i, mode) \/ UpdateDomainAccess(t, i, a)
           \/ AddPath(t, i, path) \/ DeletePath(t, i, path)
    PROVE  Orderly'
<1>1. CASE DeleteDomain(t, i)
  <2>1. Leads(db, [db EXCEPT !.domain[i] = None])
    BY NewDomain DEF Orderly
  <2> QED  BY <1>1, <2>1, NoWork, RequestKeeps DEF DeleteDomain
<1>2. CASE UpdateDomain(t, i, mode)
  <2> DEFINE r == [db.domain[i] EXCEPT !.mode = mode]
  <2>1. db.domain[i] # None /\ Request(t, [db EXCEPT !.domain[i] = r], <<>>)
    BY <1>2 DEF UpdateDomain
  <2>2. r \in DomainRow /\ r.pattern = db.domain[i].pattern /\ r.access = db.domain[i].access
    BY <2>1, FormsAssumption DEF Orderly, Tables, DomainRows, DomainRow
  <2> HIDE DEF r
  <2>3. Leads(db, [db EXCEPT !.domain[i] = r])
    BY <2>1, <2>2, SameDomain DEF Orderly
  <2> QED  BY <2>1, <2>3, NoWork, RequestKeeps
<1>3. CASE UpdateDomainAccess(t, i, a)
  <2>1. Request(t, db, ReplaceAccess("domain", i, a)) /\ Leads(db, db)
    BY <1>3 DEF UpdateDomainAccess, Leads, Orderly
  <2>2. ReplaceAccess("domain", i, a) \in Work(db)
    BY AccessWork, DomainIds DEF Granted
  <2> QED  BY <2>1, <2>2, RequestKeeps
<1>4. CASE AddPath(t, i, path) \/ DeletePath(t, i, path)
  <2>1. PICK paths \in SUBSET (db.domain[i].paths \union {path}) :
          db.domain[i] # None /\ Request(t, [db EXCEPT !.domain[i].paths = paths], <<>>)
    BY <1>4 DEF AddPath, DeletePath
  <2> DEFINE r == [db.domain[i] EXCEPT !.paths = paths]
  <2>2. r \in DomainRow /\ r.pattern = db.domain[i].pattern /\ r.access = db.domain[i].access
    BY <2>1, FormsAssumption DEF Orderly, Tables, DomainRows, DomainRow
  <2>3. Request(t, [db EXCEPT !.domain[i] = r], <<>>)
    BY <2>1
  <2> HIDE DEF r
  <2>4. Leads(db, [db EXCEPT !.domain[i] = r])
    BY <2>1, <2>2, SameDomain DEF Orderly
  <2> QED  BY <2>3, <2>4, NoWork, RequestKeeps
<1> QED  BY <1>1, <1>2, <1>3, <1>4

LEMMA AllowKeeps ==
    ASSUME Orderly, NEW t \in Thread, NEW p \in Pattern, NEW a \in Audiences,
           AddAdguardAllowlist(t, p, a) \/ DeleteAdguardAllowlist(t, p)
    PROVE  Orderly'
<1>1. CASE AddAdguardAllowlist(t, p, a)
  <2> DEFINE r == [access |-> [Nobody EXCEPT !.everyone = a.everyone]]
  <2>1. a.everyone \in BOOLEAN
    BY FormsAssumption DEF Audience
  <2>2. r \in AllowRow /\ Refers(r.access, db.present)
    BY <2>1, NobodyIsNamed DEF AllowRow, Named
  <2>3. Request(t, [db EXCEPT !.allow[p] = r], GrantAll("allow", p, a))
    BY <1>1 DEF AddAdguardAllowlist
  <2> HIDE DEF r
  <2>4. Leads(db, [db EXCEPT !.allow[p] = r])
    BY <2>2, NewAllow DEF Orderly
  <2>5. GrantAll("allow", p, a) \in Work(db)
    BY AccessWork DEF Granted, Id
  <2> QED  BY <2>3, <2>4, <2>5, RequestKeeps
<1>2. CASE DeleteAdguardAllowlist(t, p)
  <2>1. Leads(db, [db EXCEPT !.allow[p] = None])
    BY NewAllow DEF Orderly
  <2> QED  BY <1>2, <2>1, NoWork, RequestKeeps DEF DeleteAdguardAllowlist
<1> QED  BY <1>1, <1>2

LEMMA DomainRouteKeeps == ASSUME Orderly, NEW t \in Thread, DomainRoute(t) PROVE Orderly'
  BY AddDomainKeeps, AddDomainFromUrlKeeps, DomainRowKeeps, AllowKeeps DEF DomainRoute

-----------------------------------------------------------------------------
(* Categories.                                                             *)

LEMMA CategoryIds ==
    ASSUME Orderly, NEW c \in DOMAIN db.category
    PROVE  /\ c \in Id
           /\ db.category[c] # None =>
                 /\ db.category[c] \in CategoryRow
                 /\ db.category[c].listed \intersect db.category[c].manual = {}
  BY DEF Orderly, Tables, CategoryRows, Id

\* A route that changes the row of one category, but for its audience.
LEMMA RecategorizedBy ==
    ASSUME Orderly, NEW t \in Thread, NEW c \in DOMAIN db.category, db.category[c] # None, NEW r,
           r \in CategoryRow, r.access = db.category[c].access, r.listed \intersect r.manual = {},
           Request(t, [db EXCEPT !.category[c] = r], <<>>)
    PROVE  Orderly'
<1>1. Leads(db, [db EXCEPT !.category[c] = r])
  BY Recategorized DEF Orderly
<1> QED  BY <1>1, NoWork, RequestKeeps

LEMMA AddCategoryKeeps ==
    ASSUME Orderly, NEW t \in Thread, NEW c \in DOMAIN db.category,
           NEW u \in DOMAIN Lists \union {None}, AddCategory(t, c, u)
    PROVE  Orderly'
<1>1. PICK fetched \in BOOLEAN :
        Request(t, [db EXCEPT !.category[c] =
                      [url |-> u, manual |-> {}, exceptions |-> {}, access |-> Nobody,
                       listed |-> IF u # None /\ fetched THEN Lists[u] ELSE {}]], <<>>)
  BY DEF AddCategory
<1> DEFINE r == [url |-> u, manual |-> {}, exceptions |-> {}, access |-> Nobody,
                 listed |-> IF u # None /\ fetched THEN Lists[u] ELSE {}]
           x == [db.category EXCEPT ![c] = r]
<1>2. r.listed \subseteq Pattern
  BY FormsAssumption
<1>3. r \in CategoryRow /\ Refers(r.access, db.present) /\ r.listed \intersect r.manual = {}
  BY <1>2, NobodyIsNamed DEF CategoryRow, Named, Refers, Nobody, Kind
<1> HIDE DEF r
<1>4. CategoryRows(x, db.present)
  BY <1>3 DEF Orderly, Tables, CategoryRows
<1>5. DOMAIN x = DOMAIN db.category /\ \A i \in DOMAIN x : db.category[i] # None => x[i] # None
  BY <1>3, NoRowAssumption
<1>6. Request(t, [db EXCEPT !.category = x], <<>>)
  BY <1>1 DEF r
<1> HIDE DEF x
<1>7. Leads(db, [db EXCEPT !.category = x])
  BY <1>4, <1>5, NewCategories DEF Orderly
<1> QED  BY <1>6, <1>7, NoWork, RequestKeeps

LEMMA CategoryRowKeeps ==
    ASSUME Orderly, NEW t \in Thread, NEW c \in DOMAIN db.category, NEW p \in Pattern,
           NEW a \in Audiences, NEW u \in DOMAIN Lists \union {None},
           \/ UpdateCategoryAccess(t, c, a) \/ AddCategoryDomains(t, c, {p})
           \/ DeleteCategoryDomain(t, c, p) \/ AddCategoryOverride(t, c, p)
           \/ DeleteCategoryOverride(t, c, p) \/ UpdateCategorySubscription(t, c, u)
    PROVE  Orderly'
<1>1. CASE UpdateCategoryAccess(t, c, a)
  <2>1. Request(t, db, ReplaceAccess("category", c, a)) /\ Leads(db, db)
    BY <1>1 DEF UpdateCategoryAccess, Leads, Orderly
  <2>2. ReplaceAccess("category", c, a) \in Work(db)
    BY AccessWork, CategoryIds DEF Granted
  <2> QED  BY <2>1, <2>2, RequestKeeps
<1>2. CASE AddCategoryDomains(t, c, {p}) \/ DeleteCategoryDomain(t, c, p)
  <2>1. PICK S \in SUBSET Pattern :
          /\ db.category[c] # None /\ S \intersect db.category[c].listed = {}
          /\ Request(t, [db EXCEPT !.category[c].manual = S], <<>>)
    <3>1. CASE AddCategoryDomains(t, c, {p})
      <4> DEFINE S == db.category[c].manual \union ({p} \ db.category[c].listed)
      <4>1. db.category[c] # None /\ Request(t, [db EXCEPT !.category[c].manual = S], <<>>)
        BY <3>1 DEF AddCategoryDomains
      <4>2. S \in SUBSET Pattern /\ S \intersect db.category[c].listed = {}
        BY <4>1, CategoryIds DEF CategoryRow
      <4> QED  BY <4>1, <4>2
    <3>2. CASE DeleteCategoryDomain(t, c, p)
      <4> DEFINE S == db.category[c].manual \ {p}
      <4>1. db.category[c] # None /\ Request(t, [db EXCEPT !.category[c].manual = S], <<>>)
        BY <3>2 DEF DeleteCategoryDomain
      <4>2. S \in SUBSET Pattern /\ S \intersect db.category[c].listed = {}
        BY <4>1, CategoryIds DEF CategoryRow
      <4> QED  BY <4>1, <4>2
    <3> QED  BY <1>2, <3>1, <3>2
  <2> DEFINE r == [db.category[c] EXCEPT !.manual = S]
  <2>2. r \in CategoryRow /\ r.access = db.category[c].access /\ r.listed \intersect r.manual = {}
    BY <2>1, CategoryIds DEF CategoryRow
  <2>3. Request(t, [db EXCEPT !.category[c] = r], <<>>)
    BY <2>1
  <2> HIDE DEF r
  <2> QED  BY <2>1, <2>2, <2>3, RecategorizedBy
<1>3. CASE AddCategoryOverride(t, c, p) \/ DeleteCategoryOverride(t, c, p)
  <2>1. PICK S \in SUBSET (db.category[c].exceptions \union {p}) :
          db.category[c] # None /\ Request(t, [db EXCEPT !.category[c].exceptions = S], <<>>)
    BY <1>3 DEF AddCategoryOverride, DeleteCategoryOverride
  <2> DEFINE r == [db.category[c] EXCEPT !.exceptions = S]
  <2>2. r \in CategoryRow /\ r.access = db.category[c].access /\ r.listed \intersect r.manual = {}
    BY <2>1, CategoryIds DEF CategoryRow
  <2>3. Request(t, [db EXCEPT !.category[c] = r], <<>>)
    BY <2>1
  <2> HIDE DEF r
  <2> QED  BY <2>1, <2>2, <2>3, RecategorizedBy
<1>4. CASE UpdateCategorySubscription(t, c, u)
  <2> DEFINE reset == [do |-> "reset", table |-> "category", row |-> c]
             url == [do |-> "url", table |-> "category", row |-> c, to |-> u]
  <2>1. Request(t, db, <<reset, url>>) /\ Leads(db, db)
    BY <1>4 DEF UpdateCategorySubscription, Leads, Orderly
  <2>2. reset \in Statements(DOMAIN db.category, DOMAIN db.schedule)
    BY CategoryIds DEF Statements
  <2>3. url \in Statements(DOMAIN db.category, DOMAIN db.schedule)
    BY CategoryIds DEF Statements
  <2> HIDE DEF reset, url
  <2>4. <<reset, url>> \in Work(db)
    BY <2>2, <2>3 DEF Work
  <2> QED  BY <2>1, <2>4, RequestKeeps
<1> QED  BY <1>1, <1>2, <1>3, <1>4

LEMMA CategoryRouteKeeps == ASSUME Orderly, NEW t \in Thread, CategoryRoute(t) PROVE Orderly'
  BY AddCategoryKeeps, CategoryRowKeeps DEF CategoryRoute

\* A fetch keeps the domains that were entered by hand.
LEMMA SyncKeeps == ASSUME Orderly, NEW c \in DOMAIN db.category, SyncCategory(c) PROVE Orderly'
<1> DEFINE r == [db.category[c] EXCEPT !.listed = Lists[db.category[c].url] \ db.category[c].manual]
<1>1. db.category[c] # None /\ db.category[c].url # None
  BY DEF SyncCategory
<1>2. r \in CategoryRow /\ r.access = db.category[c].access /\ r.listed \intersect r.manual = {}
  <2>1. Lists[db.category[c].url] \subseteq Pattern
    BY <1>1, CategoryIds, FormsAssumption DEF CategoryRow
  <2> QED  BY <1>1, <2>1, CategoryIds DEF CategoryRow
<1>3. db' = [db EXCEPT !.category[c] = r] /\ job' = job /\ now' = now
  BY DEF SyncCategory
<1> HIDE DEF r
<1>4. Leads(db, db')
  BY <1>1, <1>2, <1>3, Recategorized DEF Orderly
<1>5. Work(db') = Work(db)
  BY <1>4, SameWork
<1> QED  BY <1>3, <1>4, <1>5 DEF Orderly, Leads

-----------------------------------------------------------------------------
(* Schedules and overrides.                                                *)

LEMMA ScheduleIds ==
    ASSUME Orderly, NEW s \in DOMAIN db.schedule
    PROVE  s \in Id /\ (db.schedule[s] # None => db.schedule[s] \in ScheduleRow)
  BY DEF Orderly, Tables, ScheduleRows, Id

\* One row of the schedules.
LEMMA NewSchedule ==
    ASSUME NEW d, Tables(d), NEW s \in DOMAIN d.schedule, NEW r \in ScheduleRow,
           Refers(r.access, d.present),
           r.blocks \subseteq {c \in DOMAIN d.category : d.category[c] # None}
    PROVE  Leads(d, [d EXCEPT !.schedule[s] = r])
<1> DEFINE x == [d.schedule EXCEPT ![s] = r]
<1>1. ScheduleRows(x, d.category, d.present)
  BY DEF Tables, ScheduleRows
<1>2. DOMAIN x = DOMAIN d.schedule /\ \A i \in DOMAIN x : d.schedule[i] # None => x[i] # None
  BY NoRowAssumption
<1> HIDE DEF x
<1>3. Leads(d, [d EXCEPT !.schedule = x])
  BY <1>1, <1>2, NewSchedules
<1> QED  BY <1>3 DEF x

LEMMA AddScheduleKeeps ==
    ASSUME Orderly, NEW t \in Thread, NEW s \in DOMAIN db.schedule, NEW w \in Windows,
           AddSchedule(t, s, w)
    PROVE  Orderly'
<1> DEFINE r == WindowRow(w, Nobody, {})
<1>1. w \in WindowForm /\ Nobody \in Audience
  BY FormsAssumption, NobodyIsNamed DEF Named
<1>2. r \in ScheduleRow /\ r.access = Nobody /\ r.blocks = {}
  BY <1>1 DEF WindowRow, WindowForm, ScheduleRow
<1>3. Request(t, [db EXCEPT !.schedule[s] = r], <<>>)
  BY DEF AddSchedule
<1> HIDE DEF r
<1>4. Refers(Nobody, db.present)
  BY DEF Refers, Nobody, Kind
<1>5. Leads(db, [db EXCEPT !.schedule[s] = r])
  BY <1>2, <1>4, NewSchedule DEF Orderly
<1> QED  BY <1>3, <1>5, NoWork, RequestKeeps

LEMMA UpdateScheduleKeeps ==
    ASSUME Orderly, NEW t \in Thread, NEW s \in DOMAIN db.schedule, NEW w \in Windows,
           NEW a \in Audiences, NEW section \in BOOLEAN, NEW C \in SUBSET DOMAIN db.category,
           db.schedule[s] # None, UpdateSchedule(t, s, w, a, section, C)
    PROVE  Orderly'
<1> DEFINE r == WindowRow(w, db.schedule[s].access, db.schedule[s].blocks)
           blocks == <<[do |-> "unblock", table |-> "schedule", row |-> s]>>
                       \o [i \in DOMAIN SetToSeq(C) |->
                             [do |-> "block", table |-> "schedule", row |-> s, who |-> SetToSeq(C)[i]]]
           rest == ReplaceAccess("schedule", s, a) \o (IF section THEN blocks ELSE <<>>)
<1>1. w \in WindowForm /\ db.schedule[s] \in ScheduleRow /\ s \in Id
  BY FormsAssumption, ScheduleIds
<1>2. r \in ScheduleRow /\ r.access = db.schedule[s].access /\ r.blocks = db.schedule[s].blocks
  BY <1>1 DEF WindowRow, WindowForm, ScheduleRow
<1>3. Request(t, [db EXCEPT !.schedule[s] = r], rest)
  BY DEF UpdateSchedule
<1> HIDE DEF r, rest
<1>4. Leads(db, [db EXCEPT !.schedule[s] = r])
  <2>1. Refers(r.access, db.present) /\ r.blocks \subseteq {c \in DOMAIN db.category : db.category[c] # None}
    BY <1>2 DEF Orderly, Tables, ScheduleRows
  <2> QED  BY <1>2, <2>1, NewSchedule DEF Orderly
<1>5. rest \in Work(db)
  <2>1. ReplaceAccess("schedule", s, a) \in Work(db)
    BY <1>1, AccessWork DEF Granted
  <2>2. blocks \in Work(db)
    BY <1>1, BlocksWork DEF Orderly
  <2>3. (IF section THEN blocks ELSE <<>>) \in Work(db)
    BY <2>2, NoWork
  <2> HIDE DEF blocks
  <2> QED  BY <2>1, <2>3, MoreWork DEF rest
<1> QED  BY <1>3, <1>4, <1>5, RequestKeeps

LEMMA OverrideKeeps ==
    ASSUME Orderly, NEW t \in Thread, NEW s \in DOMAIN db.schedule, NEW kind \in Kind,
           NEW who \in db.present[kind], NEW length \in Durations,
           AddScheduleOverride(t, s, kind, who, length)
    PROVE  Orderly'
<1> DEFINE old == [do |-> "supersede", kind |-> kind, who |-> who]
           new == [do |-> "force", row |-> s, kind |-> kind, who |-> who,
                   created |-> now, expires |-> now + length]
<1>1. Request(t, db, <<old, new>>) /\ Leads(db, db)
  BY DEF AddScheduleOverride, Leads, Orderly
<1>2. who \in Person /\ now \in Nat /\ now + length \in Nat
  BY FormsAssumption DEF Orderly, Tables
<1>3. old \in Statements(DOMAIN db.category, DOMAIN db.schedule)
  BY <1>2 DEF Statements
<1>4. new \in Statements(DOMAIN db.category, DOMAIN db.schedule)
  BY <1>2 DEF Statements
<1> HIDE DEF old, new
<1>5. <<old, new>> \in Work(db)
  BY <1>3, <1>4 DEF Work
<1> QED  BY <1>1, <1>5, RequestKeeps

LEMMA CancelKeeps ==
    ASSUME Orderly, NEW t \in Thread, NEW o, CancelScheduleOverride(t, o) PROVE Orderly'
<1>1. OverrideRows(db.override \ {o}, db.schedule, db.present)
  BY DEF Orderly, Tables, OverrideRows
<1>2. Leads(db, [db EXCEPT !.override = @ \ {o}])
  BY <1>1, NewOverrides DEF Orderly
<1> QED  BY <1>2, NoWork, RequestKeeps DEF CancelScheduleOverride

LEMMA ScheduleRouteKeeps ==
    ASSUME Orderly, NEW t \in Thread, ScheduleRoute(t) PROVE Orderly'
<1>1. PICK s \in DOMAIN db.schedule, w \in Windows, a \in Audiences, kind \in Kind, length \in Durations :
        \/ AddSchedule(t, s, w)
        \/ /\ db.schedule[s] # None
           /\ \E section \in BOOLEAN, C \in SUBSET DOMAIN db.category : UpdateSchedule(t, s, w, a, section, C)
        \/ \E who \in db.present[kind] : AddScheduleOverride(t, s, kind, who, length)
        \/ \E o \in db.override : CancelScheduleOverride(t, o)
  BY DEF ScheduleRoute
<1>2. CASE AddSchedule(t, s, w)
  BY <1>2, AddScheduleKeeps
<1>3. CASE /\ db.schedule[s] # None
           /\ \E section \in BOOLEAN, C \in SUBSET DOMAIN db.category : UpdateSchedule(t, s, w, a, section, C)
  BY <1>3, UpdateScheduleKeeps
<1>4. CASE \E who \in db.present[kind] : AddScheduleOverride(t, s, kind, who, length)
  BY <1>4, OverrideKeeps
<1>5. CASE \E o \in db.override : CancelScheduleOverride(t, o)
  BY <1>5, CancelKeeps
<1> QED  BY <1>1, <1>2, <1>3, <1>4, <1>5

-----------------------------------------------------------------------------
(* Bulk routes.                                                            *)

\* All of the rows of S, or none: a row that is there is given an audience all of whose
\* members are.
LEMMA TransactionKeeps ==
    ASSUME Orderly, NEW t \in Thread, NEW table \in Granted, NEW S \in SUBSET DOMAIN db[table],
           NEW a \in Audiences, Transaction(t, table, S, a)
    PROVE  Orderly'
<1> DEFINE fails == \E i \in S, k \in Kind : \E who \in a[k] : Fails(db, Grant(table, i, k, who))
           x == [i \in DOMAIN db[table] |-> IF i \in S /\ db[table][i] # None
                                            THEN [db[table][i] EXCEPT !.access = a] ELSE db[table][i]]
<1>1. Request(t, IF fails THEN db ELSE [db EXCEPT ![table] = x], <<>>)
  <2>1. table \in DOMAIN db
    BY DEF Granted, Orderly, Tables
  <2> QED  BY <2>1 DEF Transaction
<1>2. CASE fails
  <2>1. Request(t, db, <<>>) /\ Leads(db, db)
    BY <1>1, <1>2 DEF Leads, Orderly
  <2> QED  BY <2>1, NoWork, RequestKeeps
<1>3. CASE ~fails
  <2>1. ASSUME NEW i \in DOMAIN x, x[i] # db[table][i]
        PROVE  /\ db[table][i] # None
               /\ \E b \in Named(db.present) : x[i] = [db[table][i] EXCEPT !.access = b]
    <3>1. i \in S /\ db[table][i] # None /\ x[i] = [db[table][i] EXCEPT !.access = a]
      BY <2>1
    <3>2. \A k \in Kind : a[k] \subseteq db.present[k]
      BY <1>3, <3>1 DEF Fails, Grant
    <3>3. a \in Named(db.present)
      BY <3>2, FormsAssumption DEF Named, Refers
    <3> QED  BY <3>1, <3>3
  <2>2. x = [i \in DOMAIN x |-> x[i]] /\ DOMAIN x = DOMAIN db[table]
    OBVIOUS
  <2>3. Request(t, [db EXCEPT ![table] = x], <<>>)
    BY <1>1, <1>3
  <2> HIDE DEF x
  <2>4. Leads(db, [db EXCEPT ![table] = x])
    BY <2>1, <2>2, Regranted DEF Orderly
  <2> QED  BY <2>3, <2>4, NoWork, RequestKeeps
<1> QED  BY <1>2, <1>3

LEMMA BulkDeleteKeeps ==
    ASSUME Orderly, NEW t \in Thread, NEW S, BulkDeleteDomains(t, S) PROVE Orderly'
<1> DEFINE x == [i \in DOMAIN db.domain |->
                   IF i \in S /\ db.domain[i] # None /\ ~db.domain[i].kept /\ ~db.domain[i].series
                   THEN None ELSE db.domain[i]]
<1>1. Request(t, [db EXCEPT !.domain = x], <<>>)
  BY DEF BulkDeleteDomains, Orderly, Tables
<1>2. DOMAIN x = DOMAIN db.domain /\ \A i \in DOMAIN x : x[i] = None \/ x[i] = db.domain[i]
  OBVIOUS
<1> HIDE DEF x
<1>3. DomainRows(x, db.present)
  BY <1>2 DEF Orderly, Tables, DomainRows
<1>4. Leads(db, [db EXCEPT !.domain = x])
  BY <1>3, NewDomains DEF Orderly
<1> QED  BY <1>1, <1>4, NoWork, RequestKeeps

\* A deleted category is blocked by no schedule any more.
LEMMA DeleteCategoriesKeeps ==
    ASSUME Orderly, NEW t \in Thread, NEW S, DeleteCategories(t, S) PROVE Orderly'
<1> DEFINE x == Without(db.category, S)
           y == Unblock(db.schedule, S)
           d == [db EXCEPT !.category = x, !.schedule = y]
<1>1. Request(t, d, <<>>)
  BY DEF DeleteCategories, Orderly, Tables
<1>2. /\ DOMAIN x = DOMAIN db.category
      /\ \A c \in DOMAIN x : x[c] = IF c \in S THEN None ELSE db.category[c]
  BY DEF Without
<1>3. CategoryRows(x, db.present)
  BY <1>2 DEF Orderly, Tables, CategoryRows
<1>4. DOMAIN y = DOMAIN db.schedule /\ \A s \in DOMAIN y : db.schedule[s] = None => y[s] = None
  BY DEF Unblock
<1>5. \A s \in DOMAIN y : db.schedule[s] # None =>
         /\ y[s] \in ScheduleRow /\ y[s].access = db.schedule[s].access
         /\ y[s].blocks = db.schedule[s].blocks \ S
  BY DEF Unblock, Orderly, Tables, ScheduleRows, ScheduleRow
<1>6. \A s \in DOMAIN y : y[s] # None <=> db.schedule[s] # None
  BY <1>4, <1>5, NoRowAssumption
<1> HIDE DEF x, y
<1>7. ScheduleRows(y, x, db.present)
  BY <1>2, <1>4, <1>5 DEF Orderly, Tables, ScheduleRows
<1>8. OverrideRows(db.override, y, db.present)
  BY <1>4, <1>6 DEF Orderly, Tables, OverrideRows
<1>9. Leads(db, d)
  BY <1>2, <1>3, <1>4, <1>7, <1>8 DEF Orderly, Tables, Leads
<1> QED  BY <1>1, <1>9, NoWork, RequestKeeps

\* Nor does an override force a deleted schedule.
LEMMA DeleteSchedulesKeeps ==
    ASSUME Orderly, NEW t \in Thread, NEW S, DeleteSchedules(t, S) PROVE Orderly'
<1> DEFINE y == Without(db.schedule, S)
           z == {o \in db.override : o.schedule \notin S}
           d == [db EXCEPT !.schedule = y, !.override = z]
<1>1. Request(t, d, <<>>)
  BY DEF DeleteSchedules, Orderly, Tables
<1>2. DOMAIN y = DOMAIN db.schedule /\ \A s \in DOMAIN y : y[s] = IF s \in S THEN None ELSE db.schedule[s]
  BY DEF Without
<1>3. \A o \in z : o \in db.override /\ o.schedule \notin S
  OBVIOUS
<1> HIDE DEF y, z
<1>4. ScheduleRows(y, db.category, db.present)
  BY <1>2 DEF Orderly, Tables, ScheduleRows
<1>5. OverrideRows(z, y, db.present)
  BY <1>2, <1>3 DEF Orderly, Tables, OverrideRows
<1>6. Leads(db, d)
  BY <1>2, <1>4, <1>5 DEF Orderly, Tables, Leads
<1> QED  BY <1>1, <1>6, NoWork, RequestKeeps

LEMMA BulkRouteKeeps == ASSUME Orderly, NEW t \in Thread, BulkRoute(t) PROVE Orderly'
<1>1. PICK a \in Audiences :
        \/ \E S \in SUBSET DOMAIN db.domain : BulkDeleteDomains(t, S) \/ Transaction(t, "domain", S, a)
        \/ \E S \in SUBSET DOMAIN db.category : DeleteCategories(t, S) \/ Transaction(t, "category", S, a)
        \/ \E S \in SUBSET DOMAIN db.schedule : DeleteSchedules(t, S) \/ Transaction(t, "schedule", S, a)
  <2>1. PICK a \in Audiences :
          \/ \E S \in SUBSET DOMAIN db.domain :
                BulkDeleteDomains(t, S) \/ BulkUpdateDomainAccess(t, S, a)
          \/ \E S \in SUBSET DOMAIN db.category :
                DeleteCategories(t, S) \/ BulkUpdateCategoryAccess(t, S, a)
          \/ \E S \in SUBSET DOMAIN db.schedule :
                DeleteSchedules(t, S) \/ BulkUpdateScheduleAccess(t, S, a)
    BY DEF BulkRoute, Sets
  <2>2. ASSUME NEW S \in SUBSET DOMAIN db.category, BulkUpdateCategoryAccess(t, S, a)
        PROVE  \E T \in SUBSET DOMAIN db.category : Transaction(t, "category", T, a)
    BY <2>2 DEF BulkUpdateCategoryAccess
  <2>3. ASSUME NEW S \in SUBSET DOMAIN db.schedule, BulkUpdateScheduleAccess(t, S, a)
        PROVE  \E T \in SUBSET DOMAIN db.schedule : Transaction(t, "schedule", T, a)
    BY <2>3 DEF BulkUpdateScheduleAccess
  <2> QED  BY <2>1, <2>2, <2>3 DEF BulkUpdateDomainAccess
<1>2. "domain" \in Granted /\ "category" \in Granted /\ "schedule" \in Granted
  BY DEF Granted
<1> QED  BY <1>1, <1>2, TransactionKeeps, BulkDeleteKeeps, DeleteCategoriesKeeps, DeleteSchedulesKeeps

-----------------------------------------------------------------------------
(* People and devices.                                                     *)

\* What is left of somebody's grants, for those who stay.
LEMMA StripLeaves ==
    ASSUME NEW d, Tables(d), NEW table \in Granted, NEW kind \in Kind, NEW who,
           NEW x, x = Strip(d[table], kind, who),
           NEW stay, stay = [d.present EXCEPT ![kind] = @ \ {who}]
    PROVE  /\ DOMAIN x = DOMAIN d[table]
           /\ \A i \in DOMAIN x :
                 /\ d[table][i] = None => x[i] = None
                 /\ d[table][i] # None =>
                       \E a \in Named(stay) : x[i] = [d[table][i] EXCEPT !.access = a]
<1>1. DOMAIN x = DOMAIN d[table] /\ \A i \in DOMAIN x : d[table][i] = None => x[i] = None
  BY DEF Strip
<1>2. ASSUME NEW i \in DOMAIN x, d[table][i] # None
      PROVE  \E a \in Named(stay) : x[i] = [d[table][i] EXCEPT !.access = a]
  <2>1. d[table][i].access \in Named(d.present)
    BY <1>1, <1>2, Audienced
  <2>2. [d[table][i].access EXCEPT ![kind] = @ \ {who}] \in Named(stay)
    BY <2>1, Unnamed DEF Tables
  <2>3. x[i] = [d[table][i] EXCEPT !.access = [d[table][i].access EXCEPT ![kind] = @ \ {who}]]
    BY <1>1, <1>2 DEF Strip
  <2> QED  BY <2>2, <2>3
<1>3. \A i \in DOMAIN x : d[table][i] # None =>
         \E a \in Named(stay) : x[i] = [d[table][i] EXCEPT !.access = a]
  BY <1>2, Zenon
<1> QED  BY <1>1, <1>3, Zenon

LEMMA SaveDeviceKeeps ==
    ASSUME Orderly, NEW t \in Thread, NEW a \in DOMAIN db.device, NEW f \in DeviceForms,
           SaveDevice(t, a, f)
    PROVE  Orderly'
<1> DEFINE r == [f EXCEPT !.id = db.device[a].id]
           x == [db.device EXCEPT ![a] = r]
<1>1. db.device[a] # None /\ db.device[a] \in DeviceRow /\ db.device[a].id \in db.present.devices
  BY DEF SaveDevice, Orderly, Tables, DeviceRows
<1>2. /\ r \in DeviceRow /\ r.id \in db.present.devices
      /\ r.user \in db.present.users \union {None} /\ r.group \in db.present.groups \union {None}
  BY <1>1, FormsAssumption DEF DeviceRow, SaveDevice
<1>3. Request(t, [db EXCEPT !.device = x], <<>>)
  BY DEF SaveDevice
<1> HIDE DEF r
<1>4. DeviceRows(x, db.present)
  BY <1>2 DEF Orderly, Tables, DeviceRows
<1> HIDE DEF x
<1>5. Leads(db, [db EXCEPT !.device = x])
  BY <1>4, NewDevices DEF Orderly
<1> QED  BY <1>3, <1>5, NoWork, RequestKeeps

\* Whoever is deleted loses all grants and overrides, and the devices their user or group.
LEMMA DeletePersonKeeps ==
    ASSUME Orderly, NEW t \in Thread, NEW kind \in Kind, NEW who, DeletePerson(t, kind, who)
    PROVE  Orderly'
<1> DEFINE stay == [db.present EXCEPT ![kind] = @ \ {who}]
           p == Strip(db.domain, kind, who)
           q == Strip(db.allow, kind, who)
           x == Strip(db.category, kind, who)
           y == Strip(db.schedule, kind, who)
           z == {o \in db.override : ~(o.kind = kind /\ o.who = who)}
           v == Orphan(db.device, kind, who)
           d == [db EXCEPT !.present = stay, !.domain = p, !.allow = q, !.category = x,
                           !.schedule = y, !.override = z, !.device = v]
<1>1. Request(t, d, <<>>)
  <2>1. {"device", "present", "domain", "allow", "category", "schedule", "override"} = DOMAIN db
    BY DEF Orderly, Tables
  <2> QED  BY <2>1 DEF DeletePerson
<1>2. DOMAIN stay = Kind /\ \A k \in Kind : stay[k] \subseteq Person
  BY DEF Orderly, Tables
<1>3. DomainRows(p, stay)
  <2>1. DOMAIN p = DOMAIN db.domain /\ \A i \in DOMAIN p :
           /\ db.domain[i] = None => p[i] = None
           /\ db.domain[i] # None => \E a \in Named(stay) : p[i] = [db.domain[i] EXCEPT !.access = a]
    <3>1. Tables(db) /\ "domain" \in Granted
      BY DEF Orderly, Granted
    <3>2. p = Strip(db["domain"], kind, who) /\ stay = [db.present EXCEPT ![kind] = @ \ {who}]
      OBVIOUS
    <3> HIDE DEF p, stay
    <3> QED  BY <3>1, <3>2, StripLeaves
  <2> HIDE DEF p, stay
  <2>2. \A i \in DOMAIN p : db.domain[i] # None =>
           p[i] \in DomainRow /\ Refers(p[i].access, stay) /\ p[i].pattern = db.domain[i].pattern
    BY <2>1 DEF Named, Orderly, Tables, DomainRows, DomainRow
  <2> QED  BY <2>1, <2>2 DEF Orderly, Tables, DomainRows
<1>4. AllowRows(q, stay)
  <2>1. DOMAIN q = DOMAIN db.allow /\ \A i \in DOMAIN q :
           /\ db.allow[i] = None => q[i] = None
           /\ db.allow[i] # None => \E a \in Named(stay) : q[i] = [db.allow[i] EXCEPT !.access = a]
    <3>1. Tables(db) /\ "allow" \in Granted
      BY DEF Orderly, Granted
    <3>2. q = Strip(db["allow"], kind, who) /\ stay = [db.present EXCEPT ![kind] = @ \ {who}]
      OBVIOUS
    <3> HIDE DEF q, stay
    <3> QED  BY <3>1, <3>2, StripLeaves
  <2> HIDE DEF q, stay
  <2> QED  BY <2>1 DEF Named, Orderly, Tables, AllowRows, AllowRow
<1>5. CategoryRows(x, stay) /\ DOMAIN x = DOMAIN db.category
      /\ \A c \in DOMAIN x : db.category[c] # None => x[c] # None
  <2>1. DOMAIN x = DOMAIN db.category /\ \A i \in DOMAIN x :
           /\ db.category[i] = None => x[i] = None
           /\ db.category[i] # None => \E a \in Named(stay) : x[i] = [db.category[i] EXCEPT !.access = a]
    <3>1. Tables(db) /\ "category" \in Granted
      BY DEF Orderly, Granted
    <3>2. x = Strip(db["category"], kind, who) /\ stay = [db.present EXCEPT ![kind] = @ \ {who}]
      OBVIOUS
    <3> HIDE DEF x, stay
    <3> QED  BY <3>1, <3>2, StripLeaves
  <2> HIDE DEF x, stay
  <2>2. \A i \in DOMAIN x : db.category[i] # None =>
           x[i] \in CategoryRow /\ Refers(x[i].access, stay) /\ x[i].listed \intersect x[i].manual = {}
    BY <2>1 DEF Named, Orderly, Tables, CategoryRows, CategoryRow
  <2> QED  BY <2>1, <2>2, NoRowAssumption DEF Orderly, Tables, CategoryRows
<1>6. ScheduleRows(y, x, stay) /\ DOMAIN y = DOMAIN db.schedule
      /\ \A s \in DOMAIN y : db.schedule[s] # None => y[s] # None
  <2>1. DOMAIN y = DOMAIN db.schedule /\ \A i \in DOMAIN y :
           /\ db.schedule[i] = None => y[i] = None
           /\ db.schedule[i] # None => \E a \in Named(stay) : y[i] = [db.schedule[i] EXCEPT !.access = a]
    <3>1. Tables(db) /\ "schedule" \in Granted
      BY DEF Orderly, Granted
    <3>2. y = Strip(db["schedule"], kind, who) /\ stay = [db.present EXCEPT ![kind] = @ \ {who}]
      OBVIOUS
    <3> HIDE DEF y, stay
    <3> QED  BY <3>1, <3>2, StripLeaves
  <2> HIDE DEF x, y, stay
  <2>2. \A i \in DOMAIN y : db.schedule[i] # None =>
           y[i] \in ScheduleRow /\ Refers(y[i].access, stay) /\ y[i].blocks = db.schedule[i].blocks
    BY <2>1 DEF Named, Orderly, Tables, ScheduleRows, ScheduleRow
  <2> QED  BY <1>5, <2>1, <2>2, NoRowAssumption DEF Orderly, Tables, ScheduleRows
<1>7. OverrideRows(z, y, stay)
  <2>1. \A o \in z : o \in db.override /\ o.who \in stay[o.kind]
    BY DEF Orderly, Tables, OverrideRows
  <2> HIDE DEF y, z, stay
  <2> QED  BY <1>6, <2>1 DEF Orderly, Tables, OverrideRows
<1>8. DeviceRows(v, stay)
  <2>0. DOMAIN v \subseteq Client
    BY DEF Orphan, Orderly, Tables, DeviceRows
  <2> SUFFICES ASSUME NEW a \in DOMAIN v, v[a] # None
               PROVE  /\ v[a] \in DeviceRow /\ v[a].id \in stay.devices
                      /\ v[a].user \in stay.users \union {None}
                      /\ v[a].group \in stay.groups \union {None}
    BY <2>0 DEF DeviceRows
  <2>1. /\ db.device[a] \in DeviceRow /\ db.device[a].id \in db.present.devices
        /\ db.device[a].user \in db.present.users \union {None}
        /\ db.device[a].group \in db.present.groups \union {None}
        /\ ~(kind = "devices" /\ db.device[a].id = who)
    BY DEF Orphan, Orderly, Tables, DeviceRows
  <2>2. v[a] = [db.device[a] EXCEPT
                  !.user = IF kind = "users" /\ @ = who THEN None ELSE @,
                  !.group = IF kind = "groups" /\ @ = who THEN None ELSE @]
    BY <2>1 DEF Orphan
  <2> HIDE DEF v
  <2>3. /\ v[a] \in DeviceRow /\ v[a].id = db.device[a].id
        /\ v[a].user = IF kind = "users" /\ db.device[a].user = who THEN None ELSE db.device[a].user
        /\ v[a].group = IF kind = "groups" /\ db.device[a].group = who THEN None ELSE db.device[a].group
    BY <2>1, <2>2 DEF DeviceRow
  <2>4. /\ stay.users = IF kind = "users" THEN db.present.users \ {who} ELSE db.present.users
        /\ stay.groups = IF kind = "groups" THEN db.present.groups \ {who} ELSE db.present.groups
        /\ stay.devices = IF kind = "devices" THEN db.present.devices \ {who} ELSE db.present.devices
    BY DEF Orderly, Tables, Kind
  <2> HIDE DEF stay
  <2> QED  BY <2>1, <2>3, <2>4
<1> HIDE DEF stay, p, q, x, y, z, v
<1>9. Leads(db, d)
  BY <1>2, <1>3, <1>4, <1>5, <1>6, <1>7, <1>8 DEF Orderly, Tables, Leads
<1> QED  BY <1>1, <1>9, NoWork, RequestKeeps

LEMMA PeopleRouteKeeps == ASSUME Orderly, NEW t \in Thread, PeopleRoute(t) PROVE Orderly'
  BY DeletePersonKeeps, SaveDeviceKeeps DEF PeopleRoute

LEMMA HouseholdRouteKeeps == ASSUME Orderly, HouseholdRoute PROVE Orderly'
  BY DomainRouteKeeps, CategoryRouteKeeps, ScheduleRouteKeeps, BulkRouteKeeps, PeopleRouteKeeps,
     SyncKeeps DEF HouseholdRoute

-----------------------------------------------------------------------------
(* The types of the whole.                                                 *)

Switched == filters \in [DOMAIN Lists -> {"absent", "on", "off"}]

TInv == Orderly /\ Switched

LEMMA SwitchedKeeps == ASSUME Switched, [Next]_ruleVars PROVE Switched'
<1>1. CASE SyncFilter \/ DisableFilter
  <2>1. \/ filters' = filters \/ filters' = [filters EXCEPT ![Current.url] = "on"]
        \/ filters' = [filters EXCEPT ![Current.url] = "off"]
    <3>1. CASE SyncFilter
      BY <3>1 DEF SyncFilter, CycleCall
    <3>2. CASE DisableFilter
      BY <3>2 DEF DisableFilter, CycleCall
    <3> QED  BY <1>1, <3>1, <3>2
  <2> QED  BY <2>1 DEF Switched
<1>2. CASE filters' = filters
  BY <1>2 DEF Switched
<1>3. SyncFilter \/ DisableFilter \/ filters' = filters
  <2>1. CASE Cycle
    BY <2>1 DEF Cycle, FetchEligible, BuildRules, Build, GetCustomRules, SetCustomRules,
                GetFiltersStatus, GetSafesearchStatus, SetSafesearchSettings, StartRewrite, OnError,
                OnSuccess, CycleLocal, RewriteLocal, ReportLocal, adguardVars
  <2>2. CASE \E x \in Actor : RewriteStep(x)
    BY <2>2 DEF RewriteStep, GetRewrites, DeleteRewrite, AddRewrite, RewriteUnchanged, RewriteLocal
  <2> QED
    BY <2>1, <2>2 DEF Next, UpdateFilteringSettings, SyncOptigateRewriteNow, UpdateAdmin,
        RestartAdguard, RestartController, AdminOpensPage, AdminSaves, Household, adguardVars, ruleVars
<1> QED  BY <1>1, <1>2, <1>3

\* Only the household's steps write the tables.
LEMMA TablesKeep == ASSUME Orderly, [Next]_ruleVars PROVE Orderly'
<1>1. CASE Household
  <2>1. CASE HouseholdRoute
    BY <2>1, HouseholdRouteKeeps
  <2>2. CASE HouseholdStep
    BY <2>2, StatementKeeps DEF HouseholdStep
  <2>3. CASE Tick
    BY <2>3 DEF Tick, Orderly
  <2> QED  BY <1>1, <2>1, <2>2, <2>3 DEF Household
<1>2. CASE db' = db /\ job' = job /\ now' = now
  BY <1>2 DEF Orderly
<1>3. Household \/ (db' = db /\ job' = job /\ now' = now)
  <2>1. CASE Cycle
    BY <2>1 DEF Cycle, FetchEligible, BuildRules, Build, GetCustomRules, SetCustomRules,
                GetFiltersStatus, SyncFilter, DisableFilter, GetSafesearchStatus,
                SetSafesearchSettings, StartRewrite, OnError, OnSuccess, CycleLocal, RewriteLocal,
                ReportLocal, householdVars
  <2>2. CASE \E x \in Actor : RewriteStep(x)
    BY <2>2 DEF RewriteStep, GetRewrites, DeleteRewrite, AddRewrite, RewriteUnchanged, RewriteLocal,
                householdVars
  <2> QED
    BY <2>1, <2>2 DEF Next, UpdateFilteringSettings, SyncOptigateRewriteNow, UpdateAdmin,
        RestartAdguard, RestartController, AdminOpensPage, AdminSaves, householdVars, ruleVars
<1> QED  BY <1>1, <1>2, <1>3

LEMMA InitTyped == Init => TInv
<1> SUFFICES ASSUME Init PROVE TInv
  OBVIOUS
<1>1. Tables(db) /\ job = [t \in Thread |-> <<>>] /\ now = 0
  BY DEF Init
<1>2. job \in [Thread -> Work(db)]
  BY <1>1, NoWork
<1>3. Switched
  BY DEF Init, Switched
<1> QED  BY <1>1, <1>2, <1>3 DEF TInv, Orderly

LEMMA NextTyped == TInv /\ [Next]_ruleVars => TInv'
  BY TablesKeep, SwitchedKeeps DEF TInv

\* No row ever names somebody or something deleted, whichever requests meet, however far
\* each has come when another's statement is executed (common/db.py's foreign keys).
THEOREM ForeignKeys == Spec => []TypeOK
<1>1. TInv /\ OInv => TypeOK
  BY DEF TInv, Orderly, Switched, OInv, Authored, Written, TypeOK
<1> QED  BY <1>1, InitTyped, NextTyped, InitKeeps, NextKeeps, PTL DEF Spec

-----------------------------------------------------------------------------
(* Windows.                                                                *)

\* A time of the week is a day and a slot of it.
LEMMA TimeOfWeek ==
    ASSUME NEW t \in 0 .. Days * Slots - 1
    PROVE  \E d \in 0 .. Days - 1, m \in 0 .. Slots - 1 : t = d * Slots + m
<1> DEFINE d == t \div Slots
           m == t % Slots
<1>1. Days \in Nat /\ Slots \in Nat /\ Slots > 0 /\ t \in Nat /\ t < Days * Slots
  BY WeekAssumption
<1>2. d \in Nat /\ m \in 0 .. Slots - 1
  BY <1>1
<1>3. t = d * Slots + m
  BY <1>1
<1> HIDE DEF d, m
<1>4. d < Days
  <2>1. d * Slots < Days * Slots
    BY <1>1, <1>2, <1>3
  <2>2. SUFFICES ASSUME d >= Days PROVE FALSE
    BY <1>1, <1>2
  <2>3. PICK k \in Nat : d = Days + k
    BY <1>1, <1>2, <2>2
  <2>4. d * Slots = Days * Slots + k * Slots /\ k * Slots >= 0
    BY <1>1, <2>3
  <2> QED  BY <1>1, <1>2, <2>1, <2>4
<1> QED  BY <1>1, <1>2, <1>3, <1>4

LEMMA DaySlot ==
    ASSUME NEW d \in 0 .. Days - 1, NEW m \in 0 .. Slots - 1
    PROVE  Weekday(d * Slots + m) = d /\ SlotOf(d * Slots + m) = m
<1>1. (d * Slots + m) \div Slots = d
  BY WeekAssumption
<1>2. d % Days = d
  BY WeekAssumption
<1>3. (d * Slots + m) % Slots = m
  BY WeekAssumption
<1> QED BY <1>1, <1>2, <1>3 DEF Weekday, SlotOf

\* A number within a round of zero.
LEMMA Around ==
    ASSUME NEW n \in Nat, NEW x \in -n .. n - 1, n > 0
    PROVE  x % n = IF x < 0 THEN x + n ELSE x
<1>1. CASE x >= 0
  BY <1>1
<1>2. CASE x < 0
  <2>1. x + n \in 0 .. n - 1 /\ (x + n) % n = x + n
    BY <1>2
  <2>2. (x + n) % n = x % n
    OBVIOUS
  <2> QED  BY <1>2, <2>1, <2>2
<1> QED  BY <1>1, <1>2

LEMMA Yesterday ==
    ASSUME NEW d \in 0 .. Days - 1
    PROVE  (d - 1) % Days = IF d = 0 THEN Days - 1 ELSE d - 1
<1>1. d - 1 \in -Days .. Days - 1
  BY WeekAssumption
<1> QED  BY <1>1, Around, WeekAssumption

\* The distance from the opening of a day e to slot m of day d is shorter than a day when
\* they are the same day or e is the day before.
LEMMA Distance ==
    ASSUME NEW d \in 0 .. Days - 1, NEW e \in 0 .. Days - 1,
           NEW m \in 0 .. Slots - 1, NEW start \in 0 .. Slots - 1, NEW length \in 0 .. Slots
    PROVE  ((d * Slots + m) - (e * Slots + start)) % (Days * Slots) < length
             <=> \/ d = e /\ 0 <= m - start /\ m - start < length
                 \/ (d - 1) % Days = e /\ m - start + Slots < length
<1> DEFINE x == (d * Slots + m) - (e * Slots + start)
           n == Days * Slots
           k == d - e
<1>1. Days \in Nat /\ Slots \in Nat /\ Slots > 0 /\ Days > 0
  BY WeekAssumption
<1>2. x = k * Slots + (m - start) /\ k \in 1 - Days .. Days - 1
  BY <1>1
<1>3. n \in Nat /\ n > 0
  BY <1>1
<1>4. x \in -n .. n - 1
  <2>1. k * Slots <= (Days - 1) * Slots /\ (1 - Days) * Slots <= k * Slots
    BY <1>1, <1>2
  <2>2. (Days - 1) * Slots = n - Slots /\ (1 - Days) * Slots = Slots - n
    BY <1>1
  <2> QED  BY <1>1, <1>2, <1>3, <2>1, <2>2
<1>5. x % n = IF x < 0 THEN x + n ELSE x
  BY <1>3, <1>4, Around
<1>6. x + n = (k + Days) * Slots + (m - start)
  BY <1>1, <1>2
<1>7. (d - 1) % Days = IF d = 0 THEN Days - 1 ELSE d - 1
  BY Yesterday
\* Rounds of the day on either side.
<1>8. \A j \in Int : (j >= 2 => j * Slots >= 2 * Slots) /\ (j <= -1 => j * Slots <= -Slots)
  <2>1. ASSUME NEW j \in Int, j >= 2 PROVE j * Slots >= 2 * Slots
    <3>1. PICK i \in Nat : j = 2 + i
      BY <2>1
    <3>2. j * Slots = 2 * Slots + i * Slots /\ i * Slots >= 0
      BY <1>1, <3>1
    <3> QED  BY <1>1, <3>2
  <2>2. ASSUME NEW j \in Int, j <= -1 PROVE j * Slots <= -Slots
    <3>1. PICK i \in Nat : j = -1 - i
      BY <2>2
    <3>2. j * Slots = -Slots - i * Slots /\ i * Slots >= 0
      BY <1>1, <3>1
    <3> QED  BY <1>1, <3>2
  <2> QED  BY <2>1, <2>2
<1> HIDE DEF x, n, k
<1>9. (0 <= x /\ x < length) <=> \/ k = 0 /\ 0 <= m - start /\ m - start < length
                                 \/ k = 1 /\ m - start + Slots < length
  BY <1>1, <1>2, <1>8
<1>10. (x < 0 /\ x + n < length) <=> k = 1 - Days /\ m - start + Slots < length
  <2>1. x + n >= 0
    BY <1>3, <1>4
  <2> QED  BY <1>1, <1>2, <1>6, <1>8, <2>1
<1> QED  BY <1>1, <1>3, <1>4, <1>5, <1>7, <1>9, <1>10 DEF x, n, k

LEMMA WindowIsInterval ==
    ASSUME NEW s \in ScheduleRow, NEW t \in 0 .. Days * Slots - 1
    PROVE  ScheduleIsActive(s, t) <=> InWindow(s, t)
<1> DEFINE length == Length(s)
           start == IF s.start = s.end THEN 0 ELSE s.start
<1>1. PICK d \in 0 .. Days - 1, m \in 0 .. Slots - 1 : t = d * Slots + m
  BY TimeOfWeek
<1>2. Weekday(t) = d /\ SlotOf(t) = m
  BY <1>1, DaySlot
<1>3. s.days \subseteq 0 .. Days - 1 /\ s.start \in 0 .. Slots - 1 /\ s.end \in 0 .. Slots - 1
  BY DEF ScheduleRow
<1>4. start \in 0 .. Slots - 1
  BY <1>3, WeekAssumption
<1>5. length = IF s.start = s.end THEN Slots
               ELSE IF s.start < s.end THEN s.end - s.start ELSE s.end - s.start + Slots
  <2>1. s.end - s.start \in -Slots .. Slots - 1 /\ Slots \in Nat /\ Slots > 0
    BY <1>3, WeekAssumption
  <2>2. (s.end - s.start) % Slots = IF s.end - s.start < 0 THEN s.end - s.start + Slots ELSE s.end - s.start
    BY <2>1, Around
  <2> QED  BY <1>3, <2>2 DEF Length
<1>6. length \in 0 .. Slots
  BY <1>3, <1>5, WeekAssumption
<1>7. InWindow(s, t) <=> \E e \in s.days : (t - (e * Slots + start)) % (Days * Slots) < length
  BY DEF InWindow, Opens
<1> HIDE DEF length, start
<1>8. ASSUME NEW e \in s.days
      PROVE  (t - (e * Slots + start)) % (Days * Slots) < length
               <=> \/ d = e /\ 0 <= m - start /\ m - start < length
                   \/ (d - 1) % Days = e /\ m - start + Slots < length
  BY <1>1, <1>3, <1>4, <1>6, Distance
<1>9. InWindow(s, t) <=> \/ d \in s.days /\ 0 <= m - start /\ m - start < length
                         \/ (d - 1) % Days \in s.days /\ m - start + Slots < length
  BY <1>7, <1>8
<1>10. CASE s.start = s.end
  <2>1. length = Slots /\ start = 0 /\ ~(s.start < s.end) /\ ~(s.start > s.end)
    BY <1>3, <1>5, <1>10 DEF start
  <2>2. ScheduleIsActive(s, t) <=> d \in s.days
    BY <1>2, <1>10, <2>1 DEF ScheduleIsActive
  <2> QED  BY <1>9, <2>1, <2>2, WeekAssumption
<1>11. CASE s.start < s.end
  <2>1. length = s.end - s.start /\ start = s.start /\ s.start # s.end /\ ~(s.start > s.end)
    BY <1>3, <1>5, <1>11 DEF start
  <2>2. ScheduleIsActive(s, t) <=> d \in s.days /\ s.start <= m /\ m < s.end
    BY <1>2, <1>3, <1>11, <2>1 DEF ScheduleIsActive
  <2> QED  BY <1>3, <1>9, <2>1, <2>2, WeekAssumption
<1>12. CASE s.start > s.end
  <2>1. length = s.end - s.start + Slots /\ start = s.start /\ s.start # s.end /\ ~(s.start < s.end)
    BY <1>3, <1>5, <1>12 DEF start
  <2>2. ScheduleIsActive(s, t) <=> \/ d \in s.days /\ m >= s.start
                                   \/ (d - 1) % Days \in s.days /\ m < s.end
    BY <1>2, <1>3, <1>12, <2>1 DEF ScheduleIsActive
  <2> QED  BY <1>3, <1>9, <2>1, <2>2, WeekAssumption
<1> QED  BY <1>3, <1>10, <1>11, <1>12

\* The form of a schedule is checked when it is saved, so what holds of any window holds of
\* every row: it is active at exactly the times of its window, over midnight, over the end
\* of the week and when it begins and ends at the same time (schedule_is_active).
THEOREM WindowsAreWindows == Spec => []WindowsAreIntervals
<1>1. TypeOK => WindowsAreIntervals
  BY WindowIsInterval DEF TypeOK, Tables, ScheduleRows, WindowsAreIntervals
<1> QED  BY <1>1, ForeignKeys, PTL

-----------------------------------------------------------------------------
(* Agreement.  What a cycle that nobody disturbs has done at each stage.   *)

Stage == {"bump", "splice", "category", "ech", "allow", "read", "write", "filters", "filter",
          "disable", "safe", "safe set", "rewrite", "done", "failed"}

\* The rewrite is the cycle's last concern; a cycle that is over leaves nothing behind.
Waiting ==
    /\ DOMAIN cycle = DOMAIN Idle /\ cycle.at \in Stage \union {"idle"}
    /\ DOMAIN rewrite = Actor /\ \A x \in Actor : DOMAIN rewrite[x] = DOMAIN Resting
    /\ rewrite["controller"].at # "idle" => cycle.at = "rewrite" /\ BlockPage # None
    /\ cycle.at = "idle" => cycle = Idle

\* The rules of the five builders, and of all of them.
BumpRules == DomainDenyRules("bump", TRUE, Eligible)
SpliceRules == DomainDenyRules("splice", FALSE, Eligible)
ListRules == CategoryDenyRules(Eligible) \union AntiDohRules
AllRules == BumpRules \union SpliceRules \union ListRules \union EchStripRules(Eligible) \union AllowRules(Eligible)

\* What the cycle has built so far comes from the tables as they are.
Built ==
    /\ cycle.at \in {"bump", "splice", "category", "ech", "allow"} => cycle.eligible = Eligible
    /\ cycle.at = "bump" => cycle.rules = {}
    /\ cycle.at = "splice" => cycle.rules = BumpRules
    /\ cycle.at = "category" => cycle.rules = BumpRules \union SpliceRules
    /\ cycle.at = "ech" => cycle.rules = BumpRules \union SpliceRules \union ListRules
    /\ cycle.at = "allow" =>
          cycle.rules = BumpRules \union SpliceRules \union ListRules \union EchStripRules(Eligible)
    /\ cycle.at = "read" => cycle.rules = AllRules
    /\ cycle.at = "write" => cycle.rules = Merge(AllRules) /\ cycle.read = text
    /\ cycle.at \in {"filters", "filter", "disable", "safe", "safe set", "rewrite", "done"} =>
          text.block = Merge(AllRules)

Large == {c \in DOMAIN db.category : /\ db.category[c] # None /\ db.category[c].url # None
                                     /\ OverThreshold(db.category[c])}
Todo(c) == [id |-> c, url |-> db.category[c].url, everyone |-> db.category[c].access.everyone]

\* No other category has the URL of c.
Alone(c) == \A d \in DOMAIN db.category :
               (d # c /\ db.category[d] # None) => db.category[d].url # db.category[c].url

Right(c) == (filters[db.category[c].url] = "on") <=> ShouldEnable(c, db.category[c].access.everyone)

\* A category that the loop is through with is subscribed to as it should be; one that it is
\* not, as AdGuard's answer said, unless the loop has just switched it on.
Filtered ==
    /\ cycle.at \in {"filter", "disable"} =>
          /\ cycle.left # {} /\ cycle.left \subseteq {Todo(c) : c \in Large}
          /\ \A c \in Large : Alone(c) =>
                IF Todo(c) \notin cycle.left THEN Right(c)
                ELSE \/ cycle.status[db.category[c].url] = filters[db.category[c].url]
                     \/ cycle.at = "disable" /\ Current = Todo(c)
    /\ cycle.at = "disable" => ~ShouldEnable(Current.id, Current.everyone)
    /\ cycle.at \in {"safe", "safe set", "rewrite", "done"} => FiltersAgree

Searched ==
    /\ cycle.at = "safe set" => cycle.read = settings.safe
    /\ cycle.at \in {"rewrite", "done"} => safe = settings.safe

\* The rewrites that AdGuard is still to lose and to get.
Renaming ==
    LET r == rewrite["controller"]
        right == [domain |-> settings.name, answer |-> BlockPage]
    IN  /\ r.at # "idle" => r.name = settings.name
        /\ r.at = "change" => r.stale = rewrites \ {right} /\ (r.add <=> right \notin rewrites)
        /\ cycle.at = "done" => RewritesAgree

DInv == Waiting /\ (quiet => Built /\ Filtered /\ Searched /\ Renaming)

-----------------------------------------------------------------------------
(* The rules.                                                              *)

\* A rule is for all or for some addresses of the LAN.
RuleOfLan(r) ==
    /\ r = Rule(r.allow, r.body, r.clients, r.suffix)
    /\ r.clients = None \/ r.clients \subseteq Client
Rules(R) == \A r \in R : RuleOfLan(r)

LEMMA SomeIsNotNone == ASSUME NEW S, S \subseteq Client PROVE S # None
  BY NoneAssumption

\* The merged rule of r.
Merged(R, r) ==
    [r EXCEPT !.clients = IF None \in {q.clients : q \in {x \in R : SameKey(x, r)}} THEN None
                          ELSE UNION {q.clients : q \in {x \in R : SameKey(x, r)}}]

LEMMA MergeIs == ASSUME NEW R PROVE Merge(R) = {Merged(R, r) : r \in R}
  BY DEF Merge, Merged

LEMMA MergedIs ==
    ASSUME NEW R, Rules(R), NEW r \in R
    PROVE  /\ SameKey(Merged(R, r), r)
           /\ Merged(R, r) = Rule(r.allow, r.body, Merged(R, r).clients, r.suffix)
           /\ Merged(R, r).clients = None <=> \E q \in R : SameKey(q, r) /\ q.clients = None
           /\ Merged(R, r).clients # None =>
                 Merged(R, r).clients = UNION {q.clients : q \in {x \in R : SameKey(x, r)}}
<1> DEFINE K == {x \in R : SameKey(x, r)}
           C == {q.clients : q \in K}
           m == [r EXCEPT !.clients = IF None \in C THEN None ELSE UNION C]
<1>1. r = Rule(r.allow, r.body, r.clients, r.suffix)
  BY DEF Rules, RuleOfLan
<1>2. m = Rule(r.allow, r.body, IF None \in C THEN None ELSE UNION C, r.suffix)
  <2> HIDE DEF C
  <2> QED  BY <1>1 DEF Rule
<1>3. m.clients = IF None \in C THEN None ELSE UNION C
  <2> HIDE DEF C, m
  <2> QED  BY <1>2 DEF Rule
<1>4. m.allow = r.allow /\ m.body = r.body /\ m.suffix = r.suffix
  <2> HIDE DEF C, m
  <2> QED  BY <1>2 DEF Rule
<1>5. None \notin C => UNION C # None
  <2>1. None \notin C => \A S \in C : S \subseteq Client
    BY DEF Rules, RuleOfLan
  <2> HIDE DEF C
  <2>2. None \notin C => UNION C \subseteq Client
    BY <2>1
  <2> QED  BY <2>2, SomeIsNotNone
<1>6. None \in C <=> \E q \in R : SameKey(q, r) /\ q.clients = None
  BY Zenon
<1>7. m = Merged(R, r)
  BY DEF Merged
<1> HIDE DEF m, C
<1> QED  BY <1>2, <1>3, <1>4, <1>5, <1>6, <1>7 DEF SameKey, C, K

\* A merged rule is for the clients of all rules of its key.
LEMMA MergedFor ==
    ASSUME NEW R, Rules(R), NEW r \in R, NEW a, NEW host
    PROVE  Matches(Merged(R, r), a, host) <=> \E q \in R : SameKey(q, r) /\ Matches(q, a, host)
<1>1. SameKey(Merged(R, r), r)
  BY MergedIs
<1>2. CASE Merged(R, r).clients = None
  <2>1. PICK q \in R : SameKey(q, r) /\ q.clients = None
    BY <1>2, MergedIs
  <2> QED  BY <1>1, <1>2, <2>1 DEF Matches, SameKey
<1>3. CASE Merged(R, r).clients # None
  <2>1. Merged(R, r).clients = UNION {q.clients : q \in {x \in R : SameKey(x, r)}}
    BY <1>3, MergedIs
  <2>2. \A q \in R : SameKey(q, r) => q.clients # None
    BY <1>3, MergedIs
  <2>3. a \in Merged(R, r).clients <=> \E q \in R : SameKey(q, r) /\ a \in q.clients
    BY <2>1
  <2>4. Matches(Merged(R, r), a, host) <=> host \in Covers[r.body] /\ a \in Merged(R, r).clients
    BY <1>1, <1>3 DEF Matches, SameKey
  <2> QED  BY <2>2, <2>3, <2>4 DEF Matches, SameKey
<1> QED  BY <1>2, <1>3

\* No two merged rules share a body and an action.
LEMMA MergeIsEffective == ASSUME NEW R, Rules(R) PROVE Effective(Merge(R)) = Merge(R)
<1>1. ASSUME NEW r \in R, NEW q \in R, SameKey(Merged(R, r), Merged(R, q))
      PROVE  Merged(R, r) = Merged(R, q)
  <2>1. SameKey(r, q) /\ SameKey(q, r)
    BY <1>1, MergedIs DEF SameKey
  <2>2. \A x \in R : SameKey(x, r) <=> SameKey(x, q)
    BY <2>1 DEF SameKey
  <2>3. {x \in R : SameKey(x, r)} = {x \in R : SameKey(x, q)}
    BY <2>2
  <2>4. Merged(R, r).clients = Merged(R, q).clients
    <3>1. Merged(R, r).clients = None <=> Merged(R, q).clients = None
      BY <2>2, MergedIs
    <3>2. CASE Merged(R, r).clients # None
      <4>1. Merged(R, r).clients = UNION {x.clients : x \in {y \in R : SameKey(y, r)}}
        BY <3>2, MergedIs
      <4>2. Merged(R, q).clients = UNION {x.clients : x \in {y \in R : SameKey(y, q)}}
        BY <3>1, <3>2, MergedIs
      <4> QED  BY <2>3, <4>1, <4>2
    <3> QED  BY <3>1, <3>2
  <2> QED  BY <2>1, <2>4, MergedIs DEF SameKey
<1> QED  BY <1>1, MergeIs DEF Effective

LEMMA MergeBlocks ==
    ASSUME NEW R, Rules(R), NEW a, NEW host
    PROVE  /\ Blocked(Merge(R), a, host) <=> Blocked(R, a, host)
           /\ Stripped(Merge(R), a, host) <=> Stripped(R, a, host)
<1>1. ASSUME NEW r \in R
      PROVE  /\ Merged(R, r).allow = r.allow /\ Merged(R, r).suffix = r.suffix
             /\ Matches(r, a, host) => Matches(Merged(R, r), a, host)
             /\ Matches(Merged(R, r), a, host) =>
                   \E q \in R : q.allow = r.allow /\ q.suffix = r.suffix /\ Matches(q, a, host)
  BY MergedIs, MergedFor DEF SameKey
<1> QED  BY <1>1, MergeIs DEF Blocked, Stripped
-----------------------------------------------------------------------------
(* What the rules of each builder say, for an eligible device.             *)

LEMMA EligibleIs == ASSUME Orderly PROVE DOMAIN Eligible \subseteq Client
  BY DEF Eligible, Address, Orderly, Tables, DeviceRows

\* The device is not let through by the row.
Refuses(bumpOnly, dev, row) == ~(Reason(dev, row) # None /\ (bumpOnly => BumpEligible(dev)))

LEMMA DenyMeans ==
    ASSUME Orderly, NEW mode, NEW bumpOnly, NEW a \in DOMAIN Eligible, NEW host
    PROVE  LET R == DomainDenyRules(mode, bumpOnly, Eligible)
           IN  /\ \A r \in R : RuleOfLan(r) /\ r.allow = FALSE /\ r.suffix = BlockPage
               /\ (\E r \in R : Matches(r, a, host)) <=>
                     \E row \in Rows(db.domain) :
                        /\ row.mode = mode /\ host \in Covers[row.pattern]
                        /\ Refuses(bumpOnly, Eligible[a], row)
<1> DEFINE denied(row) == {x \in DOMAIN Eligible :
                            ~(Reason(Eligible[x], row) # None /\ (bumpOnly => BumpEligible(Eligible[x])))}
           R == DomainDenyRules(mode, bumpOnly, Eligible)
<1>1. \A row : denied(row) \subseteq Client /\ denied(row) # None
  <2>1. \A row : denied(row) \subseteq Client
    BY EligibleIs
  <2> HIDE DEF denied
  <2> QED  BY <2>1, SomeIsNotNone
<1>2. R = {Rule(FALSE, row.pattern, denied(row), BlockPage) :
              row \in {r \in Rows(db.domain) : r.mode = mode /\ denied(r) # {}}}
  BY DEF DomainDenyRules
<1>3. \A row : a \in denied(row) <=> Refuses(bumpOnly, Eligible[a], row)
  BY DEF Refuses
<1> HIDE DEF denied, R
<1>4. \A r \in R : RuleOfLan(r) /\ r.allow = FALSE /\ r.suffix = BlockPage
  BY <1>1, <1>2 DEF Rule, RuleOfLan
<1>5. \A row : Matches(Rule(FALSE, row.pattern, denied(row), BlockPage), a, host)
                 <=> host \in Covers[row.pattern] /\ a \in denied(row)
  BY <1>1 DEF Rule, Matches
<1>6. (\E r \in R : Matches(r, a, host)) <=>
         \E row \in Rows(db.domain) : row.mode = mode /\ host \in Covers[row.pattern] /\ a \in denied(row)
  BY <1>2, <1>5
<1> QED  BY <1>3, <1>4, <1>6 DEF R

LEMMA StripMeans ==
    ASSUME Orderly, NEW a \in DOMAIN Eligible, NEW host
    PROVE  LET R == EchStripRules(Eligible)
           IN  /\ \A r \in R : RuleOfLan(r) /\ r.allow = FALSE /\ r.suffix = "https"
               /\ (\E r \in R : Matches(r, a, host)) <=>
                     \E row \in Rows(db.domain) :
                        row.mode = "bump" /\ host \in Covers[row.pattern] /\ MayUse(Eligible[a], row)
<1> DEFINE allowed(row) == {x \in DOMAIN Eligible :
                              BumpEligible(Eligible[x]) /\ Reason(Eligible[x], row) # None}
           R == EchStripRules(Eligible)
<1>1. \A row : allowed(row) \subseteq Client /\ allowed(row) # None
  <2>1. \A row : allowed(row) \subseteq Client
    BY EligibleIs
  <2> HIDE DEF allowed
  <2> QED  BY <2>1, SomeIsNotNone
<1>2. R = {Rule(FALSE, row.pattern, allowed(row), "https") :
              row \in {r \in Rows(db.domain) : r.mode = "bump" /\ allowed(r) # {}}}
  BY DEF EchStripRules
<1>3. \A row : row.mode = "bump" => (a \in allowed(row) <=> MayUse(Eligible[a], row))
  BY DEF MayUse
<1> HIDE DEF allowed, R
<1>4. \A r \in R : RuleOfLan(r) /\ r.allow = FALSE /\ r.suffix = "https"
  BY <1>1, <1>2 DEF Rule, RuleOfLan
<1>5. \A row : Matches(Rule(FALSE, row.pattern, allowed(row), "https"), a, host)
                 <=> host \in Covers[row.pattern] /\ a \in allowed(row)
  BY <1>1 DEF Rule, Matches
<1>6. (\E r \in R : Matches(r, a, host)) <=>
         \E row \in Rows(db.domain) : row.mode = "bump" /\ host \in Covers[row.pattern] /\ a \in allowed(row)
  BY <1>2, <1>5
<1> QED  BY <1>3, <1>4, <1>6 DEF R

\* A scope that is left out means every eligible device.
LEMMA ScopeMeans ==
    ASSUME Orderly, NEW clients \in SUBSET DOMAIN Eligible, NEW a \in DOMAIN Eligible
    PROVE  LET scope == ScopeOf(clients, Eligible)
           IN  /\ scope = None \/ scope \subseteq Client
               /\ (scope = None \/ a \in scope) <=> a \in clients
<1>1. clients \subseteq Client /\ clients # None
  BY EligibleIs, SomeIsNotNone
<1> QED  BY <1>1 DEF ScopeOf

LEMMA ListMeans ==
    ASSUME Orderly, NEW a \in DOMAIN Eligible, NEW host
    PROVE  LET R == CategoryDenyRules(Eligible)
           IN  /\ \A r \in R : RuleOfLan(r) /\ r.allow = FALSE /\ r.suffix = BlockPage
               /\ (\E r \in R : Matches(r, a, host)) <=>
                     \E c \in DOMAIN db.category :
                        /\ db.category[c] # None /\ ~OverThreshold(db.category[c])
                        /\ \E p \in BlockedPatterns(db.category[c]) : host \in Covers[p]
                        /\ BlockedFor(c, Eligible[a], now)
<1> DEFINE clients(c) == {x \in DOMAIN Eligible : BlockedFor(c, Eligible[x], now)}
           small == {c \in DOMAIN db.category : db.category[c] # None /\ ~OverThreshold(db.category[c])}
           ruled == {c \in DOMAIN db.category :
                       /\ db.category[c] # None /\ ~OverThreshold(db.category[c])
                       /\ clients(c) # {}}
           scope(c) == ScopeOf(clients(c), Eligible)
           of(c) == {Rule(FALSE, p, scope(c), BlockPage) : p \in BlockedPatterns(db.category[c])}
           R == CategoryDenyRules(Eligible)
<1>1. \A c : /\ scope(c) = None \/ scope(c) \subseteq Client
             /\ (scope(c) = None \/ a \in scope(c)) <=> a \in clients(c)
  <2>1. \A c : clients(c) \in SUBSET DOMAIN Eligible
    OBVIOUS
  <2> HIDE DEF clients
  <2> QED  BY <2>1, ScopeMeans
<1>2. R = UNION {of(c) : c \in ruled}
  BY DEF CategoryDenyRules
<1>3. \A c : a \in clients(c) <=> BlockedFor(c, Eligible[a], now)
  OBVIOUS
<1>4. ruled = {c \in small : clients(c) # {}}
  OBVIOUS
<1> HIDE DEF clients, scope, ruled, R
<1>5. \A r : r \in R <=>
         \E c \in ruled : \E p \in BlockedPatterns(db.category[c]) : r = Rule(FALSE, p, scope(c), BlockPage)
  <2>1. \A c, r : r \in of(c) <=>
           \E p \in BlockedPatterns(db.category[c]) : r = Rule(FALSE, p, scope(c), BlockPage)
    OBVIOUS
  <2> HIDE DEF of
  <2>2. \A r : r \in R <=> \E c \in ruled : r \in of(c)
    BY <1>2
  <2> HIDE DEF ruled
  <2>3. ASSUME NEW r PROVE r \in R <=>
           \E c \in ruled : \E p \in BlockedPatterns(db.category[c]) : r = Rule(FALSE, p, scope(c), BlockPage)
    <3>1. ASSUME NEW c \in ruled, r \in of(c)
          PROVE  \E p \in BlockedPatterns(db.category[c]) : r = Rule(FALSE, p, scope(c), BlockPage)
      BY <2>1, <3>1
    <3>2. ASSUME NEW c \in ruled,
                 \E p \in BlockedPatterns(db.category[c]) : r = Rule(FALSE, p, scope(c), BlockPage)
          PROVE  r \in of(c)
      BY <2>1, <3>2
    <3> QED  BY <2>2, <3>1, <3>2, Zenon
  <2> QED  BY <2>3
<1> HIDE DEF of
<1>6. \A r \in R : RuleOfLan(r) /\ r.allow = FALSE /\ r.suffix = BlockPage
  <2>1. \A c, p : LET r == Rule(FALSE, p, scope(c), BlockPage)
                  IN  RuleOfLan(r) /\ r.allow = FALSE /\ r.suffix = BlockPage
    BY <1>1 DEF Rule, RuleOfLan
  <2> QED
    <3> SUFFICES ASSUME NEW r \in R PROVE RuleOfLan(r) /\ r.allow = FALSE /\ r.suffix = BlockPage
      OBVIOUS
    <3>1. PICK c \in ruled : \E p \in BlockedPatterns(db.category[c]) : r = Rule(FALSE, p, scope(c), BlockPage)
      BY <1>5
    <3>2. PICK p \in BlockedPatterns(db.category[c]) : r = Rule(FALSE, p, scope(c), BlockPage)
      BY <3>1
    <3> QED  BY <2>1, <3>2
<1>7. \A c, p : Matches(Rule(FALSE, p, scope(c), BlockPage), a, host)
                  <=> host \in Covers[p] /\ a \in clients(c)
  BY <1>1 DEF Rule, Matches
<1>8. (\E r \in R : Matches(r, a, host)) <=>
         \E c \in small : (\E p \in BlockedPatterns(db.category[c]) : host \in Covers[p]) /\ a \in clients(c)
  <2>1. (\E r \in R : Matches(r, a, host)) <=>
           \E c \in ruled : \E p \in BlockedPatterns(db.category[c]) :
              Matches(Rule(FALSE, p, scope(c), BlockPage), a, host)
    BY <1>5
  <2> QED  BY <1>4, <1>7, <2>1
<1> QED  BY <1>3, <1>6, <1>8 DEF R

LEMMA CanaryMeans ==
    ASSUME NEW a, NEW host
    PROVE  /\ \A r \in AntiDohRules : RuleOfLan(r) /\ r.allow = FALSE /\ r.suffix = None
           /\ (\E r \in AntiDohRules : Matches(r, a, host)) <=> \E p \in Canary : host \in Covers[p]
<1>1. \A p : LET r == Rule(FALSE, p, None, None)
             IN  RuleOfLan(r) /\ r.allow = FALSE /\ r.suffix = None /\ (Matches(r, a, host) <=> host \in Covers[p])
  BY DEF Rule, RuleOfLan, Matches
<1> QED  BY <1>1 DEF AntiDohRules

LEMMA AllowMeans ==
    ASSUME Orderly, NEW a \in DOMAIN Eligible, NEW host
    PROVE  LET R == AllowRules(Eligible)
           IN  /\ \A r \in R : RuleOfLan(r) /\ r.allow = TRUE /\ r.suffix = None
               /\ (\E r \in R : Matches(r, a, host)) <=>
                     \E p \in Pattern : /\ db.allow[p] # None /\ host \in Covers[p]
                                        /\ Reason(Eligible[a], db.allow[p]) # None
<1> DEFINE clients(p) == {x \in DOMAIN Eligible : Reason(Eligible[x], db.allow[p]) # None}
           scope(p) == ScopeOf(clients(p), Eligible)
           R == AllowRules(Eligible)
<1>1. \A p : /\ scope(p) = None \/ scope(p) \subseteq Client
             /\ (scope(p) = None \/ a \in scope(p)) <=> a \in clients(p)
  <2>1. \A p : clients(p) \in SUBSET DOMAIN Eligible
    OBVIOUS
  <2> HIDE DEF clients
  <2> QED  BY <2>1, ScopeMeans
<1>2. R = {Rule(TRUE, p, scope(p), None) : p \in {q \in Pattern : db.allow[q] # None /\ clients(q) # {}}}
  BY DEF AllowRules
<1>3. \A p : a \in clients(p) <=> Reason(Eligible[a], db.allow[p]) # None
  OBVIOUS
<1> HIDE DEF clients, scope, R
<1>4. \A r \in R : RuleOfLan(r) /\ r.allow = TRUE /\ r.suffix = None
  BY <1>1, <1>2 DEF Rule, RuleOfLan
<1>5. \A p : Matches(Rule(TRUE, p, scope(p), None), a, host) <=> host \in Covers[p] /\ a \in clients(p)
  BY <1>1 DEF Rule, Matches
<1>6. (\E r \in R : Matches(r, a, host)) <=>
         \E p \in Pattern : db.allow[p] # None /\ host \in Covers[p] /\ a \in clients(p)
  BY <1>2, <1>5
<1> QED  BY <1>3, <1>4, <1>6 DEF R

\* All rules together block what the tables call for, and strip what may be decrypted.
LEMMA AllMean ==
    ASSUME Orderly, NEW a \in DOMAIN Eligible, NEW host
    PROVE  /\ Rules(AllRules)
           /\ Blocked(AllRules, a, host) <=> CalledFor(Eligible[a], host)
           /\ Stripped(AllRules, a, host) <=>
                 \E row \in Rows(db.domain) :
                    row.mode = "bump" /\ host \in Covers[row.pattern] /\ MayUse(Eligible[a], row)
<1> DEFINE lists == CategoryDenyRules(Eligible)
           strips == EchStripRules(Eligible)
           allows == AllowRules(Eligible)
           hits(R) == \E r \in R : Matches(r, a, host)
           Refused(row) == ~MayUse(Eligible[a], row)
<1>1. /\ \A r \in BumpRules : RuleOfLan(r) /\ r.allow = FALSE /\ r.suffix = BlockPage
      /\ hits(BumpRules) <=> \E row \in Rows(db.domain) :
                                row.mode = "bump" /\ host \in Covers[row.pattern] /\ Refused(row)
  <2>1. hits(BumpRules) <=>
           \E row \in Rows(db.domain) :
              /\ row.mode = "bump" /\ host \in Covers[row.pattern]
              /\ Refuses(TRUE, Eligible[a], row)
    BY DenyMeans, Zenon DEF BumpRules
  <2>2. \A r \in BumpRules : RuleOfLan(r) /\ r.allow = FALSE /\ r.suffix = BlockPage
    BY DenyMeans DEF BumpRules
  <2>3. \A row : row.mode = "bump" => (Refuses(TRUE, Eligible[a], row) <=> ~MayUse(Eligible[a], row))
    BY DEF MayUse, Refuses
  <2> QED  BY <2>1, <2>2, <2>3
<1>2. /\ \A r \in SpliceRules : RuleOfLan(r) /\ r.allow = FALSE /\ r.suffix = BlockPage
      /\ hits(SpliceRules) <=> \E row \in Rows(db.domain) :
                                  row.mode = "splice" /\ host \in Covers[row.pattern] /\ Refused(row)
  <2>1. hits(SpliceRules) <=>
           \E row \in Rows(db.domain) :
              /\ row.mode = "splice" /\ host \in Covers[row.pattern]
              /\ Refuses(FALSE, Eligible[a], row)
    BY DenyMeans, Zenon DEF SpliceRules
  <2>2. \A r \in SpliceRules : RuleOfLan(r) /\ r.allow = FALSE /\ r.suffix = BlockPage
    BY DenyMeans DEF SpliceRules
  <2>3. \A row : row.mode = "splice" => (Refuses(FALSE, Eligible[a], row) <=> ~MayUse(Eligible[a], row))
    BY DEF MayUse, Refuses
  <2> QED  BY <2>1, <2>2, <2>3
<1>3. \A r \in lists : RuleOfLan(r) /\ r.allow = FALSE /\ r.suffix = BlockPage
  BY ListMeans
<1>4. \A r \in strips : RuleOfLan(r) /\ r.allow = FALSE /\ r.suffix = "https"
  BY StripMeans
<1>5. \A r \in allows : RuleOfLan(r) /\ r.allow = TRUE /\ r.suffix = None
  BY AllowMeans
<1>6. \A r \in AntiDohRules : RuleOfLan(r) /\ r.allow = FALSE /\ r.suffix = None
  BY CanaryMeans
<1>7. AllRules = BumpRules \union SpliceRules \union lists \union AntiDohRules \union strips \union allows
  BY DEF AllRules, ListRules
<1>8. hits(lists) <=> \E c \in DOMAIN db.category :
                         /\ db.category[c] # None /\ ~OverThreshold(db.category[c])
                         /\ \E p \in BlockedPatterns(db.category[c]) : host \in Covers[p]
                         /\ BlockedFor(c, Eligible[a], now)
  BY ListMeans
<1>9. hits(strips) <=> \E row \in Rows(db.domain) :
                          row.mode = "bump" /\ host \in Covers[row.pattern] /\ MayUse(Eligible[a], row)
  BY StripMeans
<1>10. hits(allows) <=> \E p \in Pattern : /\ db.allow[p] # None /\ host \in Covers[p]
                                           /\ Reason(Eligible[a], db.allow[p]) # None
  BY AllowMeans
<1>11. hits(AntiDohRules) <=> \E p \in Canary : host \in Covers[p]
  BY CanaryMeans
<1>12. BlockPage # "https" /\ None # "https"
  BY BlockPageAssumption, NoneAssumption
<1> HIDE DEF lists, strips, allows
<1>13. Rules(AllRules)
  BY <1>1, <1>2, <1>3, <1>4, <1>5, <1>6, <1>7 DEF Rules
<1>14. Blocked(AllRules, a, host) <=>
         /\ hits(BumpRules) \/ hits(SpliceRules) \/ hits(lists) \/ hits(AntiDohRules)
         /\ ~hits(allows)
  <2>1. (\E r \in AllRules : ~r.allow /\ r.suffix # "https" /\ Matches(r, a, host))
          <=> hits(BumpRules) \/ hits(SpliceRules) \/ hits(lists) \/ hits(AntiDohRules)
    BY <1>1, <1>2, <1>3, <1>4, <1>5, <1>6, <1>7, <1>12
  <2>2. (\E r \in AllRules : r.allow /\ Matches(r, a, host)) <=> hits(allows)
    BY <1>1, <1>2, <1>3, <1>4, <1>5, <1>6, <1>7
  <2> QED  BY <2>1, <2>2 DEF Blocked
<1>15. Stripped(AllRules, a, host) <=> hits(strips)
  BY <1>1, <1>2, <1>3, <1>4, <1>5, <1>6, <1>7, <1>12 DEF Stripped
<1>16. (hits(BumpRules) \/ hits(SpliceRules)) <=>
          \E row \in Rows(db.domain) :
             host \in Covers[row.pattern] /\ row.mode \in {"bump", "splice"} /\ Refused(row)
  BY <1>1, <1>2
<1> HIDE DEF hits, Refused
<1>17. CalledFor(Eligible[a], host) <=> /\ ~hits(allows)
                                        /\ \/ hits(AntiDohRules) \/ hits(BumpRules) \/ hits(SpliceRules)
                                           \/ hits(lists)
  BY <1>8, <1>10, <1>11, <1>16, Zenon DEF CalledFor, Refused
<1> QED  BY <1>9, <1>13, <1>14, <1>15, <1>17

LEMMA BlockAgrees == ASSUME Orderly, text.block = Merge(AllRules), text.stray = {} PROVE RulesAgree
<1> SUFFICES ASSUME NEW a \in DOMAIN Eligible, NEW host \in Host
             PROVE  /\ Blocked(Effective(text.block \union text.stray), a, host) <=> CalledFor(Eligible[a], host)
                    /\ Stripped(Effective(text.block \union text.stray), a, host) <=>
                          \E row \in Rows(db.domain) :
                             row.mode = "bump" /\ host \in Covers[row.pattern] /\ MayUse(Eligible[a], row)
  BY Zenon DEF RulesAgree
<1>1. Rules(AllRules)
  BY AllMean
<1>2. Effective(text.block \union text.stray) = Merge(AllRules)
  <2>1. text.block \union text.stray = Merge(AllRules)
    OBVIOUS
  <2> QED  BY <2>1, <1>1, MergeIsEffective
<1>3. /\ Blocked(AllRules, a, host) <=> CalledFor(Eligible[a], host)
      /\ Stripped(AllRules, a, host) <=>
            \E row \in Rows(db.domain) :
               row.mode = "bump" /\ host \in Covers[row.pattern] /\ MayUse(Eligible[a], row)
  BY AllMean
<1>4. /\ Blocked(Merge(AllRules), a, host) <=> Blocked(AllRules, a, host)
      /\ Stripped(Merge(AllRules), a, host) <=> Stripped(AllRules, a, host)
  BY <1>1, MergeBlocks
<1> QED  BY <1>2, <1>3, <1>4, Zenon

-----------------------------------------------------------------------------
(* The stages.                                                             *)

\* Tables and time determine the rules and what is to be subscribed to.
LEMMA SameRules ==
    ASSUME db' = db, now' = now
    PROVE  /\ Eligible' = Eligible /\ BumpRules' = BumpRules /\ SpliceRules' = SpliceRules
           /\ ListRules' = ListRules /\ EchStripRules(Eligible)' = EchStripRules(Eligible)
           /\ AllowRules(Eligible)' = AllowRules(Eligible) /\ AllRules' = AllRules
<1>1. Eligible' = Eligible
  BY DEF Eligible, Address, DeviceAt
<1>2. BumpRules' = BumpRules /\ SpliceRules' = SpliceRules
  BY DEF BumpRules, SpliceRules, DomainDenyRules, Rows, Eligible, Address, DeviceAt
<1>3. ListRules' = ListRules
  BY DEF ListRules, CategoryDenyRules, AntiDohRules, BlockedFor, Eligible, Address, DeviceAt
<1>4. EchStripRules(Eligible)' = EchStripRules(Eligible)
  BY DEF EchStripRules, Rows, Eligible, Address, DeviceAt
<1>5. AllowRules(Eligible)' = AllowRules(Eligible)
  BY DEF AllowRules, Eligible, Address, DeviceAt
<1> QED  BY <1>1, <1>2, <1>3, <1>4, <1>5 DEF AllRules

LEMMA SameLists ==
    ASSUME db' = db, now' = now
    PROVE  /\ Large' = Large /\ \A c : Todo(c)' = Todo(c) /\ (Alone(c)' <=> Alone(c))
           /\ \A c, everyone : ShouldEnable(c, everyone)' <=> ShouldEnable(c, everyone)
  BY DEF Large, Todo, Alone, ShouldEnable

\* A cycle that has failed, or is over, has nothing to show.
LEMMA OverAgrees == ASSUME Waiting', cycle'.at \in {"failed", "idle"} PROVE DInv'
  BY DEF DInv, Waiting, Built, Filtered, Searched, Renaming, Idle

LEMMA FetchAgrees == ASSUME DInv, FetchEligible PROVE DInv'
<1>1. /\ cycle = Idle /\ cycle' = [cycle EXCEPT !.at = "bump", !.eligible = Eligible]
      /\ rewrite' = rewrite /\ db' = db /\ now' = now /\ rewrite["controller"].at = "idle"
  BY DEF DInv, Waiting, FetchEligible, CycleLocal, householdVars
<1>2. cycle'.at = "bump" /\ cycle'.eligible = Eligible /\ cycle'.rules = {} /\ DOMAIN cycle' = DOMAIN Idle
  BY <1>1 DEF Idle
<1>3. Waiting'
  BY <1>1, <1>2 DEF DInv, Waiting, Stage
<1>4. Built' /\ Filtered' /\ Searched' /\ Renaming'
  BY <1>1, <1>2, SameRules DEF Built, Filtered, Searched, Renaming
<1> QED  BY <1>3, <1>4 DEF DInv

\* What the steps of a quiet cycle leave alone.
Calm == (quiet' => quiet) /\ db' = db /\ now' = now /\ settings' = settings

LEMMA BuilderAgrees ==
    ASSUME DInv, NEW from \in {"bump", "splice", "category", "ech", "allow"}, NEW to \in Stage, NEW X,
           Build(from, to, X),
           cycle.eligible = Eligible =>
              \/ from = "bump" /\ to = "splice" /\ X = BumpRules
              \/ from = "splice" /\ to = "category" /\ X = SpliceRules
              \/ from = "category" /\ to = "ech" /\ X = ListRules
              \/ from = "ech" /\ to = "allow" /\ X = EchStripRules(Eligible)
              \/ from = "allow" /\ to = "read" /\ X = AllowRules(Eligible),
           to \in {"splice", "category", "ech", "allow", "read"}
    PROVE  DInv'
<1>1. Calm /\ rewrite' = rewrite /\ text' = text /\ rewrite["controller"].at = "idle"
  BY DEF Calm, Build, CycleLocal, householdVars, adguardVars, DInv, Waiting
<1>2. cycle.at = from /\ cycle' = [cycle EXCEPT !.at = to, !.rules = @ \union X]
  BY DEF Build
<1>3. /\ cycle'.at = to /\ cycle'.eligible = cycle.eligible /\ cycle'.rules = cycle.rules \union X
      /\ DOMAIN cycle' = DOMAIN Idle
  BY <1>2 DEF DInv, Waiting, Idle
<1>4. Waiting'
  BY <1>1, <1>2, <1>3 DEF DInv, Waiting, Stage
<1>5. ASSUME quiet PROVE Built'
  <2>1. cycle.eligible = Eligible
    BY <1>2, <1>5 DEF DInv, Built
  <2> QED  BY <1>1, <1>2, <1>3, <1>5, <2>1, SameRules DEF Calm, DInv, Built, AllRules
<1>6. Filtered' /\ Searched' /\ Renaming'
  BY <1>1, <1>2, <1>3 DEF Filtered, Searched, Renaming
<1> QED  BY <1>1, <1>4, <1>5, <1>6 DEF DInv, Calm

LEMMA BuildAgrees == ASSUME DInv, BuildRules PROVE DInv'
<1> DEFINE bumps == DomainDenyRules("bump", TRUE, cycle.eligible)
           splices == DomainDenyRules("splice", FALSE, cycle.eligible)
           lists == CategoryDenyRules(cycle.eligible) \union AntiDohRules
           strips == EchStripRules(cycle.eligible)
           allows == AllowRules(cycle.eligible)
<1>1. \/ Build("bump", "splice", bumps) \/ Build("splice", "category", splices)
      \/ Build("category", "ech", lists) \/ Build("ech", "allow", strips)
      \/ Build("allow", "read", allows)
  BY Zenon DEF BuildRules
<1>2. cycle.eligible = Eligible =>
         /\ bumps = BumpRules /\ splices = SpliceRules /\ lists = ListRules
         /\ strips = EchStripRules(Eligible) /\ allows = AllowRules(Eligible)
  BY Zenon DEF BumpRules, SpliceRules, ListRules
<1> HIDE DEF bumps, splices, lists, strips, allows
<1>3. CASE Build("bump", "splice", bumps)
  BY <1>2, <1>3, BuilderAgrees DEF Stage
<1>4. CASE Build("splice", "category", splices)
  BY <1>2, <1>4, BuilderAgrees DEF Stage
<1>5. CASE Build("category", "ech", lists)
  BY <1>2, <1>5, BuilderAgrees DEF Stage
<1>6. CASE Build("ech", "allow", strips)
  BY <1>2, <1>6, BuilderAgrees DEF Stage
<1>7. CASE Build("allow", "read", allows)
  BY <1>2, <1>7, BuilderAgrees DEF Stage
<1> QED  BY <1>1, <1>3, <1>4, <1>5, <1>6, <1>7

LEMMA GetAgrees == ASSUME DInv, GetCustomRules PROVE DInv'
<1> DEFINE c == [cycle EXCEPT !.at = "write", !.read = text,
                              !.rules = Merge(cycle.rules), !.eligible = <<>>]
<1>1. /\ Calm /\ rewrite' = rewrite /\ text' = text /\ rewrite["controller"].at = "idle"
      /\ cycle.at = "read"
  BY DEF Calm, GetCustomRules, CycleLocal, householdVars, adguardVars, DInv, Waiting
<1>2. cycle' = c \/ cycle' = [cycle EXCEPT !.at = "failed"]
  <2> HIDE DEF c
  <2>1. CycleRead(c)
    BY DEF GetCustomRules, c
  <2> QED  BY <2>1, ReadEnds
<1>3. CASE cycle' = [cycle EXCEPT !.at = "failed"]
  <2>1. Waiting' /\ cycle'.at = "failed"
    BY <1>1, <1>3 DEF DInv, Waiting, Stage, Idle
  <2> QED  BY <2>1, OverAgrees
<1>4. CASE cycle' = c
  <2>1. /\ cycle'.at = "write" /\ cycle'.read = text /\ cycle'.rules = Merge(cycle.rules)
        /\ DOMAIN cycle' = DOMAIN Idle
    BY <1>4 DEF DInv, Waiting, Idle
  <2>2. Waiting'
    BY <1>1, <2>1 DEF DInv, Waiting, Stage
  <2>3. Filtered' /\ Searched' /\ Renaming'
    BY <1>1, <2>1 DEF Filtered, Searched, Renaming
  <2>4. quiet => Built'
    BY <1>1, <2>1, SameRules DEF Calm, DInv, Built
  <2> QED  BY <1>1, <2>2, <2>3, <2>4 DEF DInv, Calm
<1> QED  BY <1>2, <1>3, <1>4

LEMMA SetAgrees == ASSUME DInv, SetCustomRules PROVE DInv'
<1> DEFINE kept == StripManagedBlock(cycle.read)
           new == [before |-> kept, block |-> cycle.rules, closed |-> cycle.rules # {}, after |-> {},
                  stray |-> cycle.read.stray]
           done == [cycle EXCEPT !.at = "filters", !.rules = {}, !.read = None]
<1>1. /\ Calm /\ rewrite' = rewrite /\ rewrite["controller"].at = "idle" /\ cycle.at = "write"
  BY DEF Calm, SetCustomRules, CycleLocal, householdVars, DInv, Waiting
<1>2. \/ cycle' = [cycle EXCEPT !.at = "failed"]
      \/ cycle' = done /\ text' = text /\ new = cycle.read
      \/ cycle' = done /\ text' = new
  <2>1. CASE new = cycle.read
    BY <2>1 DEF SetCustomRules
  <2>2. CASE new # cycle.read
    <3>1. CycleCall(text, new, text', done)
      BY <2>2 DEF SetCustomRules
    <3> HIDE DEF new, done
    <3> QED  BY <3>1 DEF CycleCall, Call
  <2> QED  BY <2>1, <2>2
<1>3. CASE cycle' = [cycle EXCEPT !.at = "failed"]
  <2>1. Waiting' /\ cycle'.at = "failed"
    BY <1>1, <1>3 DEF DInv, Waiting, Stage, Idle
  <2> QED  BY <2>1, OverAgrees
<1>4. ASSUME cycle' = done, (text' = text /\ new = cycle.read) \/ text' = new PROVE DInv'
  <2>1. cycle'.at = "filters" /\ DOMAIN cycle' = DOMAIN Idle
    BY <1>4 DEF DInv, Waiting, Idle
  <2>2. Waiting'
    BY <1>1, <2>1 DEF DInv, Waiting, Stage
  <2>3. Filtered' /\ Searched' /\ Renaming'
    BY <1>1, <2>1 DEF Filtered, Searched, Renaming
  <2>4. new.block = cycle.rules
    OBVIOUS
  <2>5. quiet => text'.block = Merge(AllRules)
    <3> HIDE DEF new, done
    <3> QED  BY <1>1, <1>4, <2>4 DEF DInv, Built
  <2>6. quiet => Built'
    BY <1>1, <2>1, <2>5, SameRules DEF Calm, Built
  <2> QED  BY <1>1, <2>2, <2>3, <2>6 DEF DInv, Calm
<1> QED  BY <1>2, <1>3, <1>4

-----------------------------------------------------------------------------
(* The subscriptions.                                                      *)

LEMMA GetFiltersAgrees == ASSUME DInv, GetFiltersStatus PROVE DInv'
<1> DEFINE todo == {Todo(c) : c \in Large}
           c == [cycle EXCEPT !.at = "filter", !.status = filters, !.left = todo]
<1>1. /\ Calm /\ rewrite' = rewrite /\ rewrite["controller"].at = "idle" /\ cycle.at = "filters"
      /\ text' = text /\ filters' = filters
  BY DEF Calm, GetFiltersStatus, CycleLocal, householdVars, adguardVars, DInv, Waiting
<1>2. \/ Large = {} /\ cycle' = [cycle EXCEPT !.at = "safe"]
      \/ Large # {} /\ CycleRead(c)
  BY DEF GetFiltersStatus, Large, Todo
<1>3. CASE cycle' = [cycle EXCEPT !.at = "failed"]
  <2>1. Waiting' /\ cycle'.at = "failed"
    BY <1>1, <1>3 DEF DInv, Waiting, Stage, Idle
  <2> QED  BY <2>1, OverAgrees
<1>4. CASE Large = {} /\ cycle' = [cycle EXCEPT !.at = "safe"]
  <2>1. cycle'.at = "safe" /\ DOMAIN cycle' = DOMAIN Idle
    BY <1>4 DEF DInv, Waiting, Idle
  <2>2. Waiting'
    BY <1>1, <2>1 DEF DInv, Waiting, Stage
  <2>3. FiltersAgree'
    BY <1>1, <1>4 DEF Calm, FiltersAgree, Large
  <2>4. Filtered' /\ Searched' /\ Renaming'
    BY <1>1, <2>1, <2>3 DEF Filtered, Searched, Renaming
  <2>5. quiet => Built'
    BY <1>1, <2>1, SameRules DEF Calm, DInv, Built
  <2> QED  BY <1>1, <2>2, <2>4, <2>5 DEF DInv, Calm
<1>5. CASE Large # {} /\ cycle' = c
  <2>1. /\ cycle'.at = "filter" /\ cycle'.left = todo /\ cycle'.status = filters
        /\ DOMAIN cycle' = DOMAIN Idle
    BY <1>5 DEF DInv, Waiting, Idle
  <2>2. Waiting'
    BY <1>1, <2>1 DEF DInv, Waiting, Stage
  <2>3. Large' = Large /\ \A x : Todo(x)' = Todo(x) /\ db'.category = db.category
    BY <1>1, SameLists DEF Calm
  <2>4. \A x \in Large : Todo(x) \in todo
    OBVIOUS
  <2>5. todo # {}
    BY <1>5
  <2> HIDE DEF c, todo
  <2>6. Filtered'
    <3>1. cycle'.left # {} /\ cycle'.left \subseteq {Todo(x)' : x \in Large'}
      BY <2>1, <2>3, <2>5 DEF todo
    <3> QED  BY <1>1, <2>1, <2>3, <2>4, <3>1 DEF Filtered
  <2>7. Searched' /\ Renaming'
    BY <1>1, <2>1 DEF Searched, Renaming
  <2>8. quiet => Built'
    BY <1>1, <2>1, SameRules DEF Calm, DInv, Built
  <2> QED  BY <1>1, <2>2, <2>6, <2>7, <2>8 DEF DInv, Calm
<1>6. CASE Large # {} /\ CycleRead(c)
  <2> HIDE DEF c
  <2>1. cycle' = c \/ cycle' = [cycle EXCEPT !.at = "failed"]
    BY <1>6, ReadEnds
  <2> QED  BY <1>3, <1>5, <1>6, <2>1
<1> QED  BY <1>2, <1>4, <1>6

\* The category that the loop is at is one that it has still to do.
LEMMA CurrentIs ==
    ASSUME Orderly, cycle.left # {}, cycle.left \subseteq {Todo(c) : c \in Large}
    PROVE  Current \in cycle.left /\ \E c \in Large : Current = Todo(c)
<1> DEFINE ids == {t.id : t \in cycle.left}
<1>1. \A t \in cycle.left : t.id \in Nat
  BY DEF Todo, Large, Orderly, Tables, CategoryRows
<1>2. ids \subseteq Nat /\ ids # {}
  BY <1>1
<1>3. Least(ids) \in ids /\ \A x \in ids : Least(ids) <= x
  <2> HIDE DEF ids
  <2> QED  BY <1>2, LeastId
<1>4. \E t \in cycle.left : \A u \in cycle.left : t.id <= u.id
  BY <1>3
<1>5. Current \in cycle.left
  BY <1>4 DEF Current
<1> QED  BY <1>5

\* The loop is through with a category that is as it should be, and has not touched another.
LEMMA NextAgrees ==
    ASSUME Orderly, DInv, cycle.at \in {"filter", "disable"},
           Calm, rewrite' = rewrite, text' = text, cycle' = NextFilter,
           quiet => \A c \in Large : Alone(c) =>
              IF Current = Todo(c)
              THEN (filters'[db.category[c].url] = "on") <=> ShouldEnable(c, db.category[c].access.everyone)
              ELSE filters'[db.category[c].url] = filters[db.category[c].url]
    PROVE  DInv'
<1>1. rewrite["controller"].at = "idle"
  BY DEF DInv, Waiting
<1>2. \/ /\ cycle.left = {Current} /\ cycle'.at = "safe" /\ DOMAIN cycle' = DOMAIN Idle
      \/ /\ cycle.left # {Current} /\ cycle'.at = "filter" /\ cycle'.left = cycle.left \ {Current}
         /\ cycle'.status = cycle.status /\ DOMAIN cycle' = DOMAIN Idle
  BY DEF NextFilter, DInv, Waiting, Idle
<1>3. Waiting'
  BY <1>1, <1>2 DEF DInv, Waiting, Stage
<1>4. Searched' /\ Renaming'
  BY <1>1, <1>2 DEF Searched, Renaming
<1>5. quiet => Built'
  BY <1>2, SameRules DEF Calm, DInv, Built
<1>6. ASSUME quiet PROVE Filtered'
  <2>1. /\ cycle.left # {} /\ cycle.left \subseteq {Todo(c) : c \in Large}
        /\ \A c \in Large : Alone(c) =>
              IF Todo(c) \notin cycle.left THEN Right(c)
              ELSE \/ cycle.status[db.category[c].url] = filters[db.category[c].url]
                   \/ cycle.at = "disable" /\ Current = Todo(c)
    BY <1>6 DEF DInv, Filtered
  <2>2. Current \in cycle.left
    BY <2>1, CurrentIs
  <2>3. /\ Large' = Large /\ \A c : Todo(c)' = Todo(c) /\ (Alone(c)' <=> Alone(c))
        /\ \A c, everyone : ShouldEnable(c, everyone)' <=> ShouldEnable(c, everyone)
        /\ db'.category = db.category
    BY SameLists DEF Calm
  \* What was done before stays done.
  <2>4. \A c \in Large : Alone(c) => (Todo(c) \notin cycle.left \ {Current} =>
           (filters'[db.category[c].url] = "on") <=> ShouldEnable(c, db.category[c].access.everyone))
    BY <1>6, <2>1 DEF Right
  <2>5. CASE cycle.left = {Current} /\ cycle'.at = "safe"
    <3>1. \A c \in Large : Alone(c) =>
             ((filters'[db.category[c].url] = "on") <=> ShouldEnable(c, db.category[c].access.everyone))
      BY <2>4, <2>5
    <3>2. \A c \in Large' : Alone(c)' => Right(c)'
      BY <2>3, <3>1 DEF Right
    <3>3. FiltersAgree'
      BY <3>2 DEF FiltersAgree, Large, Alone, Right
    <3> QED  BY <2>5, <3>3 DEF Filtered
  <2>6. CASE /\ cycle.left # {Current} /\ cycle'.at = "filter" /\ cycle'.left = cycle.left \ {Current}
             /\ cycle'.status = cycle.status
    <3>1. cycle'.left # {} /\ cycle'.left \subseteq {Todo(c)' : c \in Large'}
      BY <2>1, <2>2, <2>3, <2>6
    <3>2. \A c \in Large : Alone(c) =>
             IF Todo(c) \notin cycle'.left
             THEN (filters'[db.category[c].url] = "on") <=> ShouldEnable(c, db.category[c].access.everyone)
             ELSE cycle'.status[db.category[c].url] = filters'[db.category[c].url]
      BY <1>6, <2>1, <2>4, <2>6
    <3>3. \A c \in Large' : Alone(c)' =>
             IF Todo(c)' \notin cycle'.left THEN Right(c)'
             ELSE cycle'.status[db'.category[c].url] = filters'[db'.category[c].url]
      BY <2>3, <3>2 DEF Right
    <3> QED  BY <2>6, <3>1, <3>3 DEF Filtered
  <2> QED  BY <1>2, <2>5, <2>6
<1> QED  BY <1>3, <1>4, <1>5, <1>6 DEF DInv, Calm


\* Switching a subscription touches no category that is alone with another.
LEMMA SwitchesOne ==
    ASSUME Switched, NEW d \in Large, Current = Todo(d), NEW to, filters' = [filters EXCEPT ![Current.url] = to],
           NEW c \in Large, Alone(c), Orderly
    PROVE  filters'[db.category[c].url] = IF Current = Todo(c) THEN to ELSE filters[db.category[c].url]
<1>1. db.category[c].url \in DOMAIN filters /\ Current.url = db.category[d].url /\ d \in Nat /\ c \in Nat
  BY DEF Large, Todo, Switched, Orderly, Tables, CategoryRows, CategoryRow
<1>2. CASE c = d
  BY <1>1, <1>2
<1>3. CASE c # d
  <2>1. db.category[d].url # db.category[c].url
    BY <1>3 DEF Alone, Large
  <2>2. Current # Todo(c)
    BY <1>1, <2>1 DEF Todo
  <2> QED  BY <1>1, <2>1, <2>2
<1> QED  BY <1>2, <1>3

LEMMA SyncFilterAgrees == ASSUME Orderly, Switched, DInv, SyncFilter PROVE DInv'
<1> DEFINE should == ShouldEnable(Current.id, Current.everyone)
           right == IF should THEN "on" ELSE "off"
           status == cycle.status[Current.url]
           switched(to) == [filters EXCEPT ![Current.url] = to]
           fail == [cycle EXCEPT !.at = "failed"]
<1>1. /\ Calm /\ rewrite' = rewrite /\ rewrite["controller"].at = "idle" /\ cycle.at = "filter"
      /\ text' = text
  BY DEF Calm, SyncFilter, CycleLocal, householdVars, DInv, Waiting
<1>2. \/ cycle' = fail
      \/ status = "absent" /\ should /\ cycle' = NextFilter /\ filters' = switched("on")
      \/ /\ status = "absent" /\ ~should /\ cycle' = [cycle EXCEPT !.at = "disable"]
         /\ filters' = switched("on")
      \/ status \notin {"absent", right} /\ cycle' = NextFilter /\ filters' = switched(right)
      \/ status = right /\ cycle' = NextFilter /\ filters' = filters
  <2>1. \A x, c : CycleCall(filters, x, filters', c) => (cycle' = c /\ filters' = x) \/ cycle' = fail
    BY DEF CycleCall, Call
  <2>2. /\ status = "absent" =>
              CycleCall(filters, switched("on"), filters',
                        IF should THEN NextFilter ELSE [cycle EXCEPT !.at = "disable"])
        /\ status \notin {"absent", right} => CycleCall(filters, switched(right), filters', NextFilter)
        /\ status # "absent" /\ status = right => cycle' = NextFilter /\ filters' = filters
    BY DEF SyncFilter
  <2> HIDE DEF fail, switched, status, should
  <2> QED  BY <2>1, <2>2
<1>3. CASE cycle' = fail
  <2>1. Waiting' /\ cycle'.at = "failed"
    BY <1>1, <1>3 DEF DInv, Waiting, Stage, Idle
  <2> QED  BY <2>1, OverAgrees
<1>4. quiet => /\ cycle.left # {} /\ cycle.left \subseteq {Todo(c) : c \in Large}
               /\ \A c \in Large : Alone(c) =>
                     IF Todo(c) \notin cycle.left THEN Right(c)
                     ELSE cycle.status[db.category[c].url] = filters[db.category[c].url]
               /\ Current \in cycle.left /\ \E c \in Large : Current = Todo(c)
  BY <1>1, CurrentIs DEF DInv, Filtered
<1>5. \A c : Current = Todo(c) =>
         /\ Current.url = db.category[c].url
         /\ should <=> ShouldEnable(c, db.category[c].access.everyone)
  BY DEF Todo
<1>6. ASSUME quiet, NEW to, filters' = switched(to), NEW c \in Large, Alone(c)
      PROVE  filters'[db.category[c].url] = IF Current = Todo(c) THEN to ELSE filters[db.category[c].url]
  BY <1>4, <1>6, SwitchesOne
<1> HIDE DEF should, switched, fail
<1>7. ASSUME cycle' = NextFilter, filters' = switched(right) PROVE DInv'
  <2>1. right = "on" <=> should
    OBVIOUS
  <2> HIDE DEF right
  <2> QED  BY <1>1, <1>5, <1>6, <1>7, <2>1, NextAgrees
<1>8. ASSUME cycle' = NextFilter, filters' = filters, status = right PROVE DInv'
  <2>1. right = "on" <=> should
    OBVIOUS
  <2> HIDE DEF right
  <2>2. quiet => \A c \in Large : Alone(c) => (Current = Todo(c) =>
           ((filters'[db.category[c].url] = "on") <=> ShouldEnable(c, db.category[c].access.everyone)))
    BY <1>4, <1>5, <1>8, <2>1
  <2> QED  BY <1>1, <1>8, <2>2, NextAgrees
<1>9. ASSUME cycle' = [cycle EXCEPT !.at = "disable"], filters' = switched("on"), ~should PROVE DInv'
  <2>1. /\ cycle'.at = "disable" /\ cycle'.left = cycle.left /\ cycle'.status = cycle.status
        /\ DOMAIN cycle' = DOMAIN Idle
    BY <1>9 DEF DInv, Waiting, Idle
  <2>2. Waiting'
    BY <1>1, <2>1 DEF DInv, Waiting, Stage
  <2>3. Searched' /\ Renaming'
    BY <1>1, <2>1 DEF Searched, Renaming
  <2>4. quiet => Built'
    BY <1>1, <2>1, SameRules DEF Calm, DInv, Built
  <2>5. /\ Large' = Large /\ \A c : Todo(c)' = Todo(c) /\ (Alone(c)' <=> Alone(c))
        /\ \A c, everyone : ShouldEnable(c, everyone)' <=> ShouldEnable(c, everyone)
        /\ db'.category = db.category
    BY <1>1, SameLists DEF Calm
  <2>6. Current' = Current
    BY <2>1 DEF Current
  <2>7. ASSUME quiet PROVE Filtered'
    <3>1. cycle'.left # {} /\ cycle'.left \subseteq {Todo(c)' : c \in Large'}
      BY <1>4, <2>1, <2>5, <2>7
    <3>2. \A c \in Large : Alone(c) =>
             IF Todo(c) \notin cycle'.left
             THEN (filters'[db.category[c].url] = "on") <=> ShouldEnable(c, db.category[c].access.everyone)
             ELSE \/ cycle'.status[db.category[c].url] = filters'[db.category[c].url]
                  \/ Current = Todo(c)
      <4> SUFFICES ASSUME NEW c \in Large, Alone(c)
                   PROVE  IF Todo(c) \notin cycle'.left
                          THEN (filters'[db.category[c].url] = "on") <=> ShouldEnable(c, db.category[c].access.everyone)
                          ELSE \/ cycle'.status[db.category[c].url] = filters'[db.category[c].url]
                               \/ Current = Todo(c)
        OBVIOUS
      <4>1. CASE Current = Todo(c)
        BY <1>4, <2>1, <2>7, <4>1
      <4>2. CASE Current # Todo(c)
        <5>1. filters'[db.category[c].url] = filters[db.category[c].url]
          BY <1>6, <1>9, <2>7, <4>2
        <5> QED  BY <1>4, <2>1, <2>7, <4>2, <5>1 DEF Right
      <4> QED  BY <4>1, <4>2
    <3>3. \A c \in Large' : Alone(c)' =>
             IF Todo(c)' \notin cycle'.left THEN Right(c)'
             ELSE \/ cycle'.status[db'.category[c].url] = filters'[db'.category[c].url]
                  \/ Current' = Todo(c)'
      BY <2>5, <2>6, <3>2 DEF Right
    <3>4. ~ShouldEnable(Current.id, Current.everyone)'
      BY <1>9, <2>5, <2>6 DEF should
    <3> QED  BY <2>1, <3>1, <3>3, <3>4 DEF Filtered
  <2> QED  BY <1>1, <2>2, <2>3, <2>4, <2>7 DEF DInv, Calm
<1>10. should => right = "on"
  OBVIOUS
<1> QED  BY <1>2, <1>3, <1>7, <1>8, <1>9, <1>10

LEMMA DisableAgrees == ASSUME Orderly, Switched, DInv, DisableFilter PROVE DInv'
<1> DEFINE off == [filters EXCEPT ![Current.url] = "off"]
<1>1. Calm /\ rewrite' = rewrite /\ rewrite["controller"].at = "idle" /\ cycle.at = "disable" /\ text' = text
  BY DEF Calm, DisableFilter, CycleLocal, householdVars, DInv, Waiting
<1>2. cycle' = [cycle EXCEPT !.at = "failed"] \/ (cycle' = NextFilter /\ filters' = off)
  <2> HIDE DEF off
  <2> QED  BY DEF DisableFilter, CycleCall, Call, off
<1>3. CASE cycle' = [cycle EXCEPT !.at = "failed"]
  <2>1. Waiting' /\ cycle'.at = "failed"
    BY <1>1, <1>3 DEF DInv, Waiting, Stage, Idle
  <2> QED  BY <2>1, OverAgrees
<1>4. CASE cycle' = NextFilter /\ filters' = off
  <2>1. ASSUME quiet, NEW c \in Large, Alone(c)
        PROVE  IF Current = Todo(c)
               THEN (filters'[db.category[c].url] = "on") <=> ShouldEnable(c, db.category[c].access.everyone)
               ELSE filters'[db.category[c].url] = filters[db.category[c].url]
    <3>1. \E d \in Large : Current = Todo(d)
      BY <1>1, <2>1, CurrentIs DEF DInv, Filtered
    <3>2. filters'[db.category[c].url] = IF Current = Todo(c) THEN "off" ELSE filters[db.category[c].url]
      BY <1>4, <2>1, <3>1, SwitchesOne
    <3>3. Current = Todo(c) => ~ShouldEnable(c, db.category[c].access.everyone)
      BY <1>1, <2>1 DEF DInv, Filtered, Todo
    <3> QED  BY <3>2, <3>3
  <2> QED  BY <1>1, <1>4, <2>1, NextAgrees
<1> QED  BY <1>2, <1>3, <1>4

-----------------------------------------------------------------------------
(* Safe search and the rewrite.                                            *)

LEMMA SearchAgrees == ASSUME DInv, GetSafesearchStatus \/ SetSafesearchSettings PROVE DInv'
<1>1. /\ Calm /\ rewrite' = rewrite /\ rewrite["controller"].at = "idle" /\ text' = text
      /\ filters' = filters /\ cycle.at \in {"safe", "safe set"}
  <2>1. CASE GetSafesearchStatus
    BY <2>1 DEF Calm, GetSafesearchStatus, CycleLocal, householdVars, adguardVars, DInv, Waiting
  <2>2. CASE SetSafesearchSettings
    BY <2>2 DEF Calm, SetSafesearchSettings, CycleLocal, householdVars, DInv, Waiting
  <2> QED  BY <2>1, <2>2
<1>2. \/ cycle' = [cycle EXCEPT !.at = "failed"]
      \/ cycle' = [cycle EXCEPT !.at = "rewrite"] /\ safe' = settings.safe
      \/ cycle' = [cycle EXCEPT !.at = "safe set", !.read = settings.safe]
      \/ /\ cycle' = [cycle EXCEPT !.at = "rewrite", !.read = None] /\ safe' = cycle.read
         /\ cycle.at = "safe set"
  <2>1. CASE GetSafesearchStatus
    BY <2>1 DEF GetSafesearchStatus, CycleRead, adguardVars
  <2>2. CASE SetSafesearchSettings
    BY <2>2 DEF SetSafesearchSettings, CycleCall, Call
  <2> QED  BY <2>1, <2>2
<1>3. CASE cycle' = [cycle EXCEPT !.at = "failed"]
  <2>1. Waiting' /\ cycle'.at = "failed"
    BY <1>1, <1>3 DEF DInv, Waiting, Stage, Idle
  <2> QED  BY <2>1, OverAgrees
<1>4. ASSUME cycle' # [cycle EXCEPT !.at = "failed"] PROVE DInv'
  <2>1. /\ DOMAIN cycle' = DOMAIN Idle
        /\ \/ cycle'.at = "rewrite" /\ safe' = settings.safe
           \/ cycle'.at = "safe set" /\ cycle'.read = settings.safe
           \/ cycle'.at = "rewrite" /\ safe' = cycle.read /\ cycle.at = "safe set"
    BY <1>2, <1>4 DEF DInv, Waiting, Idle
  <2>2. Waiting'
    BY <1>1, <2>1 DEF DInv, Waiting, Stage
  <2>3. quiet => Searched'
    BY <1>1, <2>1 DEF Calm, DInv, Searched
  <2>4. quiet => Built'
    BY <1>1, <2>1, SameRules DEF Calm, DInv, Built
  <2>5. quiet => Filtered'
    <3>1. quiet => FiltersAgree'
      BY <1>1 DEF Calm, DInv, Filtered, FiltersAgree, ShouldEnable
    <3> QED  BY <2>1, <3>1 DEF Filtered
  <2>6. Renaming'
    BY <1>1, <2>1 DEF Renaming
  <2> QED  BY <1>1, <2>2, <2>3, <2>4, <2>5, <2>6 DEF DInv, Calm
<1> QED  BY <1>2, <1>3, <1>4


\* A rewrite under way, or done, leaves what the cycle did before it.
RewriteGoesOn ==
    /\ Calm /\ text' = text /\ filters' = filters /\ safe' = safe
    /\ cycle.at = "rewrite" /\ cycle'.at \in {"rewrite", "done"}

LEMMA RewriteLeaves ==
    ASSUME DInv, quiet, RewriteGoesOn PROVE Built' /\ Filtered' /\ Searched'
<1>1. Built'
  BY SameRules DEF RewriteGoesOn, Calm, DInv, Built
<1>2. FiltersAgree'
  BY DEF RewriteGoesOn, Calm, DInv, Filtered, FiltersAgree, ShouldEnable
<1>3. Filtered' /\ Searched'
  BY <1>2 DEF RewriteGoesOn, Calm, DInv, Filtered, Searched
<1> QED  BY <1>1, <1>3

LEMMA StartAgrees == ASSUME DInv, StartRewrite PROVE DInv'
<1>1. Calm /\ text' = text /\ filters' = filters /\ safe' = safe /\ rewrites' = rewrites /\ cycle.at = "rewrite"
  BY DEF Calm, StartRewrite, RewriteLocal, householdVars
<1>2. CASE BlockPage = None
  <2>1. /\ cycle' = [cycle EXCEPT !.at = "done"]
        /\ rewrite' = [rewrite EXCEPT !["controller"] = Resting]
    BY <1>2 DEF StartRewrite, RewriteEnds
  <2>2. /\ cycle'.at = "done" /\ DOMAIN cycle' = DOMAIN Idle
        /\ DOMAIN rewrite' = Actor /\ rewrite'["controller"].at = "idle"
        /\ \A x \in Actor : DOMAIN rewrite'[x] = DOMAIN Resting
    BY <2>1 DEF DInv, Waiting, Idle, Resting, Actor
  <2>3. Waiting'
    BY <2>2 DEF Waiting, Stage
  <2>4. Renaming'
    BY <1>2, <2>2 DEF Renaming, RewritesAgree
  <2> QED  BY <1>1, <2>2, <2>3, <2>4, RewriteLeaves DEF RewriteGoesOn, Calm, DInv
<1>3. CASE BlockPage # None
  <2>1. /\ cycle' = cycle
        /\ rewrite' = [rewrite EXCEPT !["controller"].at = "list", !["controller"].name = settings.name]
    BY <1>3 DEF StartRewrite
  <2>2. /\ rewrite'["controller"].at = "list" /\ rewrite'["controller"].name = settings.name
        /\ DOMAIN rewrite' = Actor /\ \A x \in Actor : DOMAIN rewrite'[x] = DOMAIN Resting
    BY <2>1 DEF DInv, Waiting, Resting, Actor
  <2>3. Waiting'
    BY <1>1, <1>3, <2>1, <2>2 DEF DInv, Waiting
  <2>4. Renaming'
    BY <1>1, <2>1, <2>2 DEF Calm, Renaming
  <2> QED  BY <1>1, <2>1, <2>3, <2>4, RewriteLeaves DEF RewriteGoesOn, Calm, DInv
<1> QED  BY <1>2, <1>3

\* The end of the controller's synchronisation.
LEMMA EndAgrees ==
    ASSUME DInv, rewrite["controller"].at # "idle", NEW ok \in BOOLEAN, RewriteEnds("controller", ok),
           Calm, text' = text, filters' = filters, safe' = safe,
           (quiet /\ ok) => rewrites' = {[domain |-> settings.name, answer |-> BlockPage]}
    PROVE  DInv'
<1>1. /\ cycle.at = "rewrite" /\ rewrite' = [rewrite EXCEPT !["controller"] = Resting]
      /\ cycle' = [cycle EXCEPT !.at = IF ok THEN "done" ELSE "failed"]
  BY DEF RewriteEnds, DInv, Waiting
<1>2. /\ cycle'.at = (IF ok THEN "done" ELSE "failed") /\ DOMAIN cycle' = DOMAIN Idle
      /\ DOMAIN rewrite' = Actor /\ rewrite'["controller"].at = "idle"
      /\ \A x \in Actor : DOMAIN rewrite'[x] = DOMAIN Resting
  BY <1>1 DEF DInv, Waiting, Idle, Resting, Actor
<1>3. Waiting'
  BY <1>2 DEF Waiting, Stage
<1>4. CASE ok
  <2>1. quiet => Renaming'
    BY <1>2, <1>4 DEF Calm, Renaming, RewritesAgree
  <2> QED  BY <1>1, <1>2, <1>3, <1>4, <2>1, RewriteLeaves DEF RewriteGoesOn, Calm, DInv
<1>5. CASE ~ok
  BY <1>2, <1>3, <1>5, OverAgrees
<1> QED  BY <1>4, <1>5

LEMMA RewriteAgrees == ASSUME DInv, RewriteStep("controller") PROVE DInv'
<1> DEFINE r == rewrite["controller"]
           right == [domain |-> settings.name, answer |-> BlockPage]
<1>1. /\ Calm /\ text' = text /\ filters' = filters /\ safe' = safe
      /\ r.at \in {"list", "change"} /\ r.at # "idle"
  BY DEF Calm, RewriteStep, GetRewrites, DeleteRewrite, AddRewrite, RewriteUnchanged, RewriteLocal,
         householdVars, Disturbs
<1>2. cycle.at = "rewrite" /\ BlockPage # None /\ DOMAIN r = DOMAIN Resting
  BY <1>1 DEF DInv, Waiting, Actor
<1>3. quiet => /\ r.name = settings.name
               /\ r.at = "change" => r.stale = rewrites \ {right} /\ (r.add <=> right \notin rewrites)
  BY <1>1 DEF DInv, Renaming
<1>4. CASE GetRewrites("controller")
  <2>1. PICK ok \in BOOLEAN :
           \/ /\ ok /\ cycle' = cycle /\ rewrites' = rewrites
              /\ rewrite' = [rewrite EXCEPT !["controller"] =
                    [@ EXCEPT !.at = "change",
                              !.stale = rewrites \ {[domain |-> r.name, answer |-> BlockPage]},
                              !.add = [domain |-> r.name, answer |-> BlockPage] \notin rewrites]]
           \/ ~ok /\ RewriteEnds("controller", FALSE)
    BY <1>4 DEF GetRewrites
  <2>2. CASE ~ok
    <3>1. RewriteEnds("controller", FALSE)
      BY <2>1, <2>2
    <3> QED  BY <1>1, <3>1, EndAgrees
  <2>3. CASE ok
    <3> DEFINE wanted == [domain |-> r.name, answer |-> BlockPage]
    <3>1. /\ cycle' = cycle /\ rewrites' = rewrites
          /\ rewrite' = [rewrite EXCEPT !["controller"] =
                [r EXCEPT !.at = "change", !.stale = rewrites \ {wanted}, !.add = wanted \notin rewrites]]
      BY <2>1, <2>3
    <3> HIDE DEF wanted
    <3>2. /\ rewrite'["controller"].at = "change" /\ rewrite'["controller"].name = r.name
          /\ rewrite'["controller"].stale = rewrites \ {wanted}
          /\ rewrite'["controller"].add = (wanted \notin rewrites)
          /\ DOMAIN rewrite' = Actor /\ \A x \in Actor : DOMAIN rewrite'[x] = DOMAIN Resting
      BY <1>2, <3>1 DEF DInv, Waiting, Resting, Actor
    <3>3. Waiting'
      BY <1>1, <1>2, <3>1, <3>2 DEF DInv, Waiting
    <3>4. quiet => Renaming'
      BY <1>1, <1>2, <1>3, <3>1, <3>2 DEF Calm, Renaming, wanted
    <3> QED  BY <1>1, <1>2, <3>1, <3>3, <3>4, RewriteLeaves DEF RewriteGoesOn, Calm, DInv
  <2> QED  BY <2>2, <2>3
<1>5. CASE DeleteRewrite("controller")
  <2>1. PICK ok \in BOOLEAN, entry \in r.stale :
           \/ /\ ok /\ cycle' = cycle /\ rewrites' = rewrites \ {entry}
              /\ rewrite' = [rewrite EXCEPT !["controller"].stale = @ \ {entry}]
           \/ ~ok /\ RewriteEnds("controller", FALSE)
    BY <1>5 DEF DeleteRewrite, Call
  <2>2. CASE ~ok
    <3>1. RewriteEnds("controller", FALSE)
      BY <2>1, <2>2
    <3> QED  BY <1>1, <3>1, EndAgrees
  <2>3. CASE ok
    <3>1. /\ cycle' = cycle /\ rewrites' = rewrites \ {entry}
          /\ rewrite' = [rewrite EXCEPT !["controller"].stale = @ \ {entry}]
      BY <2>1, <2>3
    <3>2. /\ rewrite'["controller"].at = "change" /\ rewrite'["controller"].name = r.name
          /\ rewrite'["controller"].stale = r.stale \ {entry}
          /\ rewrite'["controller"].add = r.add
          /\ DOMAIN rewrite' = Actor /\ \A x \in Actor : DOMAIN rewrite'[x] = DOMAIN Resting
          /\ r.at = "change"
      BY <1>2, <1>5, <3>1 DEF DeleteRewrite, DInv, Waiting, Resting, Actor
    <3>3. Waiting'
      BY <1>1, <1>2, <3>1, <3>2 DEF DInv, Waiting
    <3>4. quiet => Renaming'
      BY <1>1, <1>2, <1>3, <3>1, <3>2 DEF Calm, Renaming
    <3> QED  BY <1>1, <1>2, <3>1, <3>3, <3>4, RewriteLeaves DEF RewriteGoesOn, Calm, DInv
  <2> QED  BY <2>2, <2>3
<1>6. CASE AddRewrite("controller")
  <2>1. PICK ok \in BOOLEAN :
           /\ RewriteEnds("controller", ok)
           /\ ok => rewrites' = rewrites \union {[domain |-> r.name, answer |-> BlockPage]}
    BY <1>6 DEF AddRewrite, Call
  <2>2. r.at = "change" /\ r.stale = {}
    BY <1>6 DEF AddRewrite
  <2>3. (quiet /\ ok) => rewrites' = {right}
    BY <1>3, <2>1, <2>2
  <2> QED  BY <1>1, <2>1, <2>3, EndAgrees
<1>7. CASE RewriteUnchanged("controller")
  <2>1. /\ r.at = "change" /\ r.stale = {} /\ ~r.add /\ RewriteEnds("controller", TRUE)
        /\ rewrites' = rewrites
    BY <1>7 DEF RewriteUnchanged
  <2>2. quiet => rewrites' = {right}
    BY <1>3, <2>1
  <2> QED  BY <1>1, <2>1, <2>2, EndAgrees
<1> QED  BY <1>4, <1>5, <1>6, <1>7 DEF RewriteStep

-----------------------------------------------------------------------------
(* Everybody else.                                                         *)

\* Whoever writes ends the quiet.
LEMMA OthersDisturb ==
    ASSUME DInv,
           \/ RewriteStep("dashboard") \/ UpdateFilteringSettings \/ SyncOptigateRewriteNow \/ UpdateAdmin
           \/ RestartAdguard \/ RestartController \/ AdminSaves \/ Household
    PROVE  DInv'
<1>1. CASE RewriteStep("dashboard")
  <2>1. ~quiet'
    BY <1>1 DEF RewriteStep, GetRewrites, DeleteRewrite, AddRewrite, RewriteUnchanged, Disturbs
  <2>2. /\ cycle' = cycle
        /\ \E to : DOMAIN to = DOMAIN Resting /\ rewrite' = [rewrite EXCEPT !["dashboard"] = to]
    <3>1. /\ cycle' = cycle
          /\ \/ rewrite' = [rewrite EXCEPT !["dashboard"] = Resting]
             \/ \E S, add : rewrite' = [rewrite EXCEPT !["dashboard"] =
                                          [@ EXCEPT !.at = "change", !.stale = S, !.add = add]]
             \/ \E S : rewrite' = [rewrite EXCEPT !["dashboard"].stale = S]
      BY <1>1 DEF RewriteStep, GetRewrites, DeleteRewrite, AddRewrite, RewriteUnchanged, RewriteEnds
    <3> QED  BY <3>1 DEF DInv, Waiting, Actor
  <2>3. Waiting'
    BY <2>2 DEF DInv, Waiting, Actor
  <2> QED  BY <2>1, <2>3 DEF DInv
<1>2. CASE UpdateFilteringSettings \/ UpdateAdmin \/ RestartAdguard \/ AdminSaves \/ Household
  <2>1. ~quiet' /\ cycle' = cycle /\ rewrite' = rewrite
    BY <1>2 DEF UpdateFilteringSettings, UpdateAdmin, RestartAdguard, AdminSaves, Household, Others
  <2> QED  BY <2>1 DEF DInv, Waiting
<1>3. CASE SyncOptigateRewriteNow
  <2>1. ~quiet' /\ cycle' = cycle /\
        \E name : rewrite' = [rewrite EXCEPT !["dashboard"].at = "list", !["dashboard"].name = name]
    BY <1>3 DEF SyncOptigateRewriteNow, Others
  <2>2. /\ DOMAIN rewrite' = Actor /\ \A x \in Actor : DOMAIN rewrite'[x] = DOMAIN Resting
        /\ rewrite'["controller"] = rewrite["controller"]
    BY <2>1 DEF DInv, Waiting, Actor
  <2> QED  BY <2>1, <2>2 DEF DInv, Waiting
<1>4. CASE RestartController
  <2>1. ~quiet' /\ cycle' = Idle /\ rewrite' = [rewrite EXCEPT !["controller"] = Resting]
    BY <1>4 DEF RestartController
  <2>2. /\ DOMAIN rewrite' = Actor /\ \A x \in Actor : DOMAIN rewrite'[x] = DOMAIN Resting
        /\ rewrite'["controller"].at = "idle"
    BY <2>1 DEF DInv, Waiting, Actor, Resting
  <2>3. Waiting'
    BY <2>1, <2>2 DEF Waiting, Idle
  <2> QED  BY <2>1, <2>3 DEF DInv
<1> QED  BY <1>1, <1>2, <1>3, <1>4

LEMMA EndOfCycleAgrees == ASSUME DInv, OnError \/ OnSuccess PROVE DInv'
<1>1. cycle' = Idle /\ rewrite' = rewrite /\ rewrite["controller"].at = "idle"
  BY DEF OnError, OnSuccess, ReportLocal, DInv, Waiting
<1>2. Waiting' /\ cycle'.at = "idle"
  BY <1>1 DEF DInv, Waiting, Idle
<1> QED  BY <1>2, OverAgrees

\* Opening AdGuard's page changes nothing.
LEMMA PageAgrees ==
    ASSUME DInv, db' = db, now' = now, settings' = settings, text' = text, filters' = filters, safe' = safe,
           rewrites' = rewrites, cycle' = cycle, rewrite' = rewrite, quiet' = quiet
    PROVE  DInv'
<1>1. Waiting'
  BY DEF DInv, Waiting
<1>2. Built <=> Built'
  BY SameRules DEF Built
<1>3. Filtered <=> Filtered'
  <2>1. FiltersAgree' <=> FiltersAgree
    BY DEF FiltersAgree, ShouldEnable
  <2>2. /\ Large' = Large /\ \A c : Todo(c)' = Todo(c) /\ (Alone(c)' <=> Alone(c)) /\ (Right(c)' <=> Right(c))
        /\ ShouldEnable(Current.id, Current.everyone)' <=> ShouldEnable(Current.id, Current.everyone)
        /\ Current' = Current
    BY DEF Large, Todo, Alone, Right, ShouldEnable, Current
  <2> QED  BY <2>1, <2>2 DEF Filtered
<1>4. Searched <=> Searched'
  BY DEF Searched
<1>5. Renaming <=> Renaming'
  BY DEF Renaming, RewritesAgree
<1> QED  BY <1>1, <1>2, <1>3, <1>4, <1>5 DEF DInv

LEMMA StepAgrees == ASSUME Orderly, Switched, DInv, [Next]_ruleVars PROVE DInv'
<1>1. CASE UNCHANGED ruleVars \/ AdminOpensPage
  BY <1>1, PageAgrees DEF ruleVars, adguardVars, householdVars, AdminOpensPage, Others
<1>2. CASE Cycle
  BY <1>2, FetchAgrees, BuildAgrees, GetAgrees, SetAgrees, GetFiltersAgrees, SyncFilterAgrees,
     DisableAgrees, SearchAgrees, StartAgrees, EndOfCycleAgrees DEF Cycle
<1>3. CASE \E x \in Actor : RewriteStep(x)
  BY <1>3, RewriteAgrees, OthersDisturb DEF Actor
<1>4. CASE \/ UpdateFilteringSettings \/ SyncOptigateRewriteNow \/ UpdateAdmin \/ RestartAdguard
           \/ RestartController \/ AdminSaves \/ Household
  BY <1>4, OthersDisturb
<1> QED  BY <1>1, <1>2, <1>3, <1>4 DEF Next

LEMMA InitAgrees == Init => DInv
<1> SUFFICES ASSUME Init PROVE DInv
  OBVIOUS
<1>1. cycle = Idle /\ rewrite = [x \in Actor |-> Resting] /\ ~quiet
  BY DEF Init
<1>2. Waiting
  BY <1>1 DEF Waiting, Idle, Resting, Actor
<1> QED  BY <1>1, <1>2 DEF DInv

LEMMA QuietAgrees == ASSUME Orderly, DInv PROVE DnsAgreesWithDb
<1> SUFFICES ASSUME cycle.at = "done", quiet, text.stray = {} PROVE InAgreement
  BY DEF DnsAgreesWithDb
<1>1. Built /\ Filtered /\ Searched /\ Renaming
  BY DEF DInv
<1>2. RulesAgree
  BY <1>1, BlockAgrees DEF Built
<1>3. FiltersAgree /\ safe = settings.safe /\ RewritesAgree
  BY <1>1 DEF Filtered, Searched, Renaming
<1> QED  BY <1>2, <1>3 DEF InAgreement

\* A cycle that nobody disturbed ends with AdGuard as the tables call for, whatever the
\* tables, the audiences, the lists and AdGuard's state when it began: the merged block blocks
\* and strips what the rows mean for each device, and lists, safe search and the rewrite are
\* set (sync_once, _merge_duplicate_domain_rules); no rule of a block without its begin marker
\* being left.
THEOREM QuietCyclesAgree == Spec => []DnsAgreesWithDb
<1>1. TInv /\ DInv /\ [Next]_ruleVars => DInv'
  BY StepAgrees DEF TInv
<1>2. TInv /\ DInv => DnsAgreesWithDb
  BY QuietAgrees DEF TInv
<1> QED  BY <1>1, <1>2, InitTyped, NextTyped, InitAgrees, PTL DEF Spec
=============================================================================
