------------------------------ MODULE RuleSync ------------------------------
(***************************************************************************)
(* The controller's periodic synchronisation of the household's tables     *)
(* into AdGuard Home (controller/adguard_sync.py), the dashboard's own     *)
(* synchronisation of the optigate.home rewrite, the administrator's edits *)
(* of AdGuard's rules in AdGuard's own page, the login that all of them    *)
(* share, and the event rows of the loop.                                  *)
(*                                                                         *)
(* Every call to AdGuard may be lost, or be applied and its answer lost.   *)
(* A custom rule is [allow, body, clients, suffix]; body is the pattern,   *)
(* clients the addresses it is for, None for all.  AdGuard's list of rules *)
(* is the rules before the managed block, the block, whether its end       *)
(* marker is there, and the rules after it.  An empty block is not         *)
(* written, so an empty one stands for no begin marker; the rules of a     *)
(* block that lost its begin marker are stray, before any later block.     *)
(***************************************************************************)
EXTENDS Household

CONSTANTS
    Canary,      \* the patterns of the anti-DoH rules
    BlockPage,   \* the address of the block page
    Foreign,     \* rules the administrator writes
    Name,        \* names under .home
    MaxMishaps   \* the bound of failed calls, restarts and other users' steps; an edit is two

ASSUME NoneAssumption ==
    None \notin {"error", "recovery", "https"} /\ \A S \in SUBSET Client : None # S
ASSUME BlockPageAssumption == BlockPage # "https"

VARIABLES
    text,      \* AdGuard's custom rules
    filters,   \* filters[u]: AdGuard's subscription to the list at URL u
    safe,      \* AdGuard's safe search
    rewrites,  \* AdGuard's .home rewrites, [domain, answer]
    settings,  \* the dashboard's settings of safe search and of the name
    login,     \* the password: in the settings, in AdGuard's file, in AdGuard, in the controller
    cycle,     \* the controller's cycle
    rewrite,   \* rewrite[x]: the progress of x's rewrite synchronisation
    page,      \* the rules as AdGuard's page shows them, or None when it is not open
    failing,   \* the callbacks' state
    event,     \* the last event row of the loop
    \* History:
    owed,      \* the administrator's rules saved outside a read and write of the loop
    quiet,     \* nobody has written anything since the cycle began
    mishaps,   \* their number so far
    unsaid     \* an event row was lost, or a restart ended a streak of failures

adguardVars == <<text, filters, safe, rewrites>>
ruleVars == <<householdVars, adguardVars, settings, login, cycle, rewrite, page, failing, event,
              mishaps, owed, quiet, unsaid>>

Mishap == mishaps + 2 * edits < MaxMishaps /\ mishaps' = mishaps + 1

Address == DOMAIN db.device
Actor == {"controller", "dashboard"}

Rule(allow, body, clients, suffix) ==
    [allow |-> allow, body |-> body, clients |-> clients, suffix |-> suffix]

\* A binding without a device is classified, and authorised, as a device of nobody.
Unknown == [id |-> None, user |-> None, group |-> None,
            ignored |-> FALSE, quarantined |-> FALSE, vouched |-> FALSE, bump |-> FALSE]

DeviceAt(a) == IF db.device[a] = None THEN Unknown ELSE db.device[a]

\* _fetch_eligible_devices.
Eligible == [a \in {x \in Address : ~Bypassed(DeviceAt(x))} |-> DeviceAt(a)]

\* Clients are left out of a rule that is for every eligible device.
ScopeOf(clients, eligible) == IF clients = DOMAIN eligible THEN None ELSE clients

Rows(table) == {table[i] : i \in {j \in DOMAIN table : table[j] # None}}

-----------------------------------------------------------------------------
(* The rules.                                                              *)

\* _build_domain_deny_rules, for build_rules and build_splice_deny_rules.
DomainDenyRules(mode, bumpOnly, eligible) ==
    LET denied(row) == {a \in DOMAIN eligible :
                          ~(Reason(eligible[a], row) # None /\ (bumpOnly => BumpEligible(eligible[a])))}
    IN  {Rule(FALSE, row.pattern, denied(row), BlockPage) :
            row \in {r \in Rows(db.domain) : r.mode = mode /\ denied(r) # {}}}

\* The devices a category is blocked for now: by its own audience, or by a schedule of
\* theirs that is active.
BlockedFor(c, dev, t) ==
    \/ CategoryAppliesToDevice(dev, db.category[c])
    \/ \E s \in DOMAIN db.schedule :
          /\ db.schedule[s] # None /\ c \in db.schedule[s].blocks /\ ~db.schedule[s].lockout
          /\ ScheduleIsActiveForDevice(db.schedule, s, db.override, t, dev)
          /\ ScheduleAppliesToDevice(dev, db.schedule[s])

\* build_category_deny_rules.
CategoryDenyRules(eligible) ==
    LET clients(c) == {a \in DOMAIN eligible : BlockedFor(c, eligible[a], now)}
        ruled == {c \in DOMAIN db.category :
                    /\ db.category[c] # None /\ ~OverThreshold(db.category[c])
                    /\ clients(c) # {}}
    IN  UNION {{Rule(FALSE, p, ScopeOf(clients(c), eligible), BlockPage) :
                  p \in BlockedPatterns(db.category[c])} : c \in ruled}

AntiDohRules == {Rule(FALSE, p, None, None) : p \in Canary}

\* build_ech_strip_rules.
EchStripRules(eligible) ==
    LET allowed(row) == {a \in DOMAIN eligible :
                           BumpEligible(eligible[a]) /\ Reason(eligible[a], row) # None}
    IN  {Rule(FALSE, row.pattern, allowed(row), "https") :
            row \in {r \in Rows(db.domain) : r.mode = "bump" /\ allowed(r) # {}}}

\* build_adguard_allow_rules.
AllowRules(eligible) ==
    LET clients(p) == {a \in DOMAIN eligible : Reason(eligible[a], db.allow[p]) # None}
    IN  {Rule(TRUE, p, ScopeOf(clients(p), eligible), None) :
            p \in {q \in Pattern : db.allow[q] # None /\ clients(q) # {}}}

SameKey(r, q) == r.allow = q.allow /\ r.body = q.body /\ r.suffix = q.suffix

\* Mutant: rules of one body and one action stay apart.
MergeNot(rules) == rules

\* _merge_duplicate_domain_rules: one rule for each body and action, for all its clients.
Merge(rules) ==
    LET clients(r) == {q.clients : q \in {x \in rules : SameKey(x, r)}}
    IN  {[r EXCEPT !.clients = IF None \in clients(r) THEN None ELSE UNION clients(r)] : r \in rules}

\* Mutant: the rules after the block go with it.
StripManagedBlockToEnd(rules) == rules.before

\* _strip_managed_block: what is left of the rules without the block; without an end
\* marker the block reaches to the end.  Stray rules are kept as well.
StripManagedBlock(rules) ==
    rules.before \union (IF rules.block = {} \/ rules.closed THEN rules.after ELSE {})

-----------------------------------------------------------------------------
(* Calls.                                                                  *)

LogsIn(x) == login.adguard = (IF x = "controller" THEN login.controller ELSE login.db)

\* A call of x: it succeeds; or it fails before or after AdGuard applied it; or AdGuard
\* refuses the login.
Call(x, applied, ok) ==
    \/ LogsIn(x) /\ applied /\ ok /\ mishaps' = mishaps
    \/ ~ok /\ (applied => LogsIn(x)) /\ Mishap
    \/ ~LogsIn(x) /\ ~applied /\ ~ok /\ mishaps' = mishaps

\* A call of the cycle that makes AdGuard's y out of x, and the cycle c out of this one.
CycleCall(x, y, x_, c) ==
    \E applied, ok \in BOOLEAN :
        /\ Call("controller", applied, ok)
        /\ x_ = (IF applied THEN y ELSE x)
        /\ cycle' = IF ok THEN c ELSE [cycle EXCEPT !.at = "failed"]

CycleRead(c) ==
    \E ok \in BOOLEAN :
        /\ Call("controller", ok, ok)
        /\ cycle' = IF ok THEN c ELSE [cycle EXCEPT !.at = "failed"]

-----------------------------------------------------------------------------
(* One cycle: sync_once, in the order of its reads and calls.              *)

Idle == [at |-> "idle", eligible |-> <<>>, rules |-> {}, read |-> None, left |-> {}, status |-> None]

CycleLocal == <<householdVars, settings, login, page, failing, event, owed, unsaid>>

\* The tick of the PeriodicTask.
FetchEligible ==
    /\ cycle.at = "idle"
    /\ cycle' = [cycle EXCEPT !.at = "bump", !.eligible = Eligible]
    /\ quiet' = TRUE
    /\ UNCHANGED <<CycleLocal, mishaps, adguardVars, rewrite>>

\* The reads of one builder; the dashboard may write before the next.
Build(at, next, rules) ==
    /\ cycle.at = at
    /\ cycle' = [cycle EXCEPT !.at = next, !.rules = @ \union rules]
    /\ UNCHANGED <<CycleLocal, quiet, mishaps, adguardVars, rewrite>>

BuildRules ==
    \/ Build("bump", "splice", DomainDenyRules("bump", TRUE, cycle.eligible))
    \/ Build("splice", "category", DomainDenyRules("splice", FALSE, cycle.eligible))
    \/ Build("category", "ech", CategoryDenyRules(cycle.eligible) \union AntiDohRules)
    \/ Build("ech", "allow", EchStripRules(cycle.eligible))
    \/ Build("allow", "read", AllowRules(cycle.eligible))

GetCustomRules ==
    /\ cycle.at = "read"
    /\ CycleRead([cycle EXCEPT !.at = "write", !.read = text,
                               !.rules = Merge(cycle.rules), !.eligible = <<>>])
    /\ UNCHANGED <<CycleLocal, quiet, adguardVars, rewrite>>

SetCustomRules ==
    /\ cycle.at = "write"
    /\ LET kept == StripManagedBlock(cycle.read)
           new == [before |-> kept, block |-> cycle.rules, closed |-> cycle.rules # {}, after |-> {},
                   stray |-> cycle.read.stray]
           done == [cycle EXCEPT !.at = "filters", !.rules = {}, !.read = None]
       IN  IF new = cycle.read
           THEN cycle' = done /\ UNCHANGED <<text, mishaps>>
           ELSE CycleCall(text, new, text', done)
    /\ UNCHANGED <<CycleLocal, quiet, filters, safe, rewrites, rewrite>>

\* sync_category_subscriptions: without a large category AdGuard is not asked.
GetFiltersStatus ==
    LET large == {c \in DOMAIN db.category : /\ db.category[c] # None /\ db.category[c].url # None
                                             /\ OverThreshold(db.category[c])}
    IN  /\ cycle.at = "filters"
        /\ IF large = {}
           THEN cycle' = [cycle EXCEPT !.at = "safe"] /\ mishaps' = mishaps
           ELSE CycleRead([cycle EXCEPT !.at = "filter", !.status = filters,
                              !.left = {[id |-> c, url |-> db.category[c].url,
                                         everyone |-> db.category[c].access.everyone] : c \in large}])
        /\ UNCHANGED <<CycleLocal, quiet, adguardVars, rewrite>>

\* A large category is blocked for everyone, or in the windows of everyone's schedules;
\* overrides are not asked.
ShouldEnable(c, everyone) ==
    \/ everyone
    \/ \E s \in DOMAIN db.schedule :
          /\ db.schedule[s] # None /\ c \in db.schedule[s].blocks
          /\ ~db.schedule[s].lockout /\ db.schedule[s].access.everyone
          /\ ScheduleIsActive(db.schedule[s], now)

Current == CHOOSE c \in cycle.left : \A d \in cycle.left : c.id <= d.id

\* The cycle after the current category of the loop.
NextFilter ==
    IF cycle.left = {Current} THEN [cycle EXCEPT !.at = "safe", !.left = {}, !.status = None]
    ELSE [cycle EXCEPT !.at = "filter", !.left = @ \ {Current}]

\* Mutant: only new subscriptions are switched off.
SyncFilterOnce ==
    /\ cycle.at = "filter"
    /\ LET should == ShouldEnable(Current.id, Current.everyone)
       IN  IF cycle.status[Current.url] = "absent"
           THEN CycleCall(filters, [filters EXCEPT ![Current.url] = "on"], filters',
                          IF should THEN NextFilter ELSE [cycle EXCEPT !.at = "disable"])
           ELSE cycle' = NextFilter /\ UNCHANGED <<filters, mishaps>>
    /\ UNCHANGED <<CycleLocal, quiet, text, safe, rewrites, rewrite>>

\* One category of the loop.  A new subscription is enabled; where that is wrong a second
\* call follows.
SyncFilter ==
    /\ cycle.at = "filter"
    /\ LET should == ShouldEnable(Current.id, Current.everyone)
           right == IF should THEN "on" ELSE "off"
           switched(to) == [filters EXCEPT ![Current.url] = to]
       IN  CASE cycle.status[Current.url] = "absent" ->
                  CycleCall(filters, switched("on"), filters',
                            IF should THEN NextFilter ELSE [cycle EXCEPT !.at = "disable"])
             [] cycle.status[Current.url] \notin {"absent", right} ->
                  CycleCall(filters, switched(right), filters', NextFilter)
             [] cycle.status[Current.url] = right -> cycle' = NextFilter /\ UNCHANGED <<filters, mishaps>>
    /\ UNCHANGED <<CycleLocal, quiet, text, safe, rewrites, rewrite>>

DisableFilter ==
    /\ cycle.at = "disable"
    /\ CycleCall(filters, [filters EXCEPT ![Current.url] = "off"], filters', NextFilter)
    /\ UNCHANGED <<CycleLocal, quiet, text, safe, rewrites, rewrite>>

\* sync_safesearch.
GetSafesearchStatus ==
    /\ cycle.at = "safe"
    /\ CycleRead(IF safe = settings.safe THEN [cycle EXCEPT !.at = "rewrite"]
                 ELSE [cycle EXCEPT !.at = "safe set", !.read = settings.safe])
    /\ UNCHANGED <<CycleLocal, quiet, adguardVars, rewrite>>

SetSafesearchSettings ==
    /\ cycle.at = "safe set"
    /\ CycleCall(safe, cycle.read, safe', [cycle EXCEPT !.at = "rewrite", !.read = None])
    /\ UNCHANGED <<CycleLocal, quiet, text, filters, rewrites, rewrite>>

-----------------------------------------------------------------------------
(* sync_optigate_rewrite, by the controller and by the dashboard.          *)

Resting == [at |-> "idle", name |-> None, stale |-> {}, add |-> FALSE]

\* What the end of x's synchronisation does: the cycle goes on, or fails; the
\* dashboard's route only shows the problem.
RewriteEnds(x, ok) ==
    /\ rewrite' = [rewrite EXCEPT ![x] = Resting]
    /\ cycle' = IF x = "dashboard" THEN cycle
                ELSE [cycle EXCEPT !.at = IF ok THEN "done" ELSE "failed"]

RewriteLocal == <<householdVars, settings, login, page, failing, event, owed, unsaid,
                  text, filters, safe>>

StartRewrite ==
    /\ cycle.at = "rewrite"
    /\ IF BlockPage = None
       THEN RewriteEnds("controller", TRUE)
       ELSE /\ rewrite["controller"].at = "idle"
            /\ rewrite' = [rewrite EXCEPT !["controller"].at = "list", !["controller"].name = settings.name]
            /\ cycle' = cycle
    /\ UNCHANGED <<RewriteLocal, quiet, mishaps, rewrites>>

Disturbs(x) == quiet' = (quiet /\ x = "controller")

GetRewrites(x) ==
    /\ rewrite[x].at = "list"
    /\ \E ok \in BOOLEAN :
          LET right == [domain |-> rewrite[x].name, answer |-> BlockPage]
          IN  /\ Call(x, ok, ok)
              /\ IF ok
                 THEN /\ rewrite' = [rewrite EXCEPT ![x] =
                                       [@ EXCEPT !.at = "change", !.stale = rewrites \ {right},
                                                 !.add = right \notin rewrites]]
                      /\ cycle' = cycle
                 ELSE RewriteEnds(x, FALSE)
    /\ Disturbs(x)
    /\ UNCHANGED <<RewriteLocal, rewrites>>

\* Entries that differ go one by one, then the right one is added, if it was not there.
DeleteRewrite(x) ==
    /\ rewrite[x].at = "change" /\ rewrite[x].stale # {}
    /\ \E applied, ok \in BOOLEAN, entry \in rewrite[x].stale :
          /\ Call(x, applied, ok)
          /\ rewrites' = IF applied THEN rewrites \ {entry} ELSE rewrites
          /\ IF ok THEN rewrite' = [rewrite EXCEPT ![x].stale = @ \ {entry}] /\ cycle' = cycle
             ELSE RewriteEnds(x, FALSE)
    /\ Disturbs(x)
    /\ UNCHANGED RewriteLocal

AddRewrite(x) ==
    /\ rewrite[x].at = "change" /\ rewrite[x].stale = {} /\ rewrite[x].add
    /\ \E applied, ok \in BOOLEAN :
          /\ Call(x, applied, ok)
          /\ rewrites' = IF applied
                         THEN rewrites \union {[domain |-> rewrite[x].name, answer |-> BlockPage]}
                         ELSE rewrites
          /\ RewriteEnds(x, ok)
    /\ Disturbs(x)
    /\ UNCHANGED RewriteLocal

RewriteUnchanged(x) ==
    /\ rewrite[x].at = "change" /\ rewrite[x].stale = {} /\ ~rewrite[x].add
    /\ RewriteEnds(x, TRUE)
    /\ Disturbs(x)
    /\ UNCHANGED <<RewriteLocal, mishaps, rewrites>>

-----------------------------------------------------------------------------
(* The end of a cycle: failure_recovery_callbacks.  The row may be lost,   *)
(* as when the database is locked.                                         *)

ReportLocal == <<householdVars, settings, login, page, adguardVars, rewrite, owed, quiet>>

Log(severity) ==
    \/ event' = severity /\ unsaid' = unsaid /\ mishaps' = mishaps
    \/ event' = event /\ unsaid' = TRUE /\ Mishap

OnError ==
    /\ cycle.at = "failed"
    /\ cycle' = Idle
    /\ failing' = TRUE
    /\ Log("error")
    /\ UNCHANGED ReportLocal

\* Mutant: the streak's flag stays.
OnSuccessForgets ==
    /\ cycle.at = "done"
    /\ cycle' = Idle
    /\ failing' = FALSE
    /\ UNCHANGED <<event, unsaid, mishaps>>
    /\ UNCHANGED ReportLocal

OnSuccess ==
    /\ cycle.at = "done"
    /\ cycle' = Idle
    /\ failing' = FALSE
    /\ IF failing THEN Log("recovery") ELSE UNCHANGED <<event, unsaid, mishaps>>
    /\ UNCHANGED ReportLocal

Cycle ==
    \/ FetchEligible \/ BuildRules \/ GetCustomRules \/ SetCustomRules
    \/ GetFiltersStatus \/ SyncFilter \/ DisableFilter
    \/ GetSafesearchStatus \/ SetSafesearchSettings
    \/ StartRewrite \/ OnError \/ OnSuccess

RewriteStep(x) == GetRewrites(x) \/ DeleteRewrite(x) \/ AddRewrite(x) \/ RewriteUnchanged(x)

-----------------------------------------------------------------------------
(* Everybody else.                                                         *)

Others == <<cycle, failing, event>>

\* update_filtering_settings.
UpdateFilteringSettings ==
    /\ Mishap
    /\ settings' = [settings EXCEPT !.safe = ~@]
    /\ quiet' = FALSE
    /\ UNCHANGED <<householdVars, adguardVars, login, rewrite, page, owed, unsaid, Others>>

\* The dashboard synchronises the rewrite when the name is saved, when it boots and when
\* the filters are refreshed.
SyncOptigateRewriteNow ==
    /\ Mishap
    /\ BlockPage # None /\ rewrite["dashboard"].at = "idle"
    /\ \E name \in Name :
          /\ settings' = [settings EXCEPT !.name = name]
          /\ rewrite' = [rewrite EXCEPT !["dashboard"].at = "list", !["dashboard"].name = name]
    /\ quiet' = FALSE
    /\ UNCHANGED <<householdVars, adguardVars, login, page, owed, unsaid, Others>>

\* sync_adguard_credentials: the file has the new password, or stays as it was.
SyncAdguardCredentials(password) == {login.file, password}

\* update_admin with a new password.
UpdateAdmin ==
    /\ Mishap
    /\ \E file \in SyncAdguardCredentials(login.db + 1) :
          login' = [login EXCEPT !.db = @ + 1, !.file = file]
    /\ quiet' = FALSE
    /\ UNCHANGED <<householdVars, adguardVars, settings, rewrite, page, owed, unsaid, Others>>

RestartAdguard ==
    /\ Mishap
    /\ login' = [login EXCEPT !.adguard = login.file]
    /\ quiet' = FALSE
    /\ UNCHANGED <<householdVars, adguardVars, settings, rewrite, page, owed, unsaid, Others>>

\* The controller stops anywhere in a cycle, and reads the login when it starts.
RestartController ==
    /\ Mishap
    /\ login' = [login EXCEPT !.controller = login.db]
    /\ cycle' = Idle
    /\ rewrite' = [rewrite EXCEPT !["controller"] = Resting]
    /\ failing' = FALSE
    /\ unsaid' = (unsaid \/ failing)
    /\ quiet' = FALSE
    /\ UNCHANGED <<householdVars, adguardVars, settings, page, event, owed>>

AdminOpensPage ==
    /\ Mishap
    /\ page = None
    /\ page' = text
    /\ UNCHANGED <<householdVars, adguardVars, settings, login, rewrite, owed, quiet, unsaid, Others>>

\* The rules outside of both markers; a block that lost its end has everything after it.
Outside(rules) ==
    IF rules.block # {} /\ ~rules.closed THEN rules.before ELSE rules.before \union rules.after

\* A save replaces all rules by what the page holds: a rule more or less, a marker lost, or
\* the stray rules gone.  Between the cycle's read and its write it is lost.
AdminSaves ==
    /\ page # None
    /\ \E r \in Foreign :
          text' \in {[page EXCEPT !.before = @ \union {r}], [page EXCEPT !.after = @ \union {r}],
                     [page EXCEPT !.before = @ \ {r}, !.after = @ \ {r}],
                     [page EXCEPT !.closed = FALSE], [page EXCEPT !.stray = {}],
                     [page EXCEPT !.stray = @ \union page.block, !.block = {}, !.closed = FALSE]}
    /\ page' = None
    /\ owed' = IF cycle.at = "write" THEN owed \intersect Outside(text') ELSE Outside(text')
    /\ quiet' = FALSE
    /\ UNCHANGED <<householdVars, mishaps, filters, safe, rewrites, settings, login, rewrite, unsaid, Others>>

Household ==
    /\ \/ mishaps + 2 * edits + 2 <= MaxMishaps /\ HouseholdRoute /\ mishaps' = mishaps
       \/ HouseholdStep /\ mishaps' = mishaps
       \/ Tick /\ Mishap
    /\ quiet' = FALSE
    /\ UNCHANGED <<adguardVars, settings, login, cycle, rewrite, page, failing, event, owed, unsaid>>

Next ==
    \/ Cycle \/ \E x \in Actor : RewriteStep(x)
    \/ UpdateFilteringSettings \/ SyncOptigateRewriteNow
    \/ UpdateAdmin \/ RestartAdguard \/ RestartController
    \/ AdminOpensPage \/ AdminSaves \/ Household

\* The tables are set by an instance.
Init ==
    /\ Tables(db)
    /\ now = 0 /\ edits = 0 /\ mishaps = 0
    /\ job = [t \in Thread |-> <<>>]
    /\ text = [before |-> {}, block |-> {}, closed |-> FALSE, after |-> {}, stray |-> {}]
    /\ filters = [u \in DOMAIN Lists |-> "absent"]
    /\ safe = FALSE /\ rewrites = {}
    /\ settings = [safe |-> FALSE, name |-> CHOOSE name \in Name : TRUE]
    /\ login = [db |-> 0, file |-> 0, adguard |-> 0, controller |-> 0]
    /\ cycle = Idle /\ rewrite = [x \in Actor |-> Resting]
    /\ page = None
    /\ failing = FALSE /\ event = None
    /\ owed = {} /\ quiet = FALSE /\ unsaid = FALSE

\* The loop ticks for ever and a request that has begun goes on; nothing else is promised.
Fairness ==
    /\ WF_ruleVars(Cycle \/ RewriteStep("controller"))
    /\ WF_ruleVars(RewriteStep("dashboard"))
    /\ \A t \in Thread : WF_ruleVars(Statement(t) /\ quiet' = FALSE
          /\ UNCHANGED <<adguardVars, settings, login, cycle, rewrite, page, failing, event, mishaps, owed, unsaid>>)

-----------------------------------------------------------------------------
(* What AdGuard does to a query, and what the tables call for.             *)

\* AdGuard enforces neither of two rules that share a body and an action.
Effective(rules) == {r \in rules : \A q \in rules : SameKey(r, q) => q = r}

Matches(r, a, host) == host \in Covers[r.body] /\ (r.clients = None \/ a \in r.clients)

Blocked(rules, a, host) ==
    /\ \E r \in rules : ~r.allow /\ r.suffix # "https" /\ Matches(r, a, host)
    /\ ~\E r \in rules : r.allow /\ Matches(r, a, host)

Stripped(rules, a, host) == \E r \in rules : r.suffix = "https" /\ Matches(r, a, host)

\* A device may use a bump domain that it is authorised for and can be decrypted for.
MayUse(dev, row) ==
    Reason(dev, row) # None /\ (row.mode = "bump" => BumpEligible(dev))

CalledFor(dev, host) ==
    /\ ~\E p \in Pattern : db.allow[p] # None /\ host \in Covers[p] /\ Reason(dev, db.allow[p]) # None
    /\ \/ \E p \in Canary : host \in Covers[p]
       \/ \E row \in Rows(db.domain) :
             host \in Covers[row.pattern] /\ row.mode \in {"bump", "splice"} /\ ~MayUse(dev, row)
       \/ \E c \in DOMAIN db.category :
             /\ db.category[c] # None /\ ~OverThreshold(db.category[c])
             /\ \E p \in BlockedPatterns(db.category[c]) : host \in Covers[p]
             /\ BlockedFor(c, dev, now)

RulesAgree ==
    LET rules == Effective(text.block \union text.stray)
        eligible == Eligible
    IN  \A a \in DOMAIN eligible, host \in Host :
            /\ Blocked(rules, a, host) <=> CalledFor(eligible[a], host)
            /\ Stripped(rules, a, host) <=>
                  \E row \in Rows(db.domain) :
                      row.mode = "bump" /\ host \in Covers[row.pattern] /\ MayUse(eligible[a], row)

\* A subscription of two large categories is switched by both, in turn.
FiltersAgree ==
    \A c \in DOMAIN db.category :
        /\ db.category[c] # None /\ db.category[c].url # None /\ OverThreshold(db.category[c])
        /\ \A d \in DOMAIN db.category : (d # c /\ db.category[d] # None) => db.category[d].url # db.category[c].url
        => (filters[db.category[c].url] = "on") <=> ShouldEnable(c, db.category[c].access.everyone)

RewritesAgree == BlockPage # None => rewrites = {[domain |-> settings.name, answer |-> BlockPage]}

InAgreement == safe = settings.safe /\ RewritesAgree /\ FiltersAgree /\ RulesAgree

-----------------------------------------------------------------------------
(* Properties.                                                             *)

\* Types, and the foreign keys of the tables: no row names somebody deleted
\* (common/db.py's ON DELETE clauses).
TypeOK ==
    /\ Tables(db)
    /\ filters \in [DOMAIN Lists -> {"absent", "on", "off"}]
    /\ text.before \union text.after \subseteq Foreign

\* Rules that the administrator saved, while the loop was not between its read and its
\* write, stay until he removes them (sync_once, _strip_managed_block).
AdminRulesSurvive == owed \subseteq text.before \union text.after

\* A cycle that ends and that nobody wrote beside leaves AdGuard blocking, for every device
\* that is not bypassed, exactly what the tables block it from, although rules of one body
\* cancel each other (_merge_duplicate_domain_rules), and the rest of it as set; but the rules
\* of a block that lost its begin marker stay until the administrator removes them.
DnsAgreesWithDb == (cycle.at = "done" /\ quiet /\ text.stray = {}) => InAgreement

\* The event rows tell whether the loop is failing, unless a row was lost or the controller
\* was restarted (failure_recovery_callbacks).
StreakIsReported == (cycle.at = "idle" /\ ~unsaid) => (failing <=> event = "error")

\* A schedule is active at exactly the times of its window, over midnight, over the end of
\* the week and when it begins and ends at the same time (schedule_is_active).
WindowsAreIntervals ==
    \A s \in DOMAIN db.schedule : db.schedule[s] # None =>
        \A t \in 0 .. Days * Slots - 1 :
            ScheduleIsActive(db.schedule[s], t) <=> InWindow(db.schedule[s], t)

\* Whatever was lost, half saved, raced or restarted: when the controller has AdGuard's
\* password, the tables come to rest and no rule is stray, AdGuard ends as they call for.
Converges == <>[](login.adguard = login.controller /\ text.stray = {}) => <>[]InAgreement

Spec == Init /\ [][Next]_ruleVars
=============================================================================
