-------------------------------- MODULE Gate --------------------------------
(***************************************************************************)
(* A connection through Squid: the order of its ssl_bump and http_access   *)
(* rules (proxy/squid.conf.template), the helpers behind them, which read  *)
(* the household's tables afresh at each rule, the resolution of           *)
(* Crunchyroll objects to series with its cache, and the report's rows.    *)
(*                                                                         *)
(* A helper's reads for one question are one step, except around its calls *)
(* to Crunchyroll.  A request is [kind, path, id]: what cr_urls.classify   *)
(* makes of its URL, the path, and the series or object that it names.     *)
(***************************************************************************)
EXTENDS Household

CONSTANTS
    Flow,          \* client connections; also the helper that serves one
    Lan,           \* those inside the configured networks; {}: none configured
    Series, Missing,   \* series, and the answer that an object has none
    Object,        \* episodes
    Requests,      \* the requests that clients make
    Root,          \* the path "/"
    DedupeWindow, PositiveTtl, NegativeTtl,   \* in slots
    MaxSpent, EditCost   \* the bound of what clients, operators and failures do; an edit's share

Cached == [series : Series \union {Missing}, expires : Nat]

ASSUME NoneAssumption ==
    None \notin Cached \union {"allow", "deny", "global", "user", "group", "device"}
\* A device that is healed gets an id of its own.
ASSUME HealedRowAssumption ==
    LET whom == SUBSET (Person \union Nat)
        audience == [everyone : BOOLEAN, users : whom, groups : whom, devices : whom]
    IN  /\ None \notin [access : audience]
        /\ None \notin [pattern : Pattern, mode : DomainMode, kept : BOOLEAN, series : BOOLEAN,
                        paths : SUBSET STRING, access : audience]
ASSUME TimeAssumption == {DedupeWindow, PositiveTtl, NegativeTtl} \subseteq Nat
ASSUME RequestsAssumption ==
    \A r \in Requests : /\ r.kind = "watch" => r.id \in Object
                        /\ r.kind = "series" => r.id \in Series

VARIABLES
    conn,      \* conn[f]: the connection and where Squid is with it
    redirect,  \* the setting block_page_mode is "redirect"
    shows,     \* user_shows, as pairs
    catalog,   \* Crunchyroll's catalogue: the series of each object, or Missing
    cache,     \* series_cache: the series found and when it expires, or None
    token,     \* token[f]: None, "good", or "old" when Crunchyroll refuses it
    log,       \* access_log
    \* History:
    stored,    \* the answers that were ever put into the cache, as pairs
    spent      \* the bound's counter

crVars == <<catalog, cache, token, stored>>
gateVars == <<householdVars, conn, redirect, shows, crVars, log, spent>>

Spend == spent + EditCost * edits < MaxSpent /\ spent' = spent + 1

-----------------------------------------------------------------------------
(* Identity and the report.                                                *)

\* create_pending_device.
PendingDevice(id) ==
    [id |-> id, user |-> None, group |-> None, ignored |-> FALSE, quarantined |-> FALSE,
     vouched |-> FALSE, bump |-> FALSE]

\* resolve_device: a binding without a device is healed; an address without a binding is
\* nobody's.
Healed(d, a) ==
    LET id == 1 + Greatest({0} \union d.present.devices)
    IN  IF a \in DOMAIN d.device /\ d.device[a] = None
        THEN [d EXCEPT !.device[a] = PendingDevice(id), !.present.devices = @ \union {id}]
        ELSE d

Device(d, a) == IF a \in DOMAIN d.device THEN d.device[a] ELSE None

\* log_identity_fields.
Who(dev) ==
    IF dev = None THEN [name |-> None, user |-> None, device |-> None]
    ELSE [name |-> IF dev.user # None THEN dev.user ELSE dev.id, user |-> dev.user, device |-> dev.id]

Row(dev, host, path, series, allowed, reason) ==
    [who |-> Who(dev), host |-> host, path |-> path, series |-> series, allowed |-> allowed,
     reason |-> reason, ts |-> now, asked |-> FALSE]

\* Mutant: an allowed row stands for a denial of the same.
LogAccessAny(rows, row) ==
    IF \E r \in rows : /\ r.who.name = row.who.name /\ r.host = row.host
                       /\ r.path = row.path /\ r.series = row.series /\ r.ts >= row.ts - DedupeWindow
    THEN rows ELSE rows \union {row}

\* log_access: a row like a recent one, whatever its reason and its device, is not written.
LogAccess(rows, row) ==
    IF \E r \in rows : /\ r.who.name = row.who.name /\ r.host = row.host /\ r.allowed = row.allowed
                       /\ r.path = row.path /\ r.series = row.series /\ r.ts >= row.ts - DedupeWindow
    THEN rows ELSE rows \union {row}

-----------------------------------------------------------------------------
(* The TLS rules, in Squid's order.                                        *)

NoConn == [at |-> "new", client |-> None, host |-> None, request |-> None, dev |-> None,
           got |-> None, again |-> FALSE, answer |-> None]

Mode(d, host) ==
    LET i == FindDomain(d.domain, host) IN IF i = None THEN None ELSE d.domain[i].mode

Go(f, at) == conn' = [conn EXCEPT ![f].at = at]

TlsLocal == <<job, now, edits, redirect, shows, crVars>>

\* ssl_bump peek; a plain HTTP request is intercepted and has no TLS rules.
Accept(f) ==
    /\ conn[f].at = "new"
    /\ \E a \in Client, host \in Host, at \in {"trusted", "idle"} :
          conn' = [conn EXCEPT ![f] = [NoConn EXCEPT !.at = at, !.client = a, !.host = host]]
    /\ Spend
    /\ UNCHANGED <<db, log, TlsLocal>>

\* handle_trusted.
AskTrusted(f) ==
    /\ conn[f].at = "trusted"
    /\ Go(f, IF Mode(db, conn[f].host) = "trusted" THEN "tunnel" ELSE "bump")
    /\ UNCHANGED <<db, log, spent, TlsLocal>>

\* handle_bump.
AskBump(f) ==
    /\ conn[f].at = "bump"
    /\ Go(f, IF Mode(db, conn[f].host) = "bump" THEN "idle" ELSE "splice")
    /\ UNCHANGED <<db, log, spent, TlsLocal>>

\* handle_splice's and authz's answer for a host that is not configured, or spliced.
Admits(d, dev, host) ==
    LET i == FindDomain(d.domain, host) IN i = None \/ Reason(dev, d.domain[i]) # None

\* Mutant: the mode is not read again.
AskSpliceAnyMode(f) ==
    /\ conn[f].at = "splice"
    /\ LET a == conn[f].client
           d == Healed(db, a)
           dev == Device(d, a)
           ok == dev # None /\ Admits(d, dev, conn[f].host)
       IN  IF ~InConfiguredLan(Lan, a)
           THEN db' = db /\ Go(f, "page") /\ log' = LogAccess(log, Row(None, conn[f].host, None, None, FALSE, "lan"))
           ELSE /\ db' = d
                /\ Go(f, IF ok THEN "tunnel" ELSE "page")
                /\ log' = LogAccess(log, Row(dev, conn[f].host, None, None, ok, "tls"))
    /\ UNCHANGED <<spent, TlsLocal>>

\* handle_splice; a mode that changed since the earlier rules is refused without a row.
AskSplice(f) ==
    /\ conn[f].at = "splice"
    /\ LET a == conn[f].client
           d == Healed(db, a)
           dev == Device(d, a)
           ok == dev # None /\ Admits(d, dev, conn[f].host)
       IN  IF Mode(db, conn[f].host) \notin {None, "splice"}
           THEN db' = db /\ Go(f, "page") /\ log' = log
           ELSE IF ~InConfiguredLan(Lan, a)
           THEN db' = db /\ Go(f, "page") /\ log' = LogAccess(log, Row(None, conn[f].host, None, None, FALSE, "lan"))
           ELSE /\ db' = d
                /\ Go(f, IF ok THEN "tunnel" ELSE "page")
                /\ log' = LogAccess(log, Row(dev, conn[f].host, None, None, ok, "tls"))
    /\ UNCHANGED <<spent, TlsLocal>>

\* handle_block_page: the connection is decrypted to show a page, or ends.
AskBlockPage(f) ==
    /\ conn[f].at = "page"
    /\ Go(f, IF redirect THEN "idle" ELSE "closed")
    /\ UNCHANGED <<db, log, spent, TlsLocal>>

\* An exception, as when the database is locked, answers ERR (squid_helper.run).
HelperFails(f) ==
    /\ conn[f].at \in {"trusted", "bump", "splice", "page"}
    /\ Go(f, CASE conn[f].at = "trusted" -> "bump"
               [] conn[f].at = "bump" -> "splice"
               [] conn[f].at = "splice" -> "page"
               [] conn[f].at = "page" -> "closed")
    /\ Spend
    /\ UNCHANGED <<db, log, TlsLocal>>

-----------------------------------------------------------------------------
(* Requests on a decrypted or plain connection: authz_helper.              *)

Ask(f) ==
    /\ conn[f].at = "idle"
    /\ \E r \in Requests :
          conn' = [conn EXCEPT ![f].at = "authz", ![f].request = r, ![f].answer = None]
    /\ Spend
    /\ UNCHANGED <<db, log, TlsLocal>>

\* The answer ends the request; its locals are forgotten.
Answered(f, ok) ==
    [conn EXCEPT ![f] = [@ EXCEPT !.at = "idle", !.dev = None, !.got = None, !.again = FALSE,
                                  !.answer = IF ok THEN "allow" ELSE "deny"]]

Answer(f, dev, series, ok, reason) ==
    /\ conn' = Answered(f, ok)
    /\ log' = LogAccess(log, Row(dev, conn[f].host, conn[f].request.path, series, ok, reason))

\* A row of _decide_crunchyroll names the user and no device.
UserRow(f, dev, series, ok, reason) ==
    [Row(dev, conn[f].host, conn[f].request.path, series, ok, reason) EXCEPT !.who.device = None]

UserAnswer(f, dev, series, ok, reason) ==
    /\ conn' = Answered(f, ok)
    /\ log' = LogAccess(log, UserRow(f, dev, series, ok, reason))

Silent(f, ok) == conn' = Answered(f, ok) /\ log' = log

\* cr_urls.RequestKind, as _decide_crunchyroll takes it.  A watch page or playback is
\* looked up; a series page names its series.
DecideCrunchyroll(f, dev, row) ==
    LET r == conn[f].request
    IN  \/ r.kind = "objects" /\ Silent(f, TRUE)
        \/ r.kind = "guarded" /\ UserAnswer(f, dev, None, FALSE, "shape")
        \/ r.kind = "other" /\ IF PathAllowed(row, r.path, Root) THEN Silent(f, TRUE)
                               ELSE UserAnswer(f, dev, None, FALSE, "path")
        \/ /\ r.kind = "series"
           /\ conn' = [conn EXCEPT ![f].at = "shows", ![f].dev = dev, ![f].got = r.id]
           /\ log' = log
        \/ /\ r.kind = "watch"
           /\ conn' = [conn EXCEPT ![f].at = "lookup", ![f].dev = dev]
           /\ log' = log

\* decide, for a device that is known.
Decide(f, d, dev) ==
    LET i == FindDomain(d.domain, conn[f].host)
        row == d.domain[i]
    IN  IF i = None THEN Answer(f, dev, None, TRUE, "unconfigured")
        ELSE \/ row.mode = "trusted" /\ Silent(f, TRUE)
             \/ row.mode = "splice" /\ Answer(f, dev, None, Reason(dev, row) # None, "tls")
             \/ /\ row.mode = "bump" /\ Reason(dev, row) = None
                /\ Answer(f, dev, None, FALSE, "unassigned")
             \/ /\ row.mode = "bump" /\ Reason(dev, row) # None /\ row.series
                /\ IF dev.user = None THEN Answer(f, dev, None, FALSE, "no user")
                   ELSE DecideCrunchyroll(f, dev, row)
             \/ /\ row.mode = "bump" /\ Reason(dev, row) # None /\ ~row.series
                /\ LET ok == PathAllowed(row, conn[f].request.path, Root)
                   IN  Answer(f, dev, None, ok, IF ok THEN "path allowed" ELSE "path")

Authz(f) ==
    /\ conn[f].at = "authz"
    /\ LET a == conn[f].client
           d == Healed(db, a)
           dev == Device(d, a)
       IN  IF ~InConfiguredLan(Lan, a)
           THEN db' = db /\ Answer(f, None, None, FALSE, "lan")
           ELSE /\ db' = d
                /\ IF dev = None THEN Silent(f, FALSE) ELSE Decide(f, d, dev)
    /\ UNCHANGED <<spent, TlsLocal>>

AuthzFails(f) ==
    /\ conn[f].at \in {"authz", "lookup", "fetch", "store", "shows"}
    /\ Silent(f, FALSE)
    /\ Spend
    /\ UNCHANGED <<db, TlsLocal>>

-----------------------------------------------------------------------------
(* resolve_series_ids and SeriesResolver.resolve.                          *)

SeriesLocal == <<householdVars, redirect, shows, catalog>>

\* _cache_get.
CacheGet(f) ==
    LET hit == cache[conn[f].request.id]
    IN  /\ conn[f].at = "lookup"
        /\ conn' = IF hit # None /\ now < hit.expires
                   THEN [conn EXCEPT ![f].at = "shows", ![f].got = hit.series]
                   ELSE [conn EXCEPT ![f].at = "fetch", ![f].again = FALSE]
        /\ UNCHANGED <<SeriesLocal, cache, token, stored, log, spent>>

\* Mutant: an expired series does not help.
ServeFresh(f) ==
    LET hit == cache[conn[f].request.id]
        fresh == hit # None /\ hit.series # Missing /\ now < hit.expires
    IN  /\ conn' = IF fresh THEN [conn EXCEPT ![f].at = "shows", ![f].got = hit.series]
                   ELSE Answered(f, FALSE)
        /\ log' = IF fresh THEN log
                  ELSE LogAccess(log, UserRow(f, conn[f].dev, None, FALSE, "unresolved"))

\* The resolution failed: only a series that is in the cache, expired or not, helps.
ServeStale(f) ==
    LET hit == cache[conn[f].request.id]
        stale == hit # None /\ hit.series # Missing
    IN  /\ conn' = IF stale THEN [conn EXCEPT ![f].at = "shows", ![f].got = hit.series]
                   ELSE Answered(f, FALSE)
        /\ log' = IF stale THEN log
                  ELSE LogAccess(log, UserRow(f, conn[f].dev, None, FALSE, "unresolved"))

ResolutionFails(f) ==
    /\ conn[f].at = "fetch"
    /\ Spend
    /\ ServeStale(f)
    /\ UNCHANGED <<SeriesLocal, cache, token, stored>>

\* TokenManager.token, with a forced refresh on the second attempt.
FetchToken(f) ==
    /\ conn[f].at = "fetch" /\ token[f] = None
    /\ token' = [token EXCEPT ![f] = "good"]
    /\ UNCHANGED <<SeriesLocal, conn, cache, stored, log, spent>>

FetchObjects(f) ==
    /\ conn[f].at = "fetch" /\ token[f] = "good"
    /\ conn' = [conn EXCEPT ![f].at = "store", ![f].got = catalog[conn[f].request.id]]
    /\ UNCHANGED <<SeriesLocal, cache, token, stored, log, spent>>

\* _get_json on HTTP 401: once with a new token, then it is a failure.
Unauthorised(f) ==
    /\ conn[f].at = "fetch" /\ token[f] = "old"
    /\ IF conn[f].again
       THEN ServeStale(f) /\ token' = token
       ELSE /\ token' = [token EXCEPT ![f] = None]
            /\ conn' = [conn EXCEPT ![f].again = TRUE]
            /\ log' = log
    /\ UNCHANGED <<SeriesLocal, cache, stored, spent>>

\* _cache_put.
CachePut(f) ==
    /\ conn[f].at = "store"
    /\ LET found == conn[f].got
       IN  /\ cache' = [cache EXCEPT ![conn[f].request.id] =
                       [series |-> found,
                        expires |-> now + (IF found = Missing THEN NegativeTtl ELSE PositiveTtl)]]
           /\ stored' = stored \union {<<conn[f].request.id, found>>}
    /\ Go(f, "shows")
    /\ UNCHANGED <<SeriesLocal, token, log, spent>>

\* Mutant: a show that anybody has is enough.
AskShowsAnyone(f) ==
    /\ conn[f].at = "shows"
    /\ LET series == IF conn[f].got = Missing THEN None ELSE conn[f].got
           ok == \E u \in db.present.users : <<u, conn[f].got>> \in shows
       IN  UserAnswer(f, conn[f].dev, series, ok, "show")
    /\ UNCHANGED <<householdVars, redirect, shows, crVars, spent>>

\* user_has_show, for the user that the request began with.
AskShows(f) ==
    /\ conn[f].at = "shows"
    /\ LET series == IF conn[f].got = Missing THEN None ELSE conn[f].got
           ok == <<conn[f].dev.user, conn[f].got>> \in shows
       IN  UserAnswer(f, conn[f].dev, series, ok, "show")
    /\ UNCHANGED <<householdVars, redirect, shows, crVars, spent>>

-----------------------------------------------------------------------------
(* Crunchyroll and the dashboard.                                          *)

\* Crunchyroll ends a token before its time; the helper does not know.
RevokeToken(f) ==
    /\ Spend
    /\ token[f] = "good"
    /\ token' = [token EXCEPT ![f] = "old"]
    /\ UNCHANGED <<SeriesLocal, conn, cache, stored, log>>

\* An object is added, withdrawn or moved.
Republish ==
    /\ Spend
    /\ \E o \in Object, s \in Series \union {Missing} : catalog' = [catalog EXCEPT ![o] = s]
    /\ UNCHANGED <<householdVars, conn, redirect, shows, cache, token, stored, log>>

ApproveShow ==
    /\ Spend
    /\ \E s \in Series, U \in Sets(db.present.users) : shows' = shows \union (U \X {s})
    /\ UNCHANGED <<householdVars, conn, redirect, crVars, log>>

RemoveShow ==
    /\ Spend
    /\ \E s \in Series, U \in {db.present.users} \union {{u} : u \in db.present.users} :
          shows' = shows \ (U \X {s})
    /\ UNCHANGED <<householdVars, conn, redirect, crVars, log>>

SetBlockPageMode ==
    /\ Spend
    /\ redirect' = ~redirect
    /\ UNCHANGED <<householdVars, conn, shows, crVars, log>>

\* user_shows: ON DELETE CASCADE.
ShowsOf(pairs, users) == {x \in pairs : x[1] \in users}

\* The routes that write the tables the helpers read, on the threads of T, and their
\* statements.
GateHousehold(T) ==
    /\ \/ /\ spent + EditCost * (edits + 1) <= MaxSpent
          /\ \E t \in T : DomainRoute(t) \/ PeopleRoute(t)
          /\ spent' = spent
       \/ (\E t \in T : Statement(t)) /\ spent' = spent
       \/ Tick /\ Spend
    /\ shows' = ShowsOf(shows, db'.present.users)
    /\ UNCHANGED <<conn, redirect, crVars, log>>

Squid(f) ==
    \/ AskTrusted(f) \/ AskBump(f) \/ AskSplice(f) \/ AskBlockPage(f) \/ HelperFails(f)
    \/ Authz(f) \/ AuthzFails(f)
    \/ CacheGet(f) \/ ResolutionFails(f) \/ FetchToken(f) \/ FetchObjects(f) \/ Unauthorised(f)
    \/ CachePut(f) \/ AskShows(f)

GateNext(T) ==
    \/ \E f \in Flow : Accept(f) \/ Ask(f) \/ Squid(f) \/ RevokeToken(f)
    \/ Republish \/ ApproveShow \/ RemoveShow \/ SetBlockPageMode \/ GateHousehold(T)

-----------------------------------------------------------------------------
(* The specification.                                                      *)

\* The tables, user_shows, the cache, Crunchyroll's catalogue and the report are set by an
\* instance.
Prepared ==
    /\ Tables(db) /\ IsFiniteSet(DOMAIN db.domain)
    /\ db.domain \in [DOMAIN db.domain -> DomainRow \union {None}]
    /\ db.allow \in [Pattern -> AllowRow \union {None}]
    /\ db.present.devices \subseteq Nat /\ IsFiniteSet(db.present.devices)
    /\ \A r \in log : r.ts = 0 /\ r.series \in Series \union {None}
    /\ shows \subseteq db.present.users \X Series
    /\ catalog \in [Object -> Series \union {Missing}]
    /\ cache \in [Object -> Cached \union {None}]

GateInit ==
    /\ Prepared
    /\ job = [t \in Thread |-> <<>>]
    /\ now = 0 /\ edits = 0 /\ spent = 0
    /\ conn = [f \in Flow |-> NoConn]
    /\ redirect = TRUE
    /\ token = [f \in Flow |-> None]
    /\ stored = {<<o, cache[o].series>> : o \in {x \in Object : cache[x] # None}}

GateSpec == GateInit /\ [][GateNext(Thread)]_gateVars

-----------------------------------------------------------------------------
(* Properties.                                                             *)

GateTypeOK ==
    /\ \A f \in Flow :
          /\ conn[f].at \in {"new", "trusted", "bump", "splice", "page", "tunnel", "closed", "idle",
                            "authz", "lookup", "fetch", "store", "shows"}
          /\ conn[f].client \in {None} \union Client /\ conn[f].host \in {None} \union Host
          /\ conn[f].answer \in {None, "allow", "deny"}
          /\ token[f] \in {None, "good", "old"}
    /\ shows \subseteq db.present.users \X Series
    /\ stored \subseteq Object \X (Series \union {Missing})
    /\ \A r \in log : r.ts \in 0 .. now

\* Squid asks a helper at each of its rules, and a helper that fails answers no; the domain
\* may be edited in between.  Nevertheless a connection becomes a tunnel only when the
\* tables, as they are at that moment, do not have its host decrypted and admit its device.
TunnelsAreOwed ==
    [][\A f \in Flow : conn[f].at # "tunnel" /\ conn'[f].at = "tunnel" =>
          \/ Mode(db', conn[f].host) = "trusted"
          \/ /\ Mode(db', conn[f].host) \in {None, "splice"}
             /\ Device(db', conn[f].client) # None
             /\ Admits(db', Device(db', conn[f].client), conn[f].host)]_gateVars

\* Whether a host is decrypted and its paths are shows.
OfShows(d, host) ==
    LET i == FindDomain(d.domain, host) IN i # None /\ d.domain[i].mode = "bump" /\ d.domain[i].series

\* An episode is played, or a series page shown, to a user who has its show at the moment of
\* the answer, however long the look-up took and from wherever the series was known.
ShowsAreCurrent ==
    [][\A f \in Flow :
          /\ conn[f].at # "idle" /\ conn'[f].at = "idle" /\ conn'[f].answer = "allow"
          /\ conn[f].request.kind \in {"watch", "series"}
          /\ conn[f].at = "authz" => OfShows(db, conn[f].host)
          =>  \E s \in Series :
                /\ conn[f].dev # None
                /\ <<conn[f].dev.user, s>> \in shows
                /\ IF conn[f].request.kind = "series" THEN s = conn[f].request.id
                   ELSE <<conn[f].request.id, s>> \in stored]_gateVars

\* series_resolve.py:124: only an object that was never resolved fails closed; the code
\* also forgets a series when Crunchyroll answers later that there is none.
OnlyUnknownFailsClosed ==
    [][\A f \in Flow, r \in log' \ log :
          /\ r.reason = "unresolved" /\ conn[f].at = "fetch" /\ conn'[f].at = "idle"
          =>  \/ <<conn[f].request.id, Missing>> \in stored
              \/ \A s \in Series : <<conn[f].request.id, s>> \notin stored]_gateVars

\* Whether flow f is refused in this step by a helper that did not fail.
Refused(f) ==
    /\ spent' = spent
    /\ \/ /\ conn[f].at = "splice" /\ conn'[f].at = "page"
          /\ Mode(db, conn[f].host) \in {None, "splice"}
       \/ conn[f].at \notin {"new", "page", "idle"} /\ conn'[f].at = "idle" /\ conn'[f].answer = "deny"

\* The parents find every refusal of a device in the report: a denied row for the host, by
\* the name the device has, that is at most the dedupe window old.
RefusalsAreOnRecord ==
    [][\A f \in Flow :
          LET dev == IF conn[f].dev # None THEN conn[f].dev ELSE Device(db', conn[f].client)
          IN  Refused(f) /\ dev # None /\ InConfiguredLan(Lan, conn[f].client) =>
                \E r \in log' : /\ ~r.allowed /\ r.host = conn[f].host
                                /\ r.who.name = Who(dev).name /\ r.ts >= now - DedupeWindow]_gateVars
=============================================================================
