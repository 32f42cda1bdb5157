---------------------------- MODULE ReportsProofs ----------------------------
(***************************************************************************)
(* The gate and the report beside it, for any tables, connections,         *)
(* clients, requests, query log, page size and bounds.                     *)
(*                                                                         *)
(* The four properties of the gate speak of steps.  What they need of the  *)
(* states before is GInv: what each control point of a connection says of  *)
(* its locals (Sound), and that the cache has an answer for exactly the    *)
(* objects that were ever resolved (Remembers).                            *)
(*                                                                         *)
(* The watermark of the poll of AdGuard's query log passes over no entry,  *)
(* whatever the gate and the dashboard do meanwhile.  A batch begins with  *)
(* the page's newest entry and may fail before its oldest, so what holds   *)
(* in between is Batch: the part of the page that is done is its end, and  *)
(* what is left is an interval above which nothing is newer than the       *)
(* batch's newest time.                                                    *)
(*                                                                         *)
(* The types of the whole (TInv) need what an approval in flight holds: a  *)
(* show that it inserts is of a known series, and the statements that it   *)
(* still has to execute delete nobody.                                     *)
(*                                                                         *)
(* What an approval says at its end rests on AInv: as long as nobody       *)
(* edits, the tables only grow (Grows), for the other approvals only add   *)
(* rows, above those in use, and widen them; so the row that an approval   *)
(* found or made stays the one to be found, and it admits whom it should   *)
(* unless the statement that is to say so is still to come (Due).          *)
(***************************************************************************)
EXTENDS Reports, SequenceTheorems, FiniteSetTheorems, WellFoundedInduction, TLAPS

Field == {"at", "client", "host", "request", "dev", "got", "again", "answer"}

Looking == {"lookup", "fetch", "store"}
NoLocals == {"new", "trusted", "bump", "splice", "page", "tunnel", "closed", "idle", "authz"}

\* A connection c, when st are the answers stored so far.  At "shows" it knows a series: the
\* one that the request names, or one that was found for its object.
Sound(c, st) ==
    /\ DOMAIN c = Field
    /\ c.at \in NoLocals \union Looking \union {"shows"}
    /\ c.at \in NoLocals <=> c.dev = None
    /\ c.client \in {None} \union Client /\ c.answer \in {None, "allow", "deny"}
    /\ c.host \in {None} \union Host /\ (c.at # "new" => c.host \in Host)
    /\ c.at \in {"new", "trusted", "bump", "splice", "page"} => c.answer = None
    /\ c.at = "authz" => c.request \in Requests
    /\ c.at \in Looking => c.request.kind = "watch" /\ c.request.id \in Object
    /\ c.at = "store" => c.got \in Series \union {Missing}
    /\ c.at = "shows" => \/ c.request.kind = "series" /\ c.got = c.request.id
                         \/ c.request.kind = "watch" /\ <<c.request.id, c.got>> \in st
    /\ c.at = "shows" => c.got \in Series \union {Missing}

Connections(cs, st) == DOMAIN cs = Flow /\ \A f \in Flow : Sound(cs[f], st)

\* What the cache and the history of its answers say of one another.
Remembers ==
    /\ catalog \in [Object -> Series \union {Missing}]
    /\ cache \in [Object -> Cached \union {None}]
    /\ stored \subseteq Object \X (Series \union {Missing})
    /\ \A o \in Object :
          /\ cache[o] = None => \A s : <<o, s>> \notin stored
          /\ cache[o] # None => <<o, cache[o].series>> \in stored

Counted == now \in Nat /\ spent \in Nat /\ "domain" \in DOMAIN db

\* What is shown is a series, to a user there is.
Shown == shows \subseteq db.present.users \X Series

GInv == Connections(conn, stored) /\ Remembers /\ Counted /\ Shown

-----------------------------------------------------------------------------
(* One connection moves.                                                   *)

\* Flow f becomes c; the others stay.
Moves(f, c) == conn' = [conn EXCEPT ![f] = c]

LEMMA Moving ==
    ASSUME NEW cs, NEW st, NEW st_, st \subseteq st_, Connections(cs, st),
           NEW f \in Flow, NEW c, Sound(c, st_)
    PROVE  Connections([cs EXCEPT ![f] = c], st_)
<1>1. ASSUME NEW g \in Flow PROVE Sound([cs EXCEPT ![f] = c][g], st_)
  <2>1. CASE g = f  BY <2>1 DEF Connections
  <2>2. CASE g # f
    <3>1. Sound(cs[g], st) /\ [cs EXCEPT ![f] = c][g] = cs[g]
      BY <2>2 DEF Connections
    <3> QED  BY <3>1 DEF Sound
  <2> QED  BY <2>1, <2>2
<1> QED  BY <1>1 DEF Connections

\* After a TLS rule, the next control point is sound.
LEMMA Goes ==
    ASSUME NEW c, NEW st, Sound(c, st), c.at \in {"trusted", "bump", "splice", "page"},
           NEW at \in NoLocals \ {"authz"}
    PROVE  Sound([c EXCEPT !.at = at], st)
  BY DEF Sound, NoLocals, Looking, Field

\* An answer is sound, and forgets the locals.
LEMMA Answers ==
    ASSUME NEW f \in Flow, NEW st, Sound(conn[f], st), conn[f].at # "new", NEW ok,
           NEW c, c = [conn[f] EXCEPT !.at = "idle", !.dev = None, !.got = None, !.again = FALSE,
                                      !.answer = IF ok THEN "allow" ELSE "deny"]
    PROVE  Sound(c, st) /\ c.at = "idle" /\ c.answer = IF ok THEN "allow" ELSE "deny"
<1>1. /\ DOMAIN c = Field /\ c.at = "idle" /\ c.dev = None
      /\ c.answer = IF ok THEN "allow" ELSE "deny"
      /\ c.client = conn[f].client /\ c.host = conn[f].host
  BY DEF Sound, Field
<1>2. c.answer \in {None, "allow", "deny"}
  BY <1>1
<1>3. c.host \in {None} \union Host /\ c.client \in {None} \union Client /\ c.host \in Host
  BY <1>1 DEF Sound, NoLocals
<1> QED  BY <1>1, <1>2, <1>3 DEF Sound, NoLocals, Looking

\* Finding a domain and healing do not meet.
LEMMA HealedDomain ==
    ASSUME NEW d, "domain" \in DOMAIN d, NEW a
    PROVE  Healed(d, a).domain = d.domain /\ DOMAIN Healed(d, a) = DOMAIN d
  BY DEF Healed

-----------------------------------------------------------------------------
(* The connections keep their shape.                                       *)

\* Flow f moves to a sound connection.
Steps(f) ==
    /\ stored \subseteq stored'
    /\ \E c : Moves(f, c) /\ Sound(c, stored')

\* All connections stay.
Stays == conn' = conn /\ stored' = stored

LEMMA GoSteps ==
    ASSUME GInv, NEW f \in Flow, conn[f].at \in {"trusted", "bump", "splice", "page"},
           NEW at \in NoLocals \ {"authz"},
           Go(f, at), stored' = stored
    PROVE  Steps(f)
<1>1. Sound([conn[f] EXCEPT !.at = at], stored')
  BY Goes DEF GInv, Connections
<1>2. Moves(f, [conn[f] EXCEPT !.at = at])
  BY DEF Go, Moves
<1> QED  BY <1>1, <1>2 DEF Steps

LEMMA AnsweredSteps ==
    ASSUME GInv, NEW f \in Flow, conn[f].at # "new", NEW ok, conn' = Answered(f, ok), stored' = stored
    PROVE  Steps(f)
<1> DEFINE c == [conn[f] EXCEPT !.at = "idle", !.dev = None, !.got = None, !.again = FALSE,
                                !.answer = IF ok THEN "allow" ELSE "deny"]
<1>1. Sound(c, stored')
  BY Answers DEF GInv, Connections
<1>2. Moves(f, c)
  BY DEF Answered, Moves
<1> QED  BY <1>1, <1>2 DEF Steps

LEMMA TlsSteps ==
    ASSUME GInv, NEW f \in Flow,
           Accept(f) \/ AskTrusted(f) \/ AskBump(f) \/ AskSplice(f) \/ AskBlockPage(f) \/ HelperFails(f)
    PROVE  Steps(f)
<1> USE DEF NoLocals
<1>1. stored' = stored
  BY DEF Accept, AskTrusted, AskBump, AskSplice, AskBlockPage, HelperFails, TlsLocal, crVars
<1>2. CASE Accept(f)
  <2>1. PICK a \in Client, host \in Host, at \in {"trusted", "idle"} :
           conn' = [conn EXCEPT ![f] = [NoConn EXCEPT !.at = at, !.client = a, !.host = host]]
    BY <1>2 DEF Accept
  <2>2. Sound([NoConn EXCEPT !.at = at, !.client = a, !.host = host], stored')
    BY NoneAssumption DEF Sound, NoConn, Field, Looking
  <2> QED  BY <1>1, <2>1, <2>2 DEF Steps, Moves
<1>3. CASE AskTrusted(f) \/ AskBump(f) \/ AskSplice(f) \/ AskBlockPage(f) \/ HelperFails(f)
  <2>1. conn[f].at \in {"trusted", "bump", "splice", "page"}
    BY <1>3 DEF AskTrusted, AskBump, AskSplice, AskBlockPage, HelperFails
  <2>2. PICK at \in {"tunnel", "bump", "idle", "splice", "page", "closed"} : Go(f, at)
    <3>1. CASE HelperFails(f)
      BY <3>1, <2>1 DEF HelperFails
    <3>2. CASE AskTrusted(f) \/ AskBump(f) \/ AskSplice(f) \/ AskBlockPage(f)
      BY <3>2 DEF AskTrusted, AskBump, AskSplice, AskBlockPage
    <3> QED  BY <1>3, <3>1, <3>2
  <2> QED  BY <1>1, <2>1, <2>2, GoSteps
<1> QED  BY <1>2, <1>3

LEMMA AskSteps == ASSUME GInv, NEW f \in Flow, Ask(f) PROVE Steps(f)
<1>1. PICK r \in Requests :
         conn' = [conn EXCEPT ![f].at = "authz", ![f].request = r, ![f].answer = None]
  BY DEF Ask
<1> DEFINE c == [conn[f] EXCEPT !.at = "authz", !.request = r, !.answer = None]
<1>2. Sound(c, stored)
  BY DEF GInv, Connections, Ask, Sound, NoLocals, Looking, Field
<1>3. Moves(f, c) /\ stored' = stored
  BY <1>1 DEF Moves, Ask, TlsLocal, crVars, GInv, Connections
<1> QED  BY <1>2, <1>3 DEF Steps

\* What an answer of authz does to a connection: it ends the request, or the series is
\* looked up, or known from the request.
LEMMA AuthzMoves ==
    ASSUME GInv, NEW f \in Flow, NEW dev, NEW d, dev # None, Decide(f, d, dev)
    PROVE  \/ \E ok : conn' = Answered(f, ok)
           \/ /\ conn[f].request.kind = "series"
              /\ conn' = [conn EXCEPT ![f].at = "shows", ![f].dev = dev, ![f].got = conn[f].request.id]
           \/ /\ conn[f].request.kind = "watch"
              /\ conn' = [conn EXCEPT ![f].at = "lookup", ![f].dev = dev]
<1>1. ASSUME NEW row, DecideCrunchyroll(f, dev, row)
      PROVE  \/ \E ok : conn' = Answered(f, ok)
             \/ /\ conn[f].request.kind = "series"
                /\ conn' = [conn EXCEPT ![f].at = "shows", ![f].dev = dev, ![f].got = conn[f].request.id]
             \/ /\ conn[f].request.kind = "watch"
                /\ conn' = [conn EXCEPT ![f].at = "lookup", ![f].dev = dev]
  BY <1>1 DEF DecideCrunchyroll, Silent, UserAnswer
<1> QED  BY <1>1 DEF Decide, Answer, Silent

LEMMA AuthzSteps == ASSUME GInv, NEW f \in Flow, Authz(f) \/ AuthzFails(f) PROVE Steps(f)
<1>1. stored' = stored
  BY DEF Authz, AuthzFails, TlsLocal, crVars
<1>2. CASE \E ok : conn' = Answered(f, ok)
  BY <1>1, <1>2, AnsweredSteps DEF Authz, AuthzFails
<1>3. CASE Authz(f) /\ ~\E ok : conn' = Answered(f, ok)
  <2>1. PICK dev : /\ dev # None
                   /\ \/ /\ conn[f].request.kind = "series"
                         /\ conn' = [conn EXCEPT ![f].at = "shows", ![f].dev = dev, ![f].got = conn[f].request.id]
                      \/ /\ conn[f].request.kind = "watch"
                         /\ conn' = [conn EXCEPT ![f].at = "lookup", ![f].dev = dev]
    BY <1>3, AuthzMoves DEF Authz, Answer, Silent
  <2>2. Sound(conn[f], stored) /\ conn[f].at = "authz"
    BY <1>3 DEF GInv, Connections, Authz
  <2>3. /\ conn[f].request.kind = "watch" => conn[f].request.id \in Object
        /\ conn[f].request.kind = "series" => conn[f].request.id \in Series
    BY <2>2, RequestsAssumption DEF Sound
  <2>4. CASE /\ conn[f].request.kind = "series"
             /\ conn' = [conn EXCEPT ![f].at = "shows", ![f].dev = dev, ![f].got = conn[f].request.id]
    <3> DEFINE c == [conn[f] EXCEPT !.at = "shows", !.dev = dev, !.got = conn[f].request.id]
    <3>1. Sound(c, stored')
      BY <1>1, <2>1, <2>2, <2>3, <2>4 DEF Sound, NoLocals, Looking, Field
    <3>2. Moves(f, c)
      BY <2>4 DEF Moves, GInv, Connections
    <3> QED  BY <1>1, <3>1, <3>2 DEF Steps
  <2>5. CASE /\ conn[f].request.kind = "watch"
             /\ conn' = [conn EXCEPT ![f].at = "lookup", ![f].dev = dev]
    <3> DEFINE c == [conn[f] EXCEPT !.at = "lookup", !.dev = dev]
    <3>1. Sound(c, stored')
      BY <1>1, <2>1, <2>2, <2>3, <2>5 DEF Sound, NoLocals, Looking, Field
    <3>2. Moves(f, c)
      BY <2>5 DEF Moves, GInv, Connections
    <3> QED  BY <1>1, <3>1, <3>2 DEF Steps
  <2> QED  BY <2>1, <2>4, <2>5
<1> QED  BY <1>2, <1>3 DEF AuthzFails, Silent

\* ServeStale ends the request or shows what the cache has.
LEMMA StaleSteps ==
    ASSUME GInv, NEW f \in Flow, conn[f].at = "fetch", ServeStale(f), stored' = stored
    PROVE  Steps(f)
<1> DEFINE hit == cache[conn[f].request.id]
           c == [conn[f] EXCEPT !.at = "shows", !.got = hit.series]
<1>1. CASE conn' = Answered(f, FALSE)
  BY <1>1, AnsweredSteps
<1>2. CASE hit # None /\ conn' = [conn EXCEPT ![f].at = "shows", ![f].got = hit.series]
  <2>1. Sound(conn[f], stored) /\ conn[f].request.id \in Object /\ conn[f].request.kind = "watch"
    BY DEF GInv, Connections, Sound, Looking
  <2>2. <<conn[f].request.id, hit.series>> \in stored /\ hit.series \in Series \union {Missing}
    BY <1>2, <2>1 DEF GInv, Remembers
  <2>3. Sound(c, stored')
    BY <2>1, <2>2 DEF Sound, NoLocals, Looking, Field
  <2>4. Moves(f, c)
    BY <1>2 DEF Moves, GInv, Connections
  <2> QED  BY <2>3, <2>4 DEF Steps
<1> QED  BY <1>1, <1>2 DEF ServeStale

LEMMA ResolveSteps ==
    ASSUME GInv, NEW f \in Flow,
           \/ CacheGet(f) \/ ResolutionFails(f) \/ FetchToken(f) \/ FetchObjects(f) \/ Unauthorised(f)
           \/ CachePut(f) \/ AskShows(f) \/ RevokeToken(f)
    PROVE  Steps(f) \/ Stays
<1> DEFINE hit == cache[conn[f].request.id]
<1>1. Sound(conn[f], stored) /\ DOMAIN conn = Flow
  BY DEF GInv, Connections
<1>2. conn[f].at \in Looking => conn[f].request.id \in Object /\ conn[f].request.kind = "watch"
  BY <1>1 DEF Sound
<1>3. CASE CacheGet(f)
  <2>1. CASE hit # None /\ conn' = [conn EXCEPT ![f].at = "shows", ![f].got = hit.series]
    <3> DEFINE c == [conn[f] EXCEPT !.at = "shows", !.got = hit.series]
    <3>1. /\ <<conn[f].request.id, hit.series>> \in stored /\ stored' = stored
          /\ hit.series \in Series \union {Missing}
      BY <1>2, <1>3, <2>1 DEF GInv, Remembers, CacheGet, Looking
    <3>2. Sound(c, stored')
      BY <1>1, <1>2, <1>3, <3>1 DEF CacheGet, Sound, NoLocals, Looking, Field
    <3> QED  BY <1>1, <2>1, <3>1, <3>2 DEF Steps, Moves
  <2>2. CASE conn' = [conn EXCEPT ![f].at = "fetch", ![f].again = FALSE]
    <3> DEFINE c == [conn[f] EXCEPT !.at = "fetch", !.again = FALSE]
    <3>1. Sound(c, stored') /\ stored' = stored
      BY <1>1, <1>2, <1>3 DEF CacheGet, Sound, NoLocals, Looking, Field
    <3> QED  BY <1>1, <2>2, <3>1 DEF Steps, Moves
  <2> QED  BY <1>3, <2>1, <2>2 DEF CacheGet
<1>4. CASE ResolutionFails(f)
  BY <1>4, StaleSteps DEF ResolutionFails
<1>5. CASE Unauthorised(f)
  <2>1. CASE ServeStale(f)
    BY <1>5, <2>1, StaleSteps DEF Unauthorised
  <2>2. CASE conn' = [conn EXCEPT ![f].again = TRUE]
    <3> DEFINE c == [conn[f] EXCEPT !.again = TRUE]
    <3>1. Sound(c, stored') /\ stored' = stored
      BY <1>1, <1>2, <1>5 DEF Unauthorised, Sound, NoLocals, Looking, Field
    <3> QED  BY <1>1, <2>2, <3>1 DEF Steps, Moves
  <2> QED  BY <1>5, <2>1, <2>2 DEF Unauthorised
<1>6. CASE FetchToken(f) \/ RevokeToken(f)
  BY <1>6 DEF FetchToken, RevokeToken, SeriesLocal, Stays
<1>7. CASE FetchObjects(f)
  <2> DEFINE c == [conn[f] EXCEPT !.at = "store", !.got = catalog[conn[f].request.id]]
  <2>1. catalog[conn[f].request.id] \in Series \union {Missing}
    BY <1>2, <1>7 DEF FetchObjects, Looking, GInv, Remembers
  <2>2. Sound(c, stored') /\ stored' = stored
    BY <1>1, <1>2, <1>7, <2>1 DEF FetchObjects, Sound, NoLocals, Looking, Field
  <2>3. Moves(f, c)
    BY <1>1, <1>7 DEF FetchObjects, Moves
  <2> QED  BY <2>2, <2>3 DEF Steps
<1>8. CASE CachePut(f)
  <2> DEFINE c == [conn[f] EXCEPT !.at = "shows"]
  <2>1. stored' = stored \union {<<conn[f].request.id, conn[f].got>>}
    BY <1>8 DEF CachePut
  <2>2. Sound(c, stored')
    BY <1>1, <1>2, <1>8, <2>1 DEF CachePut, Sound, NoLocals, Looking, Field
  <2>3. Moves(f, c)
    BY <1>8 DEF CachePut, Go, Moves
  <2> QED  BY <2>1, <2>2, <2>3 DEF Steps
<1>9. CASE AskShows(f)
  BY <1>9, AnsweredSteps DEF AskShows, UserAnswer, crVars
<1> QED  BY <1>3, <1>4, <1>5, <1>6, <1>7, <1>8, <1>9

\* A step of a flow moves that flow alone, to a sound connection, or leaves it.
LEMMA FlowSteps ==
    ASSUME GInv, NEW f \in Flow, Accept(f) \/ Ask(f) \/ Squid(f) \/ RevokeToken(f)
    PROVE  Steps(f) \/ Stays
  BY TlsSteps, AskSteps, AuthzSteps, ResolveSteps DEF Squid

\* No other step touches a connection.
LEMMA OthersStay ==
    ASSUME NEW T, Republish \/ ApproveShow \/ RemoveShow \/ SetBlockPageMode \/ GateHousehold(T)
    PROVE  Stays
  BY DEF Republish, ApproveShow, RemoveShow, SetBlockPageMode, GateHousehold, crVars, Stays

-----------------------------------------------------------------------------
(* The other variables.                                                    *)

LEMMA CacheKeeps ==
    ASSUME GInv, NEW T, GateNext(T) PROVE Remembers'
<1>1. CASE UNCHANGED <<catalog, cache, stored>>
  BY <1>1 DEF GInv, Remembers
<1>2. CASE Republish
  <2>1. PICK o \in Object, s \in Series \union {Missing} : catalog' = [catalog EXCEPT ![o] = s]
    BY <1>2 DEF Republish
  <2>2. cache' = cache /\ stored' = stored
    BY <1>2 DEF Republish
  <2> QED  BY <2>1, <2>2 DEF GInv, Remembers
<1>3. ASSUME NEW f \in Flow, CachePut(f) PROVE Remembers'
  <2> DEFINE o == conn[f].request.id
             found == conn[f].got
             row == [series |-> found,
                     expires |-> now + (IF found = Missing THEN NegativeTtl ELSE PositiveTtl)]
  <2>1. o \in Object /\ found \in Series \union {Missing}
    BY <1>3 DEF GInv, Connections, Sound, CachePut, Looking
  <2>2. /\ catalog' = catalog
        /\ cache' = [cache EXCEPT ![o] = row]
        /\ stored' = stored \union {<<o, found>>}
    BY <1>3 DEF CachePut, SeriesLocal
  <2>3. row \in Cached
    BY <2>1, TimeAssumption DEF Cached, GInv, Counted
  <2>4. row # None /\ row.series = found
    BY <2>3, NoneAssumption
  <2> HIDE DEF row, found, o
  <2> QED  BY <2>1, <2>2, <2>3, <2>4 DEF GInv, Remembers
<1>4. \/ UNCHANGED <<catalog, cache, stored>> \/ Republish \/ \E f \in Flow : CachePut(f)
  <2>1. ASSUME NEW f \in Flow, Accept(f) \/ Ask(f) \/ Squid(f) \/ RevokeToken(f), ~CachePut(f)
        PROVE  UNCHANGED <<catalog, cache, stored>>
    BY <2>1 DEF Squid, Accept, AskTrusted, AskBump, AskSplice, AskBlockPage, HelperFails, Ask, Authz,
         AuthzFails, CacheGet, ResolutionFails, FetchToken, FetchObjects, Unauthorised, AskShows,
         RevokeToken, TlsLocal, SeriesLocal, crVars
  <2> QED
    BY <2>1 DEF GateNext, ApproveShow, RemoveShow, SetBlockPageMode, GateHousehold, crVars
<1> QED  BY <1>1, <1>2, <1>3, <1>4

\* The routes and their statements change the rows of the tables and not the time.
LEMMA RoutesKeep ==
    ASSUME NEW t, DomainRoute(t) \/ PeopleRoute(t) \/ Statement(t)
    PROVE  now' = now /\ ("domain" \in DOMAIN db => "domain" \in DOMAIN db')
<1>1. CASE Statement(t)
  BY <1>1 DEF Statement, Exec
<1>2. CASE PeopleRoute(t)
  BY <1>2 DEF PeopleRoute, DeletePerson, SaveDevice, Request
<1>3. CASE DomainRoute(t)
  <2>1. PICK i \in DOMAIN db.domain, p \in Pattern, m \in Modes, a \in Audiences, path \in Paths :
        \/ AddDomain(t, i, p, m, a)
        \/ \E u \in db.present.users : AddDomainFromUrl(t, i, p, u, path)
        \/ DeleteDomain(t, i) \/ UpdateDomain(t, i, m) \/ UpdateDomainAccess(t, i, a)
        \/ AddPath(t, i, path) \/ DeletePath(t, i, path)
        \/ AddAdguardAllowlist(t, p, a) \/ DeleteAdguardAllowlist(t, p)
    BY <1>3 DEF DomainRoute
  <2>2. CASE AddDomain(t, i, p, m, a)
    BY <2>2 DEF AddDomain, Request
  <2>3. CASE \E u \in db.present.users : AddDomainFromUrl(t, i, p, u, path)
    BY <2>3 DEF AddDomainFromUrl, Request
  <2>4. CASE DeleteDomain(t, i) \/ UpdateDomain(t, i, m) \/ UpdateDomainAccess(t, i, a)
    BY <2>4 DEF DeleteDomain, UpdateDomain, UpdateDomainAccess, Request
  <2>5. CASE \/ AddPath(t, i, path) \/ DeletePath(t, i, path)
             \/ AddAdguardAllowlist(t, p, a) \/ DeleteAdguardAllowlist(t, p)
    BY <2>5 DEF AddPath, DeletePath, AddAdguardAllowlist, DeleteAdguardAllowlist, Request
  <2> QED  BY <2>1, <2>2, <2>3, <2>4, <2>5
<1> QED  BY <1>1, <1>2, <1>3

LEMMA CountedKeeps ==
    ASSUME GInv, NEW T, GateNext(T) PROVE Counted'
<1> USE DEF GInv, Counted
<1>1. CASE \E f \in Flow : Accept(f) \/ Ask(f) \/ Squid(f) \/ RevokeToken(f)
  <2>1. now' = now /\ (spent' = spent \/ spent' = spent + 1)
    BY <1>1 DEF Squid, Accept, AskTrusted, AskBump, AskSplice, AskBlockPage, HelperFails, Ask, Authz,
         AuthzFails, CacheGet, ResolutionFails, FetchToken, FetchObjects, Unauthorised, CachePut, AskShows,
         RevokeToken, TlsLocal, SeriesLocal, householdVars, Spend
  <2>2. db' = db \/ \E a : db' = Healed(db, a)
    BY <1>1 DEF Squid, Accept, AskTrusted, AskBump, AskSplice, AskBlockPage, HelperFails, Ask, Authz,
         AuthzFails, CacheGet, ResolutionFails, FetchToken, FetchObjects, Unauthorised, CachePut, AskShows,
         RevokeToken, TlsLocal, SeriesLocal, householdVars
  <2> QED  BY <2>1, <2>2, HealedDomain
<1>2. CASE Republish \/ ApproveShow \/ RemoveShow \/ SetBlockPageMode
  BY <1>2 DEF Republish, ApproveShow, RemoveShow, SetBlockPageMode, householdVars, Spend
<1>3. CASE GateHousehold(T)
  <2>1. CASE Tick /\ Spend
    BY <2>1 DEF Tick, Spend
  <2>2. CASE ~(Tick /\ Spend)
    BY <1>3, <2>2, RoutesKeep DEF GateHousehold
  <2> QED  BY <2>1, <2>2
<1> QED  BY <1>1, <1>2, <1>3 DEF GateNext

\* Nor healing and the users.
LEMMA HealedUsers == ASSUME NEW d, NEW a PROVE Healed(d, a).present.users = d.present.users
  BY DEF Healed

LEMMA ShowsKeep ==
    ASSUME GInv, NEW T, GateNext(T) PROVE Shown'
<1>1. shows \subseteq db.present.users \X Series
  BY DEF GInv, Shown
<1>2. CASE ApproveShow
  <2>1. PICK s \in Series, U \in Sets(db.present.users) : shows' = shows \union (U \X {s})
    BY <1>2 DEF ApproveShow
  <2>2. U \subseteq db.present.users /\ db' = db
    BY <1>2 DEF ApproveShow, Sets, householdVars
  <2> QED  BY <1>1, <2>1, <2>2 DEF Shown
<1>3. CASE GateHousehold(T)
  <2>1. shows' = {x \in shows : x[1] \in db'.present.users}
    BY <1>3 DEF GateHousehold, ShowsOf
  <2> QED  BY <1>1, <2>1 DEF Shown
<1>4. CASE \E f \in Flow : Accept(f) \/ Ask(f) \/ Squid(f) \/ RevokeToken(f)
  <2>1. shows' = shows
    BY <1>4 DEF Squid, Accept, AskTrusted, AskBump, AskSplice, AskBlockPage, HelperFails, Ask, Authz,
         AuthzFails, CacheGet, ResolutionFails, FetchToken, FetchObjects, Unauthorised, CachePut, AskShows,
         RevokeToken, TlsLocal, SeriesLocal
  <2>2. db' = db \/ \E a : db' = Healed(db, a)
    BY <1>4 DEF Squid, Accept, AskTrusted, AskBump, AskSplice, AskBlockPage, HelperFails, Ask, Authz,
         AuthzFails, CacheGet, ResolutionFails, FetchToken, FetchObjects, Unauthorised, CachePut, AskShows,
         RevokeToken, TlsLocal, SeriesLocal, householdVars
  <2> QED  BY <1>1, <2>1, <2>2, HealedUsers DEF Shown
<1>5. CASE Republish \/ RemoveShow \/ SetBlockPageMode
  <2>1. shows' \subseteq shows /\ db' = db
    BY <1>5 DEF Republish, RemoveShow, SetBlockPageMode, householdVars
  <2> QED  BY <1>1, <2>1 DEF Shown
<1> QED  BY <1>2, <1>3, <1>4, <1>5 DEF GateNext

-----------------------------------------------------------------------------
(* The invariant.                                                          *)

LEMMA InitInv == GateInit => GInv
<1> SUFFICES ASSUME GateInit PROVE GInv
  OBVIOUS
<1>1. Connections(conn, stored)
  BY NoneAssumption DEF GateInit, NoConn, Connections, Sound, NoLocals, Looking, Field
<1>2. Remembers
  <2>1. stored = {<<o, cache[o].series>> : o \in {x \in Object : cache[x] # None}}
    BY DEF GateInit
  <2>2. \A o \in Object : cache[o] # None => cache[o].series \in Series \union {Missing}
    BY DEF GateInit, Prepared, Cached
  <2> QED  BY <2>1, <2>2 DEF GateInit, Prepared, Remembers
<1>3. Counted /\ Shown
  BY DEF GateInit, Prepared, Tables, Counted, Shown
<1> QED  BY <1>1, <1>2, <1>3 DEF GInv

LEMMA ConnectionsKeep ==
    ASSUME GInv, NEW T, GateNext(T) PROVE Connections(conn', stored')
<1>1. CASE Stays
  BY <1>1 DEF Stays, GInv
<1>2. ASSUME NEW f \in Flow, Steps(f) PROVE Connections(conn', stored')
  <2>1. PICK c : conn' = [conn EXCEPT ![f] = c] /\ Sound(c, stored') /\ stored \subseteq stored'
    BY <1>2 DEF Steps, Moves
  <2>2. Connections([conn EXCEPT ![f] = c], stored')
    BY <2>1, Moving DEF GInv
  <2> QED  BY <2>1, <2>2
<1> QED  BY <1>1, <1>2, FlowSteps, OthersStay DEF GateNext

LEMMA NextInv == GInv /\ [GateNext(Thread)]_gateVars => GInv'
<1> SUFFICES ASSUME GInv, [GateNext(Thread)]_gateVars PROVE GInv'
  OBVIOUS
<1>1. CASE UNCHANGED gateVars
  BY <1>1 DEF gateVars, householdVars, crVars, GInv, Remembers, Counted, Shown
<1>2. CASE GateNext(Thread)
  BY <1>2, ConnectionsKeep, CacheKeeps, CountedKeeps, ShowsKeep DEF GInv
<1> QED  BY <1>1, <1>2

LEMMA Invariance == GateSpec => []GInv
  BY InitInv, NextInv, PTL DEF GateSpec

-----------------------------------------------------------------------------
(* Who moves.                                                              *)

\* A connection only changes in its own steps.
LEMMA Own ==
    ASSUME GInv, NEW f \in Flow, NEW T, GateNext(T), conn'[f] # conn[f]
    PROVE  Accept(f) \/ Ask(f) \/ Squid(f) \/ RevokeToken(f)
<1>1. ~Stays
  BY DEF Stays
<1>2. PICK g \in Flow : Accept(g) \/ Ask(g) \/ Squid(g) \/ RevokeToken(g)
  BY <1>1, OthersStay DEF GateNext
<1>3. Steps(g)
  BY <1>1, <1>2, FlowSteps
<1>4. PICK c : conn' = [conn EXCEPT ![g] = c]
  BY <1>3 DEF Steps, Moves
<1>5. g = f
  BY <1>4 DEF GInv, Connections
<1> QED  BY <1>2, <1>5

\* What a flow's fields become.
LEMMA Becomes ==
    ASSUME GInv, NEW f \in Flow
    PROVE  /\ \A at : Go(f, at) => conn'[f].at = at
           /\ \A ok : conn' = Answered(f, ok) =>
                 conn'[f].at = "idle" /\ conn'[f].answer = IF ok THEN "allow" ELSE "deny"
<1> USE DEF GInv, Connections
<1>1. DOMAIN conn[f] = Field /\ f \in DOMAIN conn
  BY DEF Sound
<1>2. ASSUME NEW at, Go(f, at) PROVE conn'[f].at = at
  BY <1>1, <1>2 DEF Go, Field
<1>3. ASSUME NEW ok, conn' = Answered(f, ok)
      PROVE  conn'[f].at = "idle" /\ conn'[f].answer = IF ok THEN "allow" ELSE "deny"
  BY <1>1, <1>3 DEF Answered, Field
<1> QED  BY <1>2, <1>3

-----------------------------------------------------------------------------
(* Tunnels.                                                                *)

\* The tables admit flow f's connection now.
Owed(f) ==
    \/ Mode(db', conn[f].host) = "trusted"
    \/ /\ Mode(db', conn[f].host) \in {None, "splice"}
       /\ Device(db', conn[f].client) # None
       /\ Admits(db', Device(db', conn[f].client), conn[f].host)

LEMMA TunnelOwed ==
    ASSUME GInv, [GateNext(Thread)]_gateVars, NEW f \in Flow,
           conn[f].at # "tunnel", conn'[f].at = "tunnel"
    PROVE  Owed(f)
<1>1. conn'[f] # conn[f]
  OBVIOUS
<1>2. Accept(f) \/ Ask(f) \/ Squid(f) \/ RevokeToken(f)
  BY <1>1, Own DEF gateVars
<1>3. DOMAIN conn[f] = Field /\ f \in DOMAIN conn
  BY DEF GInv, Connections, Sound
<1>4. CASE AskTrusted(f)
  BY <1>4, Becomes DEF AskTrusted, Owed
<1>5. CASE AskSplice(f)
  <2>1. db' = Healed(db, conn[f].client) /\ Mode(db, conn[f].host) \in {None, "splice"}
        /\ Device(db', conn[f].client) # None
        /\ Admits(db', Device(db', conn[f].client), conn[f].host)
    BY <1>5, Becomes DEF AskSplice
  <2>2. Mode(db', conn[f].host) = Mode(db, conn[f].host)
    BY <2>1, HealedDomain DEF Mode, GInv, Counted
  <2> QED  BY <2>1, <2>2 DEF Owed
<1>6. CASE AskBump(f) \/ AskBlockPage(f) \/ HelperFails(f)
  BY <1>6, Becomes DEF AskBump, AskBlockPage, HelperFails
<1>7. CASE Accept(f) \/ Ask(f)
  BY <1>3, <1>7 DEF Accept, Ask, NoConn, Field
<1>8. CASE Authz(f) \/ AuthzFails(f)
  <2>1. ~\E ok : conn' = Answered(f, ok)
    BY Becomes
  <2>2. PICK dev : \/ conn' = [conn EXCEPT ![f].at = "shows", ![f].dev = dev, ![f].got = conn[f].request.id]
                   \/ conn' = [conn EXCEPT ![f].at = "lookup", ![f].dev = dev]
    BY <1>8, <2>1, AuthzMoves DEF Authz, AuthzFails, Answer, Silent
  <2> QED  BY <1>3, <2>2 DEF Field
<1>9. CASE \/ CacheGet(f) \/ ResolutionFails(f) \/ FetchToken(f) \/ FetchObjects(f) \/ Unauthorised(f)
           \/ CachePut(f) \/ AskShows(f) \/ RevokeToken(f)
  BY <1>1, <1>3, <1>9, Becomes DEF CacheGet, ResolutionFails, FetchToken, FetchObjects, Unauthorised, CachePut,
         AskShows, UserAnswer, RevokeToken, ServeStale, SeriesLocal, Field
<1> QED  BY <1>2, <1>4, <1>5, <1>6, <1>7, <1>8, <1>9 DEF Squid

\* However the tables change between Squid's questions and whichever helpers fail, a
\* connection only becomes a tunnel when the tables of that moment leave its host undecrypted
\* and admit its device (sni_helper's handlers, squid.conf.template).
THEOREM TunnelsAreAlwaysOwed == GateSpec => TunnelsAreOwed
<1>1. GInv /\ [GateNext(Thread)]_gateVars =>
        [\A f \in Flow : conn[f].at # "tunnel" /\ conn'[f].at = "tunnel" =>
          \/ Mode(db', conn[f].host) = "trusted"
          \/ /\ Mode(db', conn[f].host) \in {None, "splice"}
             /\ Device(db', conn[f].client) # None
             /\ Admits(db', Device(db', conn[f].client), conn[f].host)]_gateVars
  BY TunnelOwed DEF Owed
<1> QED  BY <1>1, Invariance, PTL DEF GateSpec, TunnelsAreOwed

-----------------------------------------------------------------------------
(* Shows.                                                                  *)

\* The fields that survive a healing decide.
LEMMA HealedFind ==
    ASSUME GInv, NEW a, NEW host
    PROVE  FindDomain(Healed(db, a).domain, host) = FindDomain(db.domain, host)
  BY HealedDomain DEF GInv, Counted

\* On a host of shows, authz itself lets no episode and no series page through.
LEMMA AuthzRefers ==
    ASSUME GInv, NEW f \in Flow, Authz(f), OfShows(db, conn[f].host),
           conn[f].request.kind \in {"watch", "series"}
    PROVE  ~(conn'[f].at = "idle" /\ conn'[f].answer = "allow")
<1> DEFINE a == conn[f].client
           d == Healed(db, a)
           dev == Device(d, a)
           i == FindDomain(d.domain, conn[f].host)
<1>0. DOMAIN conn[f] = Field /\ f \in DOMAIN conn
  BY DEF GInv, Connections, Sound
<1>1. i # None /\ d.domain[i].mode = "bump" /\ d.domain[i].series
  BY HealedDomain DEF OfShows, GInv, Counted
<1>2. CASE conn' = Answered(f, FALSE)
  BY <1>2, Becomes
<1>3. CASE Decide(f, d, dev)
  <2>1. conn' = Answered(f, FALSE) \/ DecideCrunchyroll(f, dev, d.domain[i])
    <3> HIDE DEF d, dev
    <3> QED  BY <1>1, <1>3 DEF Decide, Answer, Silent
  <2>2. CASE DecideCrunchyroll(f, dev, d.domain[i])
    <3>1. \/ conn' = [conn EXCEPT ![f].at = "shows", ![f].dev = dev, ![f].got = conn[f].request.id]
          \/ conn' = [conn EXCEPT ![f].at = "lookup", ![f].dev = dev]
      BY <2>2 DEF DecideCrunchyroll
    <3> QED  BY <1>0, <3>1 DEF Field
  <2> QED  BY <1>2, <2>1, <2>2
<1> QED  BY <1>2, <1>3 DEF Authz, Answer, Silent

LEMMA ShowCurrent ==
    ASSUME GInv, [GateNext(Thread)]_gateVars, NEW f \in Flow,
           conn[f].at # "idle", conn'[f].at = "idle", conn'[f].answer = "allow",
           conn[f].request.kind \in {"watch", "series"},
           conn[f].at = "authz" => OfShows(db, conn[f].host)
    PROVE  \E s \in Series :
              /\ conn[f].dev # None
              /\ <<conn[f].dev.user, s>> \in shows
              /\ IF conn[f].request.kind = "series" THEN s = conn[f].request.id
                 ELSE <<conn[f].request.id, s>> \in stored
<1>1. conn'[f] # conn[f]
  OBVIOUS
<1>2. Accept(f) \/ Ask(f) \/ Squid(f) \/ RevokeToken(f)
  BY <1>1, Own DEF gateVars
<1>3. Sound(conn[f], stored) /\ f \in DOMAIN conn
  BY DEF GInv, Connections
<1>4. DOMAIN conn[f] = Field
  BY <1>3 DEF Sound
<1>5. CASE AskShows(f)
  <2>1. <<conn[f].dev.user, conn[f].got>> \in shows
    <3>1. conn' = Answered(f, <<conn[f].dev.user, conn[f].got>> \in shows)
      BY <1>5 DEF AskShows, UserAnswer
    <3> QED  BY <1>3, <1>4, <3>1 DEF Answered, Field
  <2>2. conn[f].got \in Series
    BY <2>1 DEF GInv, Shown
  <2>3. conn[f].dev # None
    BY <1>3, <1>5 DEF AskShows, Sound, NoLocals
  <2> QED  BY <1>3, <1>5, <2>1, <2>2, <2>3 DEF AskShows, Sound
<1>6. CASE Authz(f)
  BY <1>6, AuthzRefers DEF Authz
<1>7. CASE AuthzFails(f)
  BY <1>7, Becomes DEF AuthzFails, Silent
<1>8. CASE Accept(f) \/ Ask(f)
  BY <1>3, <1>4, <1>8, NoneAssumption DEF Accept, Ask, NoConn, Field
<1>9. CASE AskTrusted(f) \/ AskBump(f) \/ AskSplice(f) \/ AskBlockPage(f) \/ HelperFails(f)
  <2>1. conn[f].answer # "allow"
    <3>1. conn[f].at \in {"trusted", "bump", "splice", "page"}
      BY <1>9 DEF AskTrusted, AskBump, AskSplice, AskBlockPage, HelperFails
    <3> QED  BY <1>3, <3>1, NoneAssumption DEF Sound
  <2>2. \E at : Go(f, at)
    BY <1>9 DEF AskTrusted, AskBump, AskSplice, AskBlockPage, HelperFails
  <2>3. conn'[f].answer = conn[f].answer
    BY <1>3, <1>4, <2>2 DEF Go, Field
  <2> QED  BY <2>1, <2>3
<1>10. CASE \/ CacheGet(f) \/ ResolutionFails(f) \/ FetchToken(f) \/ FetchObjects(f) \/ Unauthorised(f)
            \/ CachePut(f) \/ RevokeToken(f)
  BY <1>1, <1>3, <1>4, <1>10, Becomes DEF CacheGet, ResolutionFails, FetchToken, FetchObjects, Unauthorised,
        CachePut, RevokeToken, ServeStale, SeriesLocal, Field
<1> QED  BY <1>2, <1>5, <1>6, <1>7, <1>8, <1>9, <1>10 DEF Squid

\* An episode plays, and a series page shows, only for a user who has the show when the
\* answer is given, whatever the cache says and whoever edits meanwhile (_decide_crunchyroll,
\* SeriesResolver.resolve).
THEOREM ShowsAreAlwaysCurrent == GateSpec => ShowsAreCurrent
<1>1. GInv /\ [GateNext(Thread)]_gateVars =>
        [\A f \in Flow :
          /\ conn[f].at # "idle" /\ conn'[f].at = "idle" /\ conn'[f].answer = "allow"
          /\ conn[f].request.kind \in {"watch", "series"}
          /\ conn[f].at = "authz" => OfShows(db, conn[f].host)
          =>  \E s \in Series :
                /\ conn[f].dev # None
                /\ <<conn[f].dev.user, s>> \in shows
                /\ IF conn[f].request.kind = "series" THEN s = conn[f].request.id
                   ELSE <<conn[f].request.id, s>> \in stored]_gateVars
  BY ShowCurrent
<1> QED  BY <1>1, Invariance, PTL DEF GateSpec, ShowsAreCurrent

-----------------------------------------------------------------------------
(* Unresolved objects.                                                     *)

\* Only an object without an answer, or with the answer that it has no series, fails.
LEMMA UnknownFails ==
    ASSUME GInv, [GateNext(Thread)]_gateVars, NEW f \in Flow, NEW r \in log' \ log,
           conn[f].at = "fetch", conn'[f].at = "idle"
    PROVE  \/ <<conn[f].request.id, Missing>> \in stored
           \/ \A s \in Series : <<conn[f].request.id, s>> \notin stored
<1> DEFINE hit == cache[conn[f].request.id]
<1>1. Accept(f) \/ Ask(f) \/ Squid(f) \/ RevokeToken(f)
  BY Own DEF gateVars
<1>2. conn[f].request.id \in Object /\ DOMAIN conn[f] = Field /\ f \in DOMAIN conn
  BY DEF GInv, Connections, Sound, Looking
<1>3. CASE ServeStale(f)
  <2>1. ~(hit # None /\ hit.series # Missing)
    BY <1>2, <1>3 DEF ServeStale, Field
  <2> QED  BY <1>2, <2>1 DEF GInv, Remembers
<1>4. CASE AuthzFails(f)
  BY <1>4 DEF AuthzFails, Silent
<1>5. CASE ResolutionFails(f) \/ FetchToken(f) \/ FetchObjects(f) \/ Unauthorised(f) \/ RevokeToken(f)
  BY <1>2, <1>3, <1>5 DEF ResolutionFails, FetchToken, FetchObjects, Unauthorised, RevokeToken, SeriesLocal, Field
<1> QED
  BY <1>1, <1>4, <1>5 DEF Squid, Accept, Ask, AskTrusted, AskBump, AskSplice, AskBlockPage, HelperFails,
       Authz, CacheGet, CachePut, AskShows

\* An object that was resolved to a series is never refused as unresolved, however long ago
\* that was, unless Crunchyroll has also said that it has none (SeriesResolver.resolve).
THEOREM OnlyUnknownObjectsFail == GateSpec => OnlyUnknownFailsClosed
<1>1. GInv /\ [GateNext(Thread)]_gateVars =>
        [\A f \in Flow, r \in log' \ log :
          /\ r.reason = "unresolved" /\ conn[f].at = "fetch" /\ conn'[f].at = "idle"
          =>  \/ <<conn[f].request.id, Missing>> \in stored
              \/ \A s \in Series : <<conn[f].request.id, s>> \notin stored]_gateVars
  BY UnknownFails
<1> QED  BY <1>1, Invariance, PTL DEF GateSpec, OnlyUnknownFailsClosed

-----------------------------------------------------------------------------
(* Refusals.                                                               *)

\* The report has a row like the one that was to be written.
LEMMA Logged ==
    ASSUME now \in Nat, NEW rows, NEW row, row.ts = now
    PROVE  \E r \in LogAccess(rows, row) :
              /\ r.allowed = row.allowed /\ r.host = row.host
              /\ r.who.name = row.who.name /\ r.ts >= now - DedupeWindow
<1>1. now >= now - DedupeWindow
  BY TimeAssumption
<1> QED  BY <1>1 DEF LogAccess

\* The fields of a row that the property asks for.
LEMMA RowFields ==
    ASSUME NEW f, NEW dev, NEW host, NEW path, NEW series, NEW ok, NEW reason
    PROVE  LET row == Row(dev, host, path, series, ok, reason)
               user == UserRow(f, dev, series, ok, reason)
           IN  /\ row.ts = now /\ row.allowed = ok /\ row.host = host /\ row.who = Who(dev)
               /\ user.ts = now /\ user.allowed = ok /\ user.host = conn[f].host
               /\ user.who.name = Who(dev).name
  BY DEF Row, UserRow, Who

OnRecord(f, dev) ==
    \E r \in log' : /\ ~r.allowed /\ r.host = conn[f].host
                    /\ r.who.name = Who(dev).name /\ r.ts >= now - DedupeWindow

\* Rows that a refusal writes put it on record.
LEMMA Recorded ==
    ASSUME now \in Nat, NEW f, NEW dev, NEW path, NEW series, NEW ok, NEW reason, ~ok,
           \/ log' = LogAccess(log, Row(dev, conn[f].host, path, series, ok, reason))
           \/ log' = LogAccess(log, UserRow(f, dev, series, ok, reason))
    PROVE  OnRecord(f, dev)
<1> DEFINE row == Row(dev, conn[f].host, path, series, ok, reason)
           user == UserRow(f, dev, series, ok, reason)
<1>1. /\ row.ts = now /\ row.allowed = ok /\ row.host = conn[f].host /\ row.who = Who(dev)
      /\ user.ts = now /\ user.allowed = ok /\ user.host = conn[f].host
      /\ user.who.name = Who(dev).name
  BY RowFields
<1> HIDE DEF row, user
<1>2. CASE log' = LogAccess(log, row)
  BY <1>1, <1>2, Logged DEF OnRecord
<1>3. CASE log' = LogAccess(log, user)
  BY <1>1, <1>3, Logged DEF OnRecord
<1> QED  BY <1>2, <1>3 DEF row, user

\* Every answer that authz gives a known device is on record when it is a denial.
LEMMA DenialRecorded ==
    ASSUME GInv, NEW f \in Flow, NEW d, NEW dev, Decide(f, d, dev),
           conn'[f].at = "idle", conn'[f].answer = "deny"
    PROVE  OnRecord(f, dev)
<1>0. now \in Nat /\ DOMAIN conn[f] = Field /\ f \in DOMAIN conn
  BY DEF GInv, Counted, Connections, Sound
<1>1. ASSUME NEW series, NEW ok, NEW reason, Answer(f, dev, series, ok, reason) PROVE OnRecord(f, dev)
  <2>1. ~ok
    BY <1>1, Becomes DEF Answer
  <2> QED  BY <1>0, <1>1, <2>1, Recorded DEF Answer
<1>2. ASSUME NEW series, NEW ok, NEW reason, UserAnswer(f, dev, series, ok, reason) PROVE OnRecord(f, dev)
  <2>1. ~ok
    BY <1>2, Becomes DEF UserAnswer
  <2> QED  BY <1>0, <1>2, <2>1, Recorded DEF UserAnswer
<1>3. ~Silent(f, TRUE)
  BY Becomes DEF Silent
<1>4. ASSUME NEW row, DecideCrunchyroll(f, dev, row) PROVE OnRecord(f, dev)
  <2>1. \/ \E series, ok, reason : UserAnswer(f, dev, series, ok, reason)
        \/ conn' = [conn EXCEPT ![f].at = "shows", ![f].dev = dev, ![f].got = conn[f].request.id]
        \/ conn' = [conn EXCEPT ![f].at = "lookup", ![f].dev = dev]
    BY <1>3, <1>4 DEF DecideCrunchyroll
  <2> QED  BY <1>0, <1>2, <2>1 DEF Field
<1>5. \/ \E series, ok, reason : Answer(f, dev, series, ok, reason)
      \/ \E row : DecideCrunchyroll(f, dev, row)
  BY <1>3 DEF Decide
<1> QED  BY <1>1, <1>4, <1>5

LEMMA RefusalRecorded ==
    ASSUME GInv, [GateNext(Thread)]_gateVars, NEW f \in Flow, Refused(f),
           NEW dev, dev = IF conn[f].dev # None THEN conn[f].dev ELSE Device(db', conn[f].client),
           dev # None, InConfiguredLan(Lan, conn[f].client)
    PROVE  OnRecord(f, dev)
<1>1. conn'[f] # conn[f]
  BY DEF Refused
<1>2. Accept(f) \/ Ask(f) \/ Squid(f) \/ RevokeToken(f)
  BY <1>1, Own DEF gateVars
<1>3. Sound(conn[f], stored) /\ f \in DOMAIN conn /\ now \in Nat /\ spent \in Nat
  BY DEF GInv, Connections, Counted
<1>4. DOMAIN conn[f] = Field
  BY <1>3 DEF Sound
<1>5. ~Spend
  BY <1>3 DEF Refused, Spend
<1>6. CASE AskSplice(f)
  <2>1. conn[f].dev = None
    BY <1>3, <1>6 DEF AskSplice, Sound, NoLocals
  <2>2. conn'[f].at # "idle"
    BY <1>6, Becomes DEF AskSplice
  <2>3. PICK ok : /\ Go(f, IF ok THEN "tunnel" ELSE "page")
                  /\ log' = LogAccess(log, Row(dev, conn[f].host, None, None, ok, "tls"))
    BY <1>6, <2>1, <2>2 DEF AskSplice, Refused
  <2>4. ~ok
    BY <1>6, <2>2, <2>3, Becomes DEF Refused
  <2> QED  BY <1>3, <2>3, <2>4, Recorded
<1>7. CASE Authz(f)
  <2>1. conn[f].dev = None /\ conn'[f].at = "idle" /\ conn'[f].answer = "deny"
    BY <1>3, <1>7 DEF Authz, Sound, NoLocals, Refused
  <2>2. PICK d : Decide(f, d, dev)
    BY <1>7, <2>1 DEF Authz
  <2> QED  BY <2>1, <2>2, DenialRecorded
<1>8. CASE AskShows(f)
  <2>1. dev = conn[f].dev
    BY <1>3, <1>8 DEF AskShows, Sound, NoLocals
  <2>2. PICK series, ok : UserAnswer(f, dev, series, ok, "show")
    BY <1>8, <2>1 DEF AskShows
  <2>3. ~ok
    BY <1>8, <2>2, Becomes DEF UserAnswer, Refused, AskShows
  <2> QED  BY <1>3, <2>2, <2>3, Recorded DEF UserAnswer
<1>9. CASE Unauthorised(f)
  <2>1. dev = conn[f].dev /\ conn[f].at = "fetch" /\ conn'[f].at = "idle"
    BY <1>3, <1>9 DEF Unauthorised, Sound, NoLocals, Refused
  <2>2. ServeStale(f)
    BY <1>3, <1>4, <1>9, <2>1 DEF Unauthorised, Field
  <2>3. log' = LogAccess(log, UserRow(f, dev, None, FALSE, "unresolved"))
    BY <1>3, <1>4, <2>1, <2>2 DEF ServeStale, Field
  <2> QED  BY <1>3, <2>3, Recorded
<1>10. CASE CacheGet(f) \/ FetchToken(f) \/ FetchObjects(f) \/ CachePut(f) \/ RevokeToken(f)
  BY <1>1, <1>3, <1>4, <1>10, Becomes DEF CacheGet, FetchToken, FetchObjects, CachePut, RevokeToken,
       SeriesLocal, Refused, Field
<1>11. CASE AskTrusted(f) \/ AskBump(f) \/ AskBlockPage(f)
  <2>1. conn[f].at \in {"trusted", "bump", "page"} /\ \E at : Go(f, at)
    BY <1>11 DEF AskTrusted, AskBump, AskBlockPage
  <2>2. conn'[f].answer = conn[f].answer
    BY <1>3, <1>4, <2>1 DEF Go, Field
  <2>3. conn[f].answer = None
    BY <1>3, <2>1 DEF Sound
  <2> QED  BY <2>1, <2>2, <2>3, NoneAssumption DEF Refused
<1> QED
  BY <1>2, <1>5, <1>6, <1>7, <1>8, <1>9, <1>10, <1>11
     DEF Squid, Accept, Ask, HelperFails, AuthzFails, ResolutionFails

\* Every refusal of a known device, by a helper that does not fail, is in the report, or one
\* of the same name and host is that is not older than the dedupe window (log_access).
THEOREM RefusalsAreRecorded == GateSpec => RefusalsAreOnRecord
<1>1. GInv /\ [GateNext(Thread)]_gateVars =>
        [\A f \in Flow :
          LET dev == IF conn[f].dev # None THEN conn[f].dev ELSE Device(db', conn[f].client)
          IN  Refused(f) /\ dev # None /\ InConfiguredLan(Lan, conn[f].client) =>
                \E r \in log' : /\ ~r.allowed /\ r.host = conn[f].host
                                /\ r.who.name = Who(dev).name /\ r.ts >= now - DedupeWindow]_gateVars
  BY RefusalRecorded DEF OnRecord
<1> QED  BY <1>1, Invariance, PTL DEF GateSpec, RefusalsAreOnRecord

-----------------------------------------------------------------------------
(* The report.                                                             *)

Time(k) == querylog[k].time

\* The entries from..from+m-1, newest first.
Down(from, m) == [k \in 1 .. m |-> from + m - k]

\* A batch that began when the log had n entries, on a page whose oldest is from, and that
\* has m entries left.
Walk(from, m, n) ==
    /\ from \in Nat \ {0} /\ m \in Nat /\ n \in Nat
    /\ from + m - 1 <= n /\ n <= Len(querylog)
    /\ poll.left = Down(from, m)
    /\ 1 .. from - 1 \subseteq seen \union overrun
    /\ \A k \in from + m .. n : /\ Time(k) <= poll.newest
                                /\ Time(k) > watermark => k \in seen
    /\ poll.newest \in Nat /\ watermark <= poll.newest
    /\ poll.newest = watermark \/ \E j \in seen : j <= n /\ Time(j) = poll.newest

Batch ==
    /\ DOMAIN poll = {"at", "left", "newest"}
    /\ poll.at = "walk" => \E from, m, n : Walk(from, m, n)

\* The watermark is the time of an entry that was seen.
Reached == watermark = 0 \/ \E j \in seen : Time(j) = watermark

LogSound == querylog \in Seq(Entry) /\ InOrder /\ seen \subseteq DOMAIN querylog

RInv ==
    /\ now \in Nat /\ watermark \in Nat
    /\ LogSound /\ Reached /\ WatermarkSound /\ Batch

-----------------------------------------------------------------------------
(* Sequences.                                                              *)

LEMMA Times ==
    ASSUME RInv
    PROVE  /\ DOMAIN querylog = 1 .. Len(querylog) /\ Len(querylog) \in Nat
           /\ \A k \in DOMAIN querylog : Time(k) \in Nat /\ Time(k) \in 1 .. now + 1
           /\ \A j, k \in DOMAIN querylog : j <= k => Time(j) <= Time(k)
  BY DEF RInv, LogSound, InOrder, Time

\* Down is empty, or begins with its greatest and goes on below.
LEMMA Countdown ==
    ASSUME NEW from \in Nat \ {0}, NEW m \in Nat
    PROVE  /\ Down(from, m) = <<>> <=> m = 0
           /\ m > 0 => /\ Head(Down(from, m)) = from + m - 1
                       /\ Tail(Down(from, m)) = Down(from, m - 1)
<1>1. Down(from, m) \in Seq(Nat) /\ Len(Down(from, m)) = m
  BY DEF Down
<1>2. Down(from, m) = <<>> <=> m = 0
  BY <1>1, EmptySeq
<1>3. ASSUME m > 0 PROVE Head(Down(from, m)) = from + m - 1
  BY <1>1, <1>3 DEF Down
<1>4. ASSUME m > 0 PROVE Tail(Down(from, m)) = Down(from, m - 1)
  <2>1. /\ Tail(Down(from, m)) \in Seq(Nat) /\ Len(Tail(Down(from, m))) = m - 1
        /\ \A i \in 1 .. m - 1 : Tail(Down(from, m))[i] = Down(from, m)[i + 1]
    BY <1>1, <1>2, <1>4, HeadTailProperties
  <2>2. Down(from, m - 1) \in Seq(Nat) /\ Len(Down(from, m - 1)) = m - 1
    BY <1>4 DEF Down
  <2>3. \A i \in 1 .. m - 1 : Down(from, m)[i + 1] = Down(from, m - 1)[i]
    BY <1>4 DEF Down
  <2> QED  BY <2>1, <2>2, <2>3, SeqEqual
<1> QED  BY <1>2, <1>3, <1>4

-----------------------------------------------------------------------------
(* The steps that do not poll.                                             *)

\* No step sets the clock back.
LEMMA Elapses ==
    ASSUME [Next]_reportVars PROVE now' = now \/ now' = now + 1
<1>1. CASE \E T : GateNext(T)
  <2>1. PICK T : GateNext(T)
    BY <1>1
  <2>2. CASE \E f \in Flow : Accept(f) \/ Ask(f) \/ Squid(f) \/ RevokeToken(f)
    BY <2>2 DEF Squid, Accept, AskTrusted, AskBump, AskSplice, AskBlockPage, HelperFails, Ask, Authz,
         AuthzFails, CacheGet, ResolutionFails, FetchToken, FetchObjects, Unauthorised, CachePut, AskShows,
         RevokeToken, TlsLocal, SeriesLocal, householdVars
  <2>3. CASE Republish \/ ApproveShow \/ RemoveShow \/ SetBlockPageMode
    BY <2>3 DEF Republish, ApproveShow, RemoveShow, SetBlockPageMode, householdVars
  <2>4. CASE GateHousehold(T)
    BY <2>4, RoutesKeep DEF GateHousehold, Tick
  <2> QED  BY <2>1, <2>2, <2>3, <2>4 DEF GateNext
<1>2. CASE Poll \/ PollFails
  BY <1>2 DEF Poll, PollBegin, PollEntry, PollEnd, PollFails, PollLocal
<1>3. CASE Query \/ LogBlock \/ RequestApproval \/ DismissRequest \/ RestartDashboard
  BY <1>3 DEF Query, LogBlock, RequestApproval, DismissRequest, RestartDashboard, householdVars
<1>4. ASSUME NEW t, ApproveBegin(t) \/ GrantShow(t) \/ GrantHost(t) \/ ApproveStatement(t) \/ ApproveFlash(t)
      PROVE  now' = now
  BY <1>4, RoutesKeep DEF ApproveBegin, GrantShow, GrantHost, ApproveStatement, ApproveFlash,
       ApproveLocal, householdVars
<1>5. CASE UNCHANGED reportVars
  BY <1>5 DEF reportVars, gateVars, householdVars
<1> QED  BY <1>1, <1>2, <1>3, <1>4, <1>5 DEF Next

\* Only the poll and a query matter here; a restart ends the batch.
LEMMA Others ==
    ASSUME [Next]_reportVars, ~PollBegin, ~PollEntry, ~PollEnd, ~Query
    PROVE  UNCHANGED <<querylog, watermark, seen, overrun>> /\ (poll' = poll \/ poll' = NoPoll)
<1>1. CASE PollFails \/ RestartDashboard
  BY <1>1 DEF PollFails, RestartDashboard, PollLocal
<1>2. CASE LogBlock \/ RequestApproval \/ DismissRequest
  BY <1>2 DEF LogBlock, RequestApproval, DismissRequest, ReportLocal
<1>3. ASSUME NEW t, ApproveBegin(t) \/ GrantShow(t) \/ GrantHost(t) \/ ApproveStatement(t) \/ ApproveFlash(t)
      PROVE  UNCHANGED <<querylog, watermark, seen, overrun, poll>>
  BY <1>3 DEF ApproveBegin, GrantShow, GrantHost, ApproveStatement, ApproveFlash, ApproveLocal, ReportLocal
<1>4. CASE UNCHANGED reportVars
  BY <1>4 DEF reportVars
<1> QED  BY <1>1, <1>2, <1>3, <1>4 DEF Next, Poll

LEMMA OthersKeep ==
    ASSUME RInv, [Next]_reportVars, ~PollBegin, ~PollEntry, ~PollEnd, ~Query PROVE RInv'
<1>1. UNCHANGED <<querylog, watermark, seen, overrun>> /\ (poll' = poll \/ poll' = NoPoll)
  BY Others
<1>2. now' = now \/ now' = now + 1
  BY Elapses
<1>3. LogSound' /\ Reached' /\ WatermarkSound' /\ now' \in Nat /\ watermark' \in Nat
  BY <1>1, <1>2 DEF RInv, LogSound, InOrder, Reached, WatermarkSound, Settled, Time
<1>4. Batch'
  <2>1. CASE poll' = poll
    BY <1>1, <2>1 DEF RInv, Batch, Walk, Time
  <2>2. CASE poll' = NoPoll
    BY <2>2 DEF Batch, NoPoll
  <2> QED  BY <1>1, <2>1, <2>2
<1> QED  BY <1>3, <1>4 DEF RInv

-----------------------------------------------------------------------------
(* A query, and the poll.                                                  *)

\* A query is logged above everything, at a time that is not before the watermark.
LEMMA QueryKeeps == ASSUME RInv, Query PROVE RInv'
<1>0. PICK n \in Nat : n = Len(querylog)
  BY Times
<1>1. UNCHANGED <<now, watermark, poll, seen, overrun>>
  BY DEF Query, householdVars
<1>2. PICK e \in Entry : e.time = now + 1 /\ querylog' = Append(querylog, e)
  <2>1. PICK q \in Queries : querylog' = Append(querylog, [time |-> now + 1, client |-> q.client,
                                                           host |-> q.host, answer |-> q.answer])
    BY DEF Query
  <2>2. [time |-> now + 1, client |-> q.client, host |-> q.host, answer |-> q.answer] \in Entry
    BY QueriesAssumption DEF RInv, Entry
  <2> QED  BY <2>1, <2>2
<1>3. /\ querylog' \in Seq(Entry) /\ Len(querylog') = n + 1
      /\ \A k \in 1 .. n : querylog'[k] = querylog[k]
      /\ querylog'[n + 1] = e
      /\ DOMAIN querylog' = 1 .. n + 1
  BY <1>0, <1>2, AppendProperties, LenProperties DEF RInv, LogSound
<1>4. /\ \A k \in 1 .. n : Time(k)' = Time(k)
      /\ Time(n + 1)' = now + 1
  BY <1>2, <1>3 DEF Time
<1>5. DOMAIN querylog = 1 .. n
  BY <1>0, Times
<1>6. LogSound'
  <2>1. ASSUME NEW j \in 1 .. n + 1, NEW k \in 1 .. n + 1
        PROVE  Time(k)' \in 1 .. now + 1 /\ (j <= k => Time(j)' <= Time(k)')
    <3>1. j \in 1 .. n \/ j = n + 1
      BY <1>3
    <3>2. k \in 1 .. n \/ k = n + 1
      BY <1>3
    <3> QED  BY <1>3, <1>4, <1>5, <3>1, <3>2, Times DEF RInv
  <2>2. InOrder'
    BY <1>1, <1>3, <2>1 DEF InOrder, Time
  <2> QED  BY <1>1, <1>3, <1>5, <2>2 DEF RInv, LogSound
<1>7. Reached'
  BY <1>1, <1>4, <1>5 DEF RInv, Reached, LogSound
<1>8. WatermarkSound'
  <2>1. ASSUME NEW k \in 1 .. n, Time(k) <= watermark PROVE Settled(k)'
    <3>1. Settled(k)
      BY <1>5, <2>1 DEF RInv, WatermarkSound, Time
    <3> QED  BY <1>1, <1>4, <1>5, <3>1 DEF Settled, Time, RInv, LogSound
  <2>2. ASSUME now + 1 <= watermark PROVE Settled(n + 1)'
    <3>1. PICK j \in seen : Time(j) = watermark
      BY <2>2 DEF RInv, Reached
    <3>2. j \in 1 .. n /\ Time(j) <= now + 1
      BY <1>5, <3>1, Times DEF RInv, LogSound
    <3>3. Time(j) = now + 1
      BY <2>2, <3>1, <3>2, Times, <1>5 DEF RInv
    <3>4. j < n + 1 /\ Time(j)' = Time(n + 1)'
      BY <1>3, <1>4, <3>2, <3>3
    <3> QED  BY <1>1, <3>4 DEF Settled, Time
  <2> QED  BY <1>1, <1>3, <1>4, <2>1, <2>2 DEF WatermarkSound, Time
<1>9. Batch'
  <2>1. ASSUME NEW from, NEW m, NEW k0, Walk(from, m, k0) PROVE Walk(from, m, k0)'
    <3>1. k0 <= n /\ from \in Nat /\ m \in Nat /\ k0 \in Nat /\ from + m >= 1
      BY <1>0, <2>1 DEF Walk
    <3>2. \A k \in from + m .. k0 : Time(k)' = Time(k)
      BY <1>3, <1>4, <3>1
    <3>3. \A j \in seen : Time(j)' = Time(j)
      BY <1>4, <1>5 DEF RInv, LogSound
    <3>4. k0 <= Len(querylog')
      BY <1>3, <3>1
    <3> QED  BY <1>1, <2>1, <3>2, <3>3, <3>4 DEF Walk
  <2> QED  BY <1>1, <2>1 DEF RInv, Batch
<1> QED  BY <1>1, <1>6, <1>7, <1>8, <1>9 DEF RInv

LEMMA BeginKeeps == ASSUME RInv, PollBegin PROVE RInv'
<1>0. PICK n, from : n = Len(querylog) /\ from = IF n > Limit THEN n - Limit + 1 ELSE 1
  OBVIOUS
<1>1. UNCHANGED <<now, watermark, seen, querylog>>
  BY DEF PollBegin, PollLocal
<1>2. /\ poll' = [at |-> "walk", newest |-> watermark, left |-> [k \in 1 .. n - from + 1 |-> n - k + 1]]
      /\ overrun' = overrun \union (1 .. from - 1 \ seen)
  BY <1>0 DEF PollBegin
<1>3. n \in Nat /\ from \in Nat \ {0} /\ n - from + 1 \in Nat
  <2>1. n \in Nat
    BY <1>0, Times
  <2>2. n # 0
    BY <1>0, Times, EmptySeq DEF PollBegin, RInv, LogSound
  <2> QED  BY <1>0, <2>1, <2>2, LimitAssumption
<1>4. [k \in 1 .. n - from + 1 |-> n - k + 1] = Down(from, n - from + 1)
  BY <1>3 DEF Down
<1>5. Walk(from, n - from + 1, n)'
  <2>1. from + (n - from + 1) .. n = {}
    BY <1>3
  <2>2. poll'.newest = watermark' /\ poll'.left = Down(from, n - from + 1)
    BY <1>1, <1>2, <1>4
  <2>3. 1 .. from - 1 \subseteq seen' \union overrun'
    BY <1>1, <1>2
  <2>4. from + (n - from + 1) - 1 <= n /\ n <= Len(querylog')
    BY <1>0, <1>1, <1>3
  <2>5. watermark' \in Nat /\ n - from + 1 \in Nat
    BY <1>1, <1>3 DEF RInv
  <2> QED  BY <1>3, <2>1, <2>2, <2>3, <2>4, <2>5 DEF Walk, Down
<1>6. Batch'
  BY <1>2, <1>5 DEF Batch
<1>7. LogSound' /\ Reached' /\ WatermarkSound'
  BY <1>1, <1>2 DEF RInv, LogSound, InOrder, Reached, WatermarkSound, Settled, Time
<1> QED  BY <1>1, <1>6, <1>7 DEF RInv

LEMMA EntryKeeps == ASSUME RInv, PollEntry PROVE RInv'
<1>1. UNCHANGED <<now, watermark, overrun, querylog>>
  BY DEF PollEntry, PollLocal
<1>2. PICK from, m, n : Walk(from, m, n)
  BY DEF PollEntry, RInv, Batch
<1>3. from \in Nat \ {0} /\ m \in Nat /\ n \in Nat /\ m # 0 /\ Head(poll.left) = from + m - 1
      /\ Tail(poll.left) = Down(from, m - 1)
  BY <1>2, Countdown DEF Walk, PollEntry
<1> DEFINE k == from + m - 1
<1>4. k \in DOMAIN querylog /\ k \in 1 .. n /\ Time(k) \in Nat
  BY <1>2, <1>3, Times DEF Walk
<1>5. /\ seen' = IF Time(k) > watermark THEN seen \union {k} ELSE seen
      /\ poll'.left = Down(from, m - 1)
      /\ poll'.newest = IF Time(k) > poll.newest THEN Time(k) ELSE poll.newest
      /\ DOMAIN poll' = {"at", "left", "newest"}
  BY <1>3 DEF PollEntry, Time, RInv, Batch
<1> HIDE DEF k
<1>6. seen \subseteq seen' /\ seen' \subseteq DOMAIN querylog
  BY <1>4, <1>5 DEF RInv, LogSound
<1>7. LogSound' /\ Reached' /\ WatermarkSound'
  BY <1>1, <1>6 DEF RInv, LogSound, InOrder, Reached, WatermarkSound, Settled, Time
<1>8. Walk(from, m - 1, n)'
  <2>1. m - 1 \in Nat /\ from + (m - 1) - 1 <= n /\ n <= Len(querylog')
    BY <1>1, <1>2, <1>3 DEF Walk
  <2>2. \A i : Time(i)' = Time(i)
    BY <1>1 DEF Time
  <2>3. poll.newest \in Nat /\ watermark \in Nat /\ watermark <= poll.newest
    BY <1>2 DEF Walk, RInv
  <2>4. /\ poll'.newest \in Nat /\ watermark <= poll'.newest /\ poll.newest <= poll'.newest
        /\ Time(k) <= poll'.newest
    BY <1>4, <1>5, <2>3
  <2>5. ASSUME NEW i \in from + (m - 1) .. n
        PROVE  Time(i) <= poll'.newest /\ (Time(i) > watermark => i \in seen')
    <3>1. i = k \/ i \in from + m .. n
      BY <1>3 DEF k
    <3>2. CASE i = k
      BY <1>5, <2>4, <3>2
    <3>3. CASE i \in from + m .. n
      <4>1. Time(i) <= poll.newest /\ (Time(i) > watermark => i \in seen)
        BY <1>2, <3>3 DEF Walk
      <4>2. Time(i) \in Nat
        BY <1>2, <1>3, <3>3, Times DEF Walk
      <4> QED  BY <1>6, <2>3, <2>4, <4>1, <4>2
    <3> QED  BY <3>1, <3>2, <3>3
  <2>6. poll'.newest = watermark \/ \E j \in seen' : j <= n /\ Time(j) = poll'.newest
    <3>1. CASE Time(k) > poll.newest
      BY <1>4, <1>5, <2>3, <3>1
    <3>2. CASE ~(Time(k) > poll.newest)
      BY <1>2, <1>5, <1>6, <3>2 DEF Walk
    <3> QED  BY <3>1, <3>2
  <2>7. 1 .. from - 1 \subseteq seen' \union overrun'
    BY <1>1, <1>2, <1>6 DEF Walk
  <2> QED  BY <1>1, <1>3, <1>5, <2>1, <2>2, <2>4, <2>5, <2>6, <2>7 DEF Walk, Down
<1>9. Batch'
  BY <1>5, <1>8 DEF Batch
<1> QED  BY <1>1, <1>7, <1>9 DEF RInv

\* The end of a batch: nothing is left, and what came after it began is not older than what
\* it has seen.
LEMMA EndKeeps == ASSUME RInv, PollEnd PROVE RInv'
<1>1. UNCHANGED <<now, seen, overrun, querylog>> /\ watermark' = poll.newest /\ poll' = NoPoll
  BY DEF PollEnd, PollLocal
<1>2. PICK from, m, n : Walk(from, m, n)
  BY DEF PollEnd, RInv, Batch
<1>3. m = 0 /\ from \in Nat \ {0} /\ n \in Nat /\ n <= Len(querylog)
  BY <1>2, Countdown DEF Walk, PollEnd
<1>4. watermark' \in Nat /\ watermark \in Nat /\ watermark <= watermark'
  BY <1>1, <1>2 DEF Walk, RInv
<1>5. ASSUME NEW k \in DOMAIN querylog, Time(k) <= watermark' PROVE Settled(k)
  <2>1. k \in Nat \ {0} /\ Time(k) \in Nat
    BY Times
  <2>2. CASE k < from
    BY <1>2, <1>3, <2>1, <2>2 DEF Walk, Settled
  <2>3. CASE from <= k /\ k <= n
    <3>1. Time(k) > watermark => k \in seen
      BY <1>2, <1>3, <2>1, <2>3 DEF Walk
    <3>2. Time(k) <= watermark => Settled(k)
      BY DEF RInv, WatermarkSound, Time
    <3> QED  BY <1>4, <2>1, <3>1, <3>2 DEF Settled
  <2>4. CASE n < k
    <3>1. CASE watermark' = watermark
      BY <1>5, <3>1 DEF RInv, WatermarkSound, Time
    <3>2. CASE watermark' # watermark
      <4>1. PICK j \in seen : j <= n /\ Time(j) = watermark'
        BY <1>1, <1>2, <3>2 DEF Walk
      <4>2. j \in DOMAIN querylog /\ j \in Nat /\ j < k
        BY <1>3, <2>1, <2>4, <4>1, Times DEF RInv, LogSound
      <4>3. Time(j) <= Time(k)
        BY <4>2, <2>1, Times
      <4>4. Time(j) = Time(k)
        BY <1>4, <1>5, <2>1, <4>1, <4>3
      <4> QED  BY <4>1, <4>2, <4>4 DEF Settled, Time
    <3> QED  BY <3>1, <3>2
  <2> QED  BY <1>3, <2>1, <2>2, <2>3, <2>4
<1>6. WatermarkSound'
  BY <1>1, <1>5 DEF WatermarkSound, Settled, Time
<1>7. Reached'
  <2>1. CASE watermark' = watermark
    BY <1>1, <2>1 DEF RInv, Reached, Time
  <2>2. CASE watermark' # watermark
    BY <1>1, <1>2, <2>2 DEF Walk, Reached, Time
  <2> QED  BY <2>1, <2>2
<1>8. LogSound' /\ Batch'
  BY <1>1 DEF RInv, LogSound, InOrder, Batch, NoPoll
<1> QED  BY <1>1, <1>4, <1>6, <1>7, <1>8 DEF RInv

-----------------------------------------------------------------------------

LEMMA ReportsInit == Init => RInv
<1> SUFFICES ASSUME Init PROVE RInv
  OBVIOUS
<1>1. now = 0 /\ watermark = 0 /\ poll = NoPoll /\ seen = {}
  BY DEF Init, GateInit
<1>2. LogSound /\ Reached /\ Batch
  BY <1>1 DEF Init, LogSound, Reached, Batch, NoPoll
<1>3. WatermarkSound
  BY <1>1 DEF Init, InOrder, WatermarkSound
<1> QED  BY <1>1, <1>2, <1>3 DEF RInv

LEMMA ReportsNext == RInv /\ [Next]_reportVars => RInv'
  BY OthersKeep, QueryKeeps, BeginKeeps, EntryKeeps, EndKeeps

\* The watermark passes over no entry: one at or below it was looked at, was beyond a page, or
\* is of a second at which an earlier batch ended (correlate_once).
THEOREM WatermarkIsSound == Spec => []WatermarkSound
<1>1. RInv => WatermarkSound
  BY DEF RInv
<1> QED  BY <1>1, ReportsInit, ReportsNext, PTL DEF Spec

-----------------------------------------------------------------------------
(* The types of the whole.                                                 *)

Tokens == DOMAIN token = Flow /\ \A f \in Flow : token[f] \in {None, "good", "old"}

Names == Host \union {Site[h] : h \in Host}

\* A row of the report, by the time t.
LogRow(r, t) == r.ts \in 0 .. t /\ r.series \in Series \union {None} /\ r.host \in Names

LogTyped == \A r \in log : LogRow(r, now)

\* What the thread of approval a may have to execute.
Remains(a, statements) ==
    statements = <<>> \/ \E table \in {"allow", "domain"} : \E i : statements = GrantTo(table, i, a)

\* An approval grants what its row was about, and nobody else gives its thread a statement.
Approvals ==
    /\ DOMAIN approval = Thread /\ DOMAIN job = Thread
    /\ \A t \in Thread : approval[t] # NoApproval =>
          /\ approval[t].row.series \in Series \union {None} /\ approval[t].scope \in Scopes
          /\ Remains(approval[t], job[t])

Paged == overrun \subseteq 1 .. Len(querylog)

TInv == GInv /\ Tokens /\ LogTyped /\ Approvals /\ Paged

\* Only rows that are given to it enter the report.
LEMMA Enters == ASSUME NEW rows, NEW row PROVE LogAccess(rows, row) \subseteq rows \union {row}
  BY DEF LogAccess

LEMMA RowTyped ==
    ASSUME now \in Nat, NEW f, NEW dev, NEW host \in Names, NEW path, NEW series \in Series \union {None},
           NEW ok, NEW reason
    PROVE  /\ LogRow(Row(dev, host, path, series, ok, reason), now)
           /\ conn[f].host = host => LogRow(UserRow(f, dev, series, ok, reason), now)
  BY DEF Row, UserRow, LogRow

\* The gate's rows are of the hosts and the series that its connections know.
LEMMA GateLogs ==
    ASSUME GInv, LogTyped, NEW T, GateNext(T) PROVE \A r \in log' : LogRow(r, now)
<1>0. now \in Nat
  BY DEF GInv, Counted
<1>1. ASSUME NEW f \in Flow, Accept(f) \/ Ask(f) \/ Squid(f) \/ RevokeToken(f)
      PROVE  \A r \in log' : LogRow(r, now)
  <2>1. Sound(conn[f], stored)
    BY DEF GInv, Connections
  <2>2. \/ log' = log
        \/ /\ conn[f].at # "new"
           /\ \E dev, path, ok, reason : \E series \in Series \union {None} :
                 \/ log' = LogAccess(log, Row(dev, conn[f].host, path, series, ok, reason))
                 \/ log' = LogAccess(log, UserRow(f, dev, series, ok, reason))
    <3>1. CASE AskSplice(f)
      BY <3>1 DEF AskSplice
    <3>2. CASE Authz(f)
      <4>1. ASSUME NEW dev, NEW row, DecideCrunchyroll(f, dev, row)
            PROVE  log' = log \/ \E ok, reason : log' = LogAccess(log, UserRow(f, dev, None, ok, reason))
        BY <4>1 DEF DecideCrunchyroll, Silent, UserAnswer
      <4>2. ASSUME NEW dev, NEW d, Decide(f, d, dev)
            PROVE  \/ log' = log
                   \/ \E path, ok, reason :
                         \/ log' = LogAccess(log, Row(dev, conn[f].host, path, None, ok, reason))
                         \/ log' = LogAccess(log, UserRow(f, dev, None, ok, reason))
        <5>1. \/ \E ok, reason : Answer(f, dev, None, ok, reason)
              \/ \E ok : Silent(f, ok) \/ \E row : DecideCrunchyroll(f, dev, row)
          BY <4>2 DEF Decide
        <5> QED  BY <4>1, <5>1 DEF Answer, Silent
      <4> QED  BY <3>2, <4>2 DEF Authz, Silent, Answer
    <3>3. CASE AskShows(f)
      <4>1. conn[f].at = "shows" /\ conn[f].got \in Series \union {Missing}
        BY <2>1, <3>3 DEF AskShows, Sound
      <4> QED  BY <3>3, <4>1 DEF AskShows, UserAnswer
    <3>4. CASE ResolutionFails(f) \/ Unauthorised(f)
      BY <3>4 DEF ResolutionFails, Unauthorised, ServeStale
    <3>5. CASE Accept(f) \/ AskTrusted(f) \/ AskBump(f) \/ AskBlockPage(f) \/ HelperFails(f) \/ Ask(f)
      <4>1. log' = log
        BY <3>5 DEF Accept, AskTrusted, AskBump, AskBlockPage, HelperFails, Ask
      <4> QED  BY <4>1
    <3>6. CASE \/ AuthzFails(f) \/ CacheGet(f) \/ FetchToken(f) \/ FetchObjects(f) \/ CachePut(f)
               \/ RevokeToken(f)
      BY <3>6 DEF AuthzFails, Silent, CacheGet, FetchToken, FetchObjects, CachePut, RevokeToken
    <3> QED  BY <1>1, <3>1, <3>2, <3>3, <3>4, <3>5, <3>6 DEF Squid
  <2>3. CASE log' = log
    BY <2>3 DEF LogTyped
  <2>4. CASE log' # log
    <3>1. conn[f].host \in Names
      BY <2>1, <2>2, <2>4 DEF Sound, Names
    <3>2. PICK row : log' = LogAccess(log, row) /\ LogRow(row, now)
      BY <1>0, <2>2, <2>4, <3>1, RowTyped
    <3> QED  BY <3>2, Enters DEF LogTyped
  <2> QED  BY <2>3, <2>4
<1>2. CASE Republish \/ ApproveShow \/ RemoveShow \/ SetBlockPageMode \/ GateHousehold(T)
  <2>1. log' = log
    BY <1>2 DEF Republish, ApproveShow, RemoveShow, SetBlockPageMode, GateHousehold
  <2> QED  BY <2>1 DEF LogTyped
<1> QED  BY <1>1, <1>2 DEF GateNext

\* A row that is typed stays so.
LEMMA LaterRow == ASSUME NEW r, NEW t \in Nat, LogRow(r, t) PROVE LogRow(r, t + 1)
  BY DEF LogRow

LEMMA TokensKeep == ASSUME Tokens, NEW T, GateNext(T) PROVE Tokens'
<1>1. CASE token' = token
  BY <1>1 DEF Tokens
<1>2. ASSUME NEW f \in Flow, NEW to \in {None, "good", "old"}, token' = [token EXCEPT ![f] = to]
      PROVE  Tokens'
  BY <1>2 DEF Tokens
<1>3. \/ token' = token
      \/ \E f \in Flow, to \in {None, "good", "old"} : token' = [token EXCEPT ![f] = to]
  <2>1. ASSUME NEW f \in Flow, Accept(f) \/ Ask(f) \/ Squid(f) \/ RevokeToken(f)
        PROVE  token' = token \/ \E to \in {None, "good", "old"} : token' = [token EXCEPT ![f] = to]
    <3>1. CASE FetchToken(f) \/ Unauthorised(f) \/ RevokeToken(f)
      BY <3>1 DEF FetchToken, Unauthorised, RevokeToken
    <3>2. CASE ~(FetchToken(f) \/ Unauthorised(f) \/ RevokeToken(f))
      <4>1. token' = token
        BY <2>1, <3>2 DEF Squid, Accept, AskTrusted, AskBump, AskSplice, AskBlockPage, HelperFails, Ask, Authz,
           AuthzFails, CacheGet, ResolutionFails, FetchObjects, CachePut, AskShows, TlsLocal, crVars
      <4> QED  BY <4>1
    <3> QED  BY <3>1, <3>2
  <2> QED
    BY <2>1 DEF GateNext, Republish, ApproveShow, RemoveShow, SetBlockPageMode, GateHousehold, crVars
<1> QED  BY <1>1, <1>2, <1>3

\* The threads of T alone are given statements.
LEMMA JobsKeep ==
    ASSUME DOMAIN job = Thread, NEW T \in SUBSET Thread, GateNext(T)
    PROVE  DOMAIN job' = Thread /\ \A t \in Thread \ T : job'[t] = job[t]
<1>1. ASSUME NEW u \in T, NEW rest, job' = [job EXCEPT ![u] = rest]
      PROVE  DOMAIN job' = Thread /\ \A t \in Thread \ T : job'[t] = job[t]
  BY <1>1
<1>2. CASE job' = job
  BY <1>2
<1>3. ASSUME NEW u, DomainRoute(u) \/ PeopleRoute(u) \/ Statement(u)
      PROVE  \E rest : job' = [job EXCEPT ![u] = rest]
  <2>1. CASE Statement(u)
    BY <2>1 DEF Statement
  <2>2. CASE PeopleRoute(u)
    <3>1. \E d : Request(u, d, <<>>)
      BY <2>2 DEF PeopleRoute, DeletePerson, SaveDevice
    <3> QED  BY <3>1 DEF Request
  <2>3. CASE DomainRoute(u)
    <3>1. PICK i \in DOMAIN db.domain, p \in Pattern, m \in Modes, a \in Audiences, path \in Paths :
          \/ AddDomain(u, i, p, m, a)
          \/ \E x \in db.present.users : AddDomainFromUrl(u, i, p, x, path)
          \/ DeleteDomain(u, i) \/ UpdateDomain(u, i, m) \/ UpdateDomainAccess(u, i, a)
          \/ AddPath(u, i, path) \/ DeletePath(u, i, path)
          \/ AddAdguardAllowlist(u, p, a) \/ DeleteAdguardAllowlist(u, p)
      BY <2>3 DEF DomainRoute
    <3>2. \E d, rest : Request(u, d, rest)
      BY <3>1, Zenon DEF AddDomain, AddDomainFromUrl, DeleteDomain, UpdateDomain, UpdateDomainAccess, AddPath,
           DeletePath, AddAdguardAllowlist, DeleteAdguardAllowlist
    <3> QED  BY <3>2 DEF Request
  <2> QED  BY <1>3, <2>1, <2>2, <2>3
<1>4. job' = job \/ \E u \in T : DomainRoute(u) \/ PeopleRoute(u) \/ Statement(u)
  <2>1. ASSUME NEW f \in Flow, Accept(f) \/ Ask(f) \/ Squid(f) \/ RevokeToken(f) PROVE job' = job
    BY <2>1, Zenon DEF Squid, Accept, AskTrusted, AskBump, AskSplice, AskBlockPage, HelperFails, Ask, Authz,
         AuthzFails, CacheGet, ResolutionFails, FetchToken, FetchObjects, Unauthorised, CachePut, AskShows,
         RevokeToken, TlsLocal, SeriesLocal, householdVars
  <2> QED
    BY <2>1 DEF GateNext, Republish, ApproveShow, RemoveShow, SetBlockPageMode, GateHousehold, Tick,
         householdVars
<1> QED  BY <1>1, <1>2, <1>3, <1>4

\* A statement of an approval changes neither who there is nor the places of the tables.
LEMMA StatementKeepsUsers ==
    ASSUME NEW t, Statement(t), NEW a, Remains(a, job[t])
    PROVE  /\ db'.present = db.present /\ DOMAIN db' = DOMAIN db
           /\ DOMAIN job' = DOMAIN job /\ \A u \in DOMAIN job : u # t => job'[u] = job[u]
           /\ t \in DOMAIN job => job'[t] = <<>>
<1>1. PICK table, i : table \in {"allow", "domain"} /\ job[t] = GrantTo(table, i, a)
  BY DEF Statement, Remains
<1>2. PICK s : job[t] = <<s>> /\ (s = Scope(table, i, TRUE) \/ \E kind, who : s = Grant(table, i, kind, who))
  BY <1>1 DEF GrantTo
<1>3. Head(job[t]) = s /\ Tail(job[t]) = <<>>
  BY <1>2
<1>4. db' = db \/ db' = Exec(db, s)
  BY <1>3 DEF Statement
<1>5. Exec(db, s).present = db.present /\ DOMAIN Exec(db, s) = DOMAIN db
  BY <1>1, <1>2 DEF Exec, Scope, Grant
<1>6. job' = [job EXCEPT ![t] = <<>>]
  BY <1>3 DEF Statement
<1> QED  BY <1>4, <1>5, <1>6

\* A grant is written: db becomes d, with the statement s to come.
Granted(t, d, s) ==
    /\ db' = d
    /\ job' = [job EXCEPT ![t] = s]
    /\ approval' = [approval EXCEPT ![t].at = "flash"]

\* The alternatives of GrantHost.
Granting(t, a, host) ==
    \/ Ends(t) /\ UNCHANGED <<db, job>>
    \/ /\ a.row.reason \in {"category", "native"} /\ db.allow[host] # None
       /\ Granted(t, db, GrantTo("allow", host, a))
    \/ /\ a.row.reason \in {"category", "native"} /\ db.allow[host] = None
       /\ Granted(t, [db EXCEPT !.allow[host] = [access |-> Nobody]], GrantTo("allow", host, a))
    \/ /\ a.row.reason \notin {"category", "native"} /\ FindDomain(db.domain, host) # None
       /\ Granted(t, db, GrantTo("domain", FindDomain(db.domain, host), a))
    \/ /\ a.row.reason \notin {"category", "native"} /\ FindDomain(db.domain, host) = None
       /\ \E i \in DOMAIN db.domain :
             /\ NewId("domain", i)
             /\ Granted(t, [db EXCEPT !.domain[i] =
                              [pattern |-> host, mode |-> "splice", kept |-> FALSE, series |-> FALSE,
                               paths |-> {}, access |-> Nobody]], GrantTo("domain", i, a))

LEMMA Grantings ==
    ASSUME NEW t, GrantHost(t)
    PROVE  Granting(t, approval[t], approval[t].row.host)
<1> DEFINE a == approval[t]
           host == a.row.host
<1>1. CASE a.row.reason = "path"
  BY <1>1 DEF GrantHost, Granting
<1>2. CASE a.row.reason \in {"category", "native"} /\ db.allow[host] # None
  BY <1>2 DEF GrantHost, Granting, Granted
<1>3. CASE a.row.reason \in {"category", "native"} /\ db.allow[host] = None
  BY <1>3 DEF GrantHost, Granting, Granted
<1>4. CASE a.row.reason \notin {"path", "category", "native"} /\ FindDomain(db.domain, host) # None
  BY <1>4 DEF GrantHost, Granting, Granted
<1>5. CASE a.row.reason \notin {"path", "category", "native"} /\ FindDomain(db.domain, host) = None
  <2>1. \E i \in DOMAIN db.domain :
           /\ NewId("domain", i)
           /\ db' = [db EXCEPT !.domain[i] =
                       [pattern |-> host, mode |-> "splice", kept |-> FALSE, series |-> FALSE,
                        paths |-> {}, access |-> Nobody]]
           /\ job' = [job EXCEPT ![t] = GrantTo("domain", i, a)]
           /\ approval' = [approval EXCEPT ![t].at = "flash"]
    BY <1>5 DEF GrantHost
  <2> QED  BY <1>5, <2>1, Zenon DEF Granting, Granted
<1> QED  BY <1>1, <1>2, <1>3, <1>4, <1>5

\* The steps beside the gate leave its connections, its cache and the users alone.
LEMMA BesideGate ==
    ASSUME TInv, Next, ~GateNext({t \in Thread : approval[t] = NoApproval})
    PROVE  /\ UNCHANGED <<conn, catalog, cache, token, stored, now>> /\ (spent' = spent \/ spent' = spent + 1)
           /\ DOMAIN db' = DOMAIN db /\ db'.present.users = db.present.users
<1> USE DEF crVars
<1>1. \A d, a : DOMAIN Healed(d, a) = DOMAIN d
  BY DEF Healed
<1>2. CASE Poll \/ PollFails
  <2>1. /\ UNCHANGED <<conn, catalog, cache, token, stored, now>> /\ (spent' = spent \/ spent' = spent + 1)
        /\ db' = db \/ \E a : db' = Healed(db, a)
    BY <1>2 DEF Poll, PollBegin, PollEntry, PollEnd, PollFails, PollLocal, Spend
  <2> QED  BY <1>1, <2>1, HealedUsers
<1>3. CASE LogBlock
  <2>1. /\ UNCHANGED <<conn, catalog, cache, token, stored, now>> /\ (spent' = spent \/ spent' = spent + 1)
        /\ \E a : db' = Healed(db, a)
    BY <1>3 DEF LogBlock, ReportLocal, Spend
  <2> QED  BY <1>1, <2>1, HealedUsers
<1>4. CASE Query \/ RequestApproval \/ DismissRequest \/ RestartDashboard
  BY <1>4 DEF Query, RequestApproval, DismissRequest, RestartDashboard, ReportLocal, householdVars, Spend
<1>5. ASSUME NEW t \in Thread, ApproveBegin(t) \/ GrantShow(t) \/ ApproveFlash(t)
      PROVE  /\ UNCHANGED <<conn, catalog, cache, token, stored, now, db>>
             /\ (spent' = spent \/ spent' = spent + 1)
  BY <1>5 DEF ApproveBegin, GrantShow, ApproveFlash, ReportLocal, ApproveLocal, householdVars, Spend
<1>6. ASSUME NEW t \in Thread, GrantHost(t)
      PROVE  /\ UNCHANGED <<conn, catalog, cache, token, stored, now, spent>>
             /\ DOMAIN db' = DOMAIN db /\ db'.present = db.present
  <2>1. UNCHANGED <<conn, catalog, cache, token, stored, now, spent>>
    BY <1>6 DEF GrantHost, ApproveLocal
  <2>2. \/ db' = db
        \/ \E h, r : db' = [db EXCEPT !.allow[h] = r]
        \/ \E i, r : db' = [db EXCEPT !.domain[i] = r]
    <3> DEFINE host == approval[t].row.host
               site == [pattern |-> host, mode |-> "splice", kept |-> FALSE, series |-> FALSE, paths |-> {},
                        access |-> Nobody]
    <3>1. \/ db' = db
          \/ db' = [db EXCEPT !.allow[host] = [access |-> Nobody]]
          \/ \E i \in DOMAIN db.domain : db' = [db EXCEPT !.domain[i] = site]
      BY <1>6, Grantings DEF Granting, Granted
    <3> HIDE DEF site, host
    <3> QED  BY <3>1, Zenon
  <2>3. ASSUME NEW h, NEW r, db' = [db EXCEPT !.allow[h] = r] PROVE DOMAIN db' = DOMAIN db /\ db'.present = db.present
    BY <2>3
  <2>4. ASSUME NEW i, NEW r, db' = [db EXCEPT !.domain[i] = r] PROVE DOMAIN db' = DOMAIN db /\ db'.present = db.present
    BY <2>4
  <2> QED  BY <2>1, <2>2, <2>3, <2>4
<1>7. ASSUME NEW t \in Thread, ApproveStatement(t)
      PROVE  /\ UNCHANGED <<conn, catalog, cache, token, stored, now, spent>>
             /\ DOMAIN db' = DOMAIN db /\ db'.present = db.present
  <2>1. Statement(t) /\ Remains(approval[t], job[t]) /\ UNCHANGED <<conn, catalog, cache, token, stored, spent>>
    BY <1>7 DEF ApproveStatement, TInv, Approvals
  <2>2. now' = now
    BY <2>1 DEF Statement
  <2> QED  BY <2>1, <2>2, StatementKeepsUsers
<1> QED  BY <1>2, <1>3, <1>4, <1>5, <1>6, <1>7 DEF Next

LEMMA ReportShows ==
    ASSUME TInv, Next, ~GateNext({t \in Thread : approval[t] = NoApproval}) PROVE Shown'
<1>1. db'.present.users = db.present.users /\ shows \subseteq db.present.users \X Series
  BY BesideGate DEF TInv, GInv, Shown
<1>2. shows' \subseteq db.present.users \X Series
  <2>1. ASSUME NEW t \in Thread, GrantShow(t) PROVE shows' \subseteq db.present.users \X Series
    <3>1. approval[t].row.series \in Series
      BY <2>1 DEF GrantShow, NoApproval, TInv, Approvals
    <3>2. shows' \subseteq shows \union (db.present.users \X {approval[t].row.series})
      <4>1. \/ shows' = shows \union (db.present.users \X {approval[t].row.series})
            \/ shows' = InsertShow(shows, approval[t].who, approval[t].row.series)
            \/ shows' = shows
        BY <2>1 DEF GrantShow, NoApproval, TInv, Approvals, Scopes
      <4> QED  BY <4>1 DEF InsertShow
    <3> QED  BY <1>1, <3>1, <3>2
  <2>2. shows' = shows \/ \E t \in Thread : GrantShow(t)
    BY DEF Next, Poll, PollBegin, PollEntry, PollEnd, PollFails, PollLocal, Query, LogBlock, RequestApproval,
       DismissRequest, RestartDashboard, ReportLocal, ApproveBegin, GrantHost, ApproveStatement, ApproveFlash,
       ApproveLocal
  <2> QED  BY <1>1, <2>1, <2>2
<1> QED  BY <1>1, <1>2 DEF Shown

LEMMA GateTyped == ASSUME TInv, Next PROVE GInv' /\ Tokens'
<1>1. CASE GateNext({t \in Thread : approval[t] = NoApproval})
  BY <1>1, ConnectionsKeep, CacheKeeps, CountedKeeps, ShowsKeep, TokensKeep DEF GInv, TInv
<1>2. CASE ~GateNext({t \in Thread : approval[t] = NoApproval})
  <2>1. Shown'
    BY <1>2, ReportShows
  <2>2. /\ UNCHANGED <<conn, catalog, cache, token, stored, now>> /\ (spent' = spent \/ spent' = spent + 1)
        /\ DOMAIN db' = DOMAIN db
    BY <1>2, BesideGate
  <2> QED  BY <2>1, <2>2 DEF TInv, GInv, Remembers, Counted, Tokens
<1> QED  BY <1>1, <1>2

\* The rows of the poll, the block page and the requests.
LEMMA ReportLogs ==
    ASSUME TInv, RInv, Next, ~GateNext({t \in Thread : approval[t] = NoApproval})
    PROVE  \A r \in log' : LogRow(r, now)
<1>0. now \in Nat
  BY DEF TInv, GInv, Counted
<1>1. ASSUME log' \subseteq log PROVE \A r \in log' : LogRow(r, now)
  BY <1>1 DEF TInv, LogTyped
<1>2. ASSUME NEW row, LogRow(row, now), log' \subseteq log \union {row}
      PROVE  \A r \in log' : LogRow(r, now)
  BY <1>2 DEF TInv, LogTyped
<1>3. ASSUME NEW r \in log, NEW to, log' = (log \ {r}) \union {[r EXCEPT !.asked = to]}
      PROVE  \A x \in log' : LogRow(x, now)
  <2>1. LogRow([r EXCEPT !.asked = to], now)
    BY DEF TInv, LogTyped, LogRow
  <2> QED  BY <1>2, <1>3, <2>1
<1>4. CASE RequestApproval \/ DismissRequest \/ \E t \in Thread : ApproveBegin(t)
  <2>1. \E r \in log : \E to : log' = (log \ {r}) \union {[r EXCEPT !.asked = to]}
    BY <1>4, Zenon DEF RequestApproval, DismissRequest, ApproveBegin
  <2> QED  BY <1>3, <2>1
<1>5. CASE LogBlock
  <2>1. PICK a \in Client, host \in Host :
           log' = LogAccess(log, Row(Device(db', a), host, None, None, FALSE, "block page"))
    BY <1>5 DEF LogBlock
  <2>2. LogRow(Row(Device(db', a), host, None, None, FALSE, "block page"), now)
    BY <1>0, RowTyped DEF Names
  <2> QED  BY <1>2, <2>1, <2>2, Enters
<1>6. CASE PollEntry
  <2>1. PICK from, m, n : Walk(from, m, n)
    BY <1>6 DEF PollEntry, RInv, Batch
  <2>2. /\ from \in Nat \ {0} /\ m \in Nat /\ n \in Nat /\ m # 0 /\ Head(poll.left) = from + m - 1
        /\ Tail(poll.left) = Down(from, m - 1)
    BY <1>6, <2>1, Countdown DEF Walk, PollEntry
  <2> DEFINE entry == querylog[Head(poll.left)]
  <2>3. entry \in Entry
    <3>1. from + m - 1 \in 1 .. Len(querylog)
      BY <2>1, <2>2, Times DEF Walk, RInv, LogSound
    <3> QED  BY <2>2, <3>1 DEF RInv, LogSound
  <2>4. PICK d : log' = log \/ LET row == Classified(entry, Device(d, entry.client))
                               IN  row # None /\ log' = LogAccess(log, row)
    BY <1>6 DEF PollEntry
  <2> DEFINE dev == Device(d, entry.client)
             row == Classified(entry, dev)
  <2>5. row = None \/ LogRow(row, now)
    <3>1. entry.host \in Names /\ Site[entry.host] \in Names
      BY <2>3 DEF Entry, Names
    <3> DEFINE Good(x) == x = None \/ LogRow(x, now)
    <3>2. Good(IF ManagedHardDeny(entry.host) THEN Row(dev, entry.host, None, None, FALSE, "dns") ELSE None)
      BY <1>0, <3>1, RowTyped
    <3>3. Good(Row(dev, entry.host, None, None, FALSE,
                   IF \E c \in DOMAIN db.category : /\ entry.answer # None /\ db.category[c] # None
                                                    /\ db.category[c].url = entry.answer
                   THEN "category" ELSE "native"))
      BY <1>0, <3>1, RowTyped
    <3>4. Good(IF dev = None THEN None ELSE Row(dev, Site[entry.host], None, None, TRUE, "resolved"))
      BY <1>0, <3>1, RowTyped
    <3>5. Good(None)
      OBVIOUS
    <3>6. entry.answer \in DOMAIN Lists \union {None} \/ entry.answer \in {"block page", "resolved", "empty"}
      BY <2>3 DEF Entry, Verdict
    <3> HIDE DEF Good
    <3>7. Good(Classified(entry, dev))
      BY <3>2, <3>3, <3>4, <3>5, <3>6, Zenon DEF Classified
    <3> QED  BY <3>7 DEF Good
  <2> HIDE DEF row
  <2> QED  BY <1>1, <1>2, <2>4, <2>5, Enters DEF row
<1>7. CASE PollBegin \/ PollEnd \/ PollFails \/ Query \/ RestartDashboard
  <2>1. log' \subseteq log
    BY <1>7 DEF PollBegin, PollEnd, PollFails, PollLocal, Query, RestartDashboard
  <2> QED  BY <1>1, <2>1
<1>8. ASSUME NEW t \in Thread, GrantShow(t) \/ GrantHost(t) \/ ApproveStatement(t) \/ ApproveFlash(t)
      PROVE  \A r \in log' : LogRow(r, now)
  <2>1. log' = log
    BY <1>8 DEF GrantShow, GrantHost, ApproveStatement, ApproveFlash, ApproveLocal
  <2> QED  BY <1>1, <2>1
<1> QED  BY <1>4, <1>5, <1>6, <1>7, <1>8 DEF Next, Poll

LEMMA LogKeeps == ASSUME TInv, RInv, [Next]_reportVars PROVE LogTyped'
<1>1. \A r \in log' : LogRow(r, now)
  <2>1. CASE UNCHANGED reportVars
    BY <2>1 DEF reportVars, gateVars, TInv, LogTyped
  <2> QED  BY <2>1, GateLogs, ReportLogs DEF TInv
<1>2. now \in Nat /\ (now' = now \/ now' = now + 1)
  BY Elapses DEF TInv, GInv, Counted
<1>3. \A r \in log' : LogRow(r, now')
  BY <1>1, <1>2, LaterRow
<1> QED  BY <1>3 DEF LogTyped

LEMMA ApprovalsKeep == ASSUME TInv, Next PROVE Approvals'
<1>0. DOMAIN approval = Thread /\ DOMAIN job = Thread
  BY DEF TInv, Approvals
<1>1. CASE /\ GateNext({t \in Thread : approval[t] = NoApproval})
           /\ UNCHANGED <<querylog, watermark, poll, approval, seen, overrun>>
  <2> DEFINE T == {t \in Thread : approval[t] = NoApproval}
  <2>1. DOMAIN job' = Thread /\ \A t \in Thread \ T : job'[t] = job[t]
    BY <1>0, <1>1, JobsKeep
  <2> QED  BY <1>1, <2>1 DEF TInv, Approvals
<1>2. CASE RestartDashboard
  BY <1>2, <1>0 DEF RestartDashboard, Approvals
<1>3. CASE UNCHANGED <<approval, job>>
  BY <1>3 DEF TInv, Approvals
<1>4. ASSUME NEW t \in Thread, ApproveBegin(t) PROVE Approvals'
  <2>1. PICK r \in log, scope \in Scopes :
           /\ approval' = [approval EXCEPT ![t] =
                            [row |-> r, scope |-> scope, who |-> Beneficiary(r, scope), at |-> "grant",
                             edits |-> edits, quiet |-> Quiet]]
           /\ job[t] = <<>> /\ job' = job
    BY <1>4, Zenon DEF ApproveBegin, householdVars
  <2>2. r.series \in Series \union {None}
    BY DEF TInv, LogTyped, LogRow
  <2> QED  BY <1>0, <2>1, <2>2 DEF TInv, Approvals, Remains
<1>5. ASSUME NEW t \in Thread, GrantShow(t) \/ ApproveFlash(t) PROVE Approvals'
  <2>1. approval' = [approval EXCEPT ![t] = NoApproval] /\ job' = job
    BY <1>5 DEF GrantShow, ApproveFlash, Ends
  <2> QED  BY <1>0, <2>1 DEF TInv, Approvals
<1>6. ASSUME NEW t \in Thread, GrantHost(t) PROVE Approvals'
  <2> DEFINE a == approval[t]
  <2>1. \/ approval' = [approval EXCEPT ![t] = NoApproval] /\ job' = job
        \/ \E table \in {"allow", "domain"} : \E i :
              /\ approval' = [approval EXCEPT ![t].at = "flash"]
              /\ job' = [job EXCEPT ![t] = GrantTo(table, i, a)]
    BY <1>6, Grantings, Zenon DEF Granting, Granted, Ends
  <2>2. CASE approval' = [approval EXCEPT ![t] = NoApproval] /\ job' = job
    BY <1>0, <2>2 DEF TInv, Approvals
  <2>3. ASSUME NEW table \in {"allow", "domain"}, NEW i,
               approval' = [approval EXCEPT ![t].at = "flash"],
               job' = [job EXCEPT ![t] = GrantTo(table, i, a)]
        PROVE  Approvals'
    <3>1. a # NoApproval
      BY <1>6 DEF GrantHost, NoApproval
    <3>2. GrantTo(table, i, [a EXCEPT !.at = "flash"]) = GrantTo(table, i, a)
      BY DEF GrantTo
    <3> QED  BY <1>0, <2>3, <3>1, <3>2 DEF TInv, Approvals, Remains
  <2> QED  BY <2>1, <2>2, <2>3
<1>7. ASSUME NEW t \in Thread, ApproveStatement(t) PROVE Approvals'
  <2>1. /\ DOMAIN job' = DOMAIN job /\ \A u \in DOMAIN job : u # t => job'[u] = job[u]
        /\ job'[t] = <<>>
    BY <1>0, <1>7, StatementKeepsUsers DEF ApproveStatement, TInv, Approvals
  <2>2. approval' = approval \/ approval' = [approval EXCEPT ![t] = NoApproval]
    BY <1>7 DEF ApproveStatement
  <2> QED  BY <1>0, <2>1, <2>2 DEF TInv, Approvals, Remains
<1>8. CASE Poll \/ PollFails \/ Query \/ LogBlock \/ RequestApproval \/ DismissRequest
  <2>1. UNCHANGED <<approval, job>>
    BY <1>8 DEF Poll, PollBegin, PollEntry, PollEnd, PollFails, PollLocal, Query, LogBlock, RequestApproval,
       DismissRequest, ReportLocal, householdVars
  <2> QED  BY <1>3, <2>1
<1> QED  BY <1>1, <1>2, <1>4, <1>5, <1>6, <1>7, <1>8 DEF Next

LEMMA PagedKeeps == ASSUME TInv, RInv, [Next]_reportVars PROVE Paged'
<1>0. Len(querylog) \in Nat /\ overrun \subseteq 1 .. Len(querylog)
  BY Times DEF TInv, Paged
<1>1. CASE PollBegin
  <2>1. querylog' = querylog
    BY <1>1 DEF PollBegin, PollLocal
  <2>2. overrun' \subseteq overrun \union 1 .. Len(querylog)
    BY <1>0, <1>1, LimitAssumption DEF PollBegin
  <2> QED  BY <1>0, <2>1, <2>2 DEF Paged
<1>2. CASE Query
  <2>1. overrun' = overrun /\ Len(querylog') = Len(querylog) + 1
    BY <1>2 DEF Query, RInv, LogSound
  <2> QED  BY <1>0, <2>1 DEF Paged
<1>3. CASE PollEntry \/ PollEnd
  BY <1>0, <1>3 DEF PollEntry, PollEnd, PollLocal, Paged
<1>4. CASE ~PollBegin /\ ~PollEntry /\ ~PollEnd /\ ~Query
  BY <1>0, <1>4, Others DEF Paged
<1> QED  BY <1>1, <1>2, <1>3, <1>4

LEMMA TypesInit == ASSUME Init PROVE TInv
<1>1. GInv
  BY InitInv DEF Init
<1>2. Tokens /\ Approvals /\ Paged
  BY DEF Init, GateInit, Tokens, Approvals, Paged
<1>3. LogTyped
  BY DEF Init, GateInit, Prepared, LogTyped, LogRow, Names
<1> QED  BY <1>1, <1>2, <1>3 DEF TInv

LEMMA TypesNext == ASSUME TInv, RInv, [Next]_reportVars PROVE TInv'
<1>1. CASE Next
  BY <1>1, GateTyped, LogKeeps, ApprovalsKeep, PagedKeeps DEF TInv
<1>2. CASE UNCHANGED reportVars
  <2>1. GInv' /\ Tokens' /\ Approvals' /\ Paged'
    BY <1>2 DEF reportVars, gateVars, householdVars, crVars, TInv, GInv, Remembers, Counted, Shown, Tokens,
       Approvals, Paged
  <2> QED  BY <2>1, LogKeeps DEF TInv
<1> QED  BY <1>1, <1>2

LEMMA Typed == ASSUME TInv, RInv PROVE TypeOK
<1>1. GateTypeOK
  <2>1. \A f \in Flow : Sound(conn[f], stored)
    BY DEF TInv, GInv, Connections
  <2> QED
    BY <2>1 DEF GateTypeOK, TInv, GInv, Tokens, LogTyped, LogRow, Remembers, Shown, Sound, NoLocals, Looking
<1>2. \A r \in log : r.host \in Host \union {Site[h] : h \in Host}
  BY DEF TInv, LogTyped, LogRow, Names
<1>3. watermark \in 0 .. now + 1
  BY Times DEF RInv, Reached, LogSound
<1>4. seen \union overrun \subseteq 1 .. Len(querylog)
  BY Times DEF TInv, Paged, RInv, LogSound
<1> QED  BY <1>1, <1>2, <1>3, <1>4 DEF TypeOK

\* The rows of the report are of hosts and times that there are, a user who is gone has no
\* shows, although an approval found the user before the deletion (approve_from_report,
\* user_shows), and the poll's watermark is not ahead of the clock (correlate_once).
THEOREM ReportTypes == Spec => []TypeOK
<1>1. Init => TInv /\ RInv
  BY TypesInit, ReportsInit
<1>2. (TInv /\ RInv) /\ [Next]_reportVars => (TInv /\ RInv)'
  BY TypesNext, ReportsNext
<1>3. TInv /\ RInv => TypeOK
  BY Typed
<1> QED  BY <1>1, <1>2, <1>3, PTL DEF Spec

-----------------------------------------------------------------------------
(* An approval keeps what it says.                                         *)

Whom == Person \union Nat

Audited == [everyone : BOOLEAN, users : SUBSET Whom, groups : SUBSET Whom, devices : SUBSET Whom]

Sites == [pattern : Pattern, mode : DomainMode, kept : BOOLEAN, series : BOOLEAN, paths : SUBSET STRING,
          access : Audited]

Exceptions == [access : Audited]

\* The tables that an approval writes, and who there is.
Kept(d) ==
    /\ {"domain", "allow", "present"} \subseteq DOMAIN d
    /\ d.domain \in [DOMAIN d.domain -> Sites \union {None}]
    /\ DOMAIN d.domain \subseteq Nat /\ None \notin DOMAIN d.domain /\ IsFiniteSet(DOMAIN d.domain)
    /\ d.allow \in [Pattern -> Exceptions \union {None}]
    /\ Kind \subseteq DOMAIN d.present /\ \A k \in Kind : d.present[k] \subseteq Whom
    /\ d.present.devices \subseteq Nat /\ IsFiniteSet(d.present.devices)

LEMMA NoSite == None \notin Sites /\ None \notin Exceptions
  BY HealedRowAssumption DEF Sites, Exceptions, Audited, Whom

\* A set of ids has a least one.
LEMMA LeastId ==
    ASSUME NEW S, S \subseteq Nat, S # {}
    PROVE  Least(S) \in S /\ \A x \in S : Least(S) <= x
<1> DEFINE R == OpToRel(<, Nat)
<1>1. \A x, y \in Nat : x < y <=> <<x, y>> \in R
  BY DEF OpToRel
<1>2. IsWellFoundedOn(R, Nat)
  BY NatLessThanWellFounded
<1> HIDE DEF R
<1>3. IsWellFoundedOn(R, S)
  BY <1>2, IsWellFoundedOnSubset
<1>4. PICK x \in S : \A y \in S : <<y, x>> \notin R
  BY <1>3, WFMin
<1>5. \A y \in S : ~(y < x)
  BY <1>1, <1>4, Zenon
<1>6. \A y \in S : x <= y
  BY <1>5
<1> QED  BY <1>6 DEF Least

\* Finitely many ids have a bound.
LEMMA Bounded ==
    ASSUME NEW S, S \subseteq Nat, IsFiniteSet(S)
    PROVE  \E n \in Nat : \A x \in S : x <= n
<1>1. PICK m \in Nat : \E f \in [1 .. m -> S] : \A x \in S : \E k \in 1 .. m : f[k] = x
  <2>1. Cardinality(S) \in Nat /\ ExistsBijection(1 .. Cardinality(S), S)
    BY FS_CardinalityType
  <2>2. PICK g : g \in Bijection(1 .. Cardinality(S), S)
    BY <2>1 DEF ExistsBijection
  <2>3. g \in [1 .. Cardinality(S) -> S] /\ \A x \in S : \E k \in 1 .. Cardinality(S) : g[k] = x
    BY <2>2 DEF Bijection, Injection, Surjection
  <2> QED  BY <2>1, <2>3
<1>5. PICK f \in [1 .. m -> S] : \A x \in S : \E k \in 1 .. m : f[k] = x
  BY <1>1
<1>6. \A k \in 1 .. m : f[k] \in Nat
  BY <1>5
<1> DEFINE Under(k) == \E n \in Nat : \A j \in 1 .. k : f[j] <= n
           A == {k \in Nat : k <= m /\ ~Under(k)}
<1>2. Under(0)
  BY 0 \in Nat
<1>3. CASE Under(m)
  BY <1>3, <1>5
<1>4. CASE ~Under(m)
  <2> HIDE DEF Under
  <2>1. A \subseteq Nat /\ A # {}
    BY <1>4
  <2>2. PICK k : k \in A /\ \A x \in A : k <= x
    BY <2>1, LeastId
  <2>3. k \in Nat /\ ~Under(k) /\ k <= m /\ k # 0
    BY <1>2, <2>2
  <2>4. k - 1 \in Nat /\ k - 1 <= m /\ ~(k <= k - 1)
    BY <2>3
  <2>5. Under(k - 1)
    BY <2>2, <2>4
  <2>6. PICK n \in Nat : \A j \in 1 .. k - 1 : f[j] <= n
    BY <2>5 DEF Under
  <2>7. f[k] \in Nat
    BY <1>6, <2>3
  <2>8. PICK b \in Nat : n <= b /\ f[k] <= b
    <3>1. n <= f[k] \/ f[k] <= n
      BY <2>7
    <3>2. n <= n /\ f[k] <= f[k]
      BY <2>7
    <3> QED  BY <2>7, <3>1, <3>2
  <2>9. \A j \in 1 .. k : f[j] <= b
    <3> SUFFICES ASSUME NEW j \in 1 .. k PROVE f[j] <= b
      OBVIOUS
    <3>1. f[j] \in Nat
      BY <1>6, <2>3
    <3>2. j \in 1 .. k - 1 \/ j = k
      BY <2>3
    <3> QED  BY <2>6, <2>8, <3>1, <3>2
  <2> QED  BY <2>3, <2>9 DEF Under
<1> QED  BY <1>3, <1>4

\* So there is a greatest one.
LEMMA GreatestId ==
    ASSUME NEW S, S \subseteq Nat, IsFiniteSet(S), S # {}
    PROVE  Greatest(S) \in S /\ \A x \in S : x <= Greatest(S)
<1> DEFINE N == {n \in Nat : \A x \in S : x <= n}
<1>1. N \subseteq Nat /\ N # {}
  BY Bounded
<1>2. Least(N) \in N /\ \A n \in N : Least(N) <= n
  BY <1>1, LeastId
<1>5. PICK n : n = Least(N)
  OBVIOUS
<1>3. n \in S
  <2> SUFFICES ASSUME n \notin S PROVE FALSE
    OBVIOUS
  <2>1. n \in Nat /\ \A x \in S : x <= n /\ x # n
    BY <1>2, <1>5
  <2>2. n # 0
    <3>1. \E x \in S : x <= n /\ x # n /\ x \in Nat
      BY <2>1
    <3> QED  BY <3>1, <2>1
  <2>3. n - 1 \in N
    BY <2>1, <2>2
  <2> QED  BY <1>2, <1>5, <2>1, <2>3
<1>4. n \in Nat /\ \A x \in S : x <= n
  BY <1>2, <1>5
<1> QED  BY <1>3, <1>4 DEF Greatest

\* A new id is above those in use.
LEMMA NewIdIs ==
    ASSUME Kept(db), NEW i, NewId("domain", i)
    PROVE  /\ i \in DOMAIN db.domain /\ db.domain[i] = None
           /\ \A j \in DOMAIN db.domain : db.domain[j] # None => j < i
<1> DEFINE S == {0} \union {j \in DOMAIN db.domain : db.domain[j] # None}
<1>1. S \subseteq Nat /\ S # {}
  BY DEF Kept
<1>2. IsFiniteSet(S)
  <2>1. IsFiniteSet({j \in DOMAIN db.domain : db.domain[j] # None})
    BY FS_Subset DEF Kept
  <2>2. S = {j \in DOMAIN db.domain : db.domain[j] # None} \union {0}
    OBVIOUS
  <2> HIDE DEF S
  <2> QED  BY <2>1, <2>2, FS_AddElement
<1>3. Greatest(S) \in Nat /\ \A x \in S : x <= Greatest(S)
  BY <1>1, <1>2, GreatestId
<1>4. i = 1 + Greatest(S) /\ i \in DOMAIN db.domain
  BY DEF NewId
<1> HIDE DEF S
<1>5. i \notin S /\ \A x \in S : x < i
  BY <1>1, <1>3, <1>4
<1> QED  BY <1>4, <1>5 DEF S

\* What find_domain finds.
LEMMA Finds ==
    ASSUME NEW d, Kept(d), NEW host
    PROVE  LET i == FindDomain(d.domain, host)
               hits == {j \in DOMAIN d.domain : d.domain[j] # None /\ host \in Covers[d.domain[j].pattern]}
           IN  \/ i = None /\ hits = {}
               \/ i \in hits /\ (\A j \in hits : i <= j) /\ i # None
<1> DEFINE hits == {j \in DOMAIN d.domain : d.domain[j] # None /\ host \in Covers[d.domain[j].pattern]}
<1>1. FindDomain(d.domain, host) = IF hits = {} THEN None ELSE Least(hits)
  BY DEF FindDomain
<1>2. hits \subseteq Nat /\ None \notin hits
  BY DEF Kept
<1>3. hits # {} => Least(hits) \in hits /\ \A j \in hits : Least(hits) <= j
  BY <1>2, LeastId
<1> HIDE DEF hits
<1>4. \/ FindDomain(d.domain, host) = None /\ hits = {}
      \/ /\ FindDomain(d.domain, host) \in hits /\ \A j \in hits : FindDomain(d.domain, host) <= j
         /\ FindDomain(d.domain, host) # None
  BY <1>1, <1>2, <1>3
<1> QED  BY <1>4 DEF hits

\* Other tables and an unchanged report of who there is do not matter.
LEMMA Alike ==
    ASSUME NEW d, Kept(d), NEW e, {"domain", "allow", "present"} \subseteq DOMAIN e,
           e.domain = d.domain, e.allow = d.allow, e.present = d.present
    PROVE  Kept(e)
  BY DEF Kept

LEMMA NewSites ==
    ASSUME NEW d, Kept(d), NEW x \in [DOMAIN d.domain -> Sites \union {None}]
    PROVE  Kept([d EXCEPT !.domain = x])
<1> DEFINE e == [d EXCEPT !.domain = x]
<1>1. DOMAIN e = DOMAIN d /\ e.domain = x /\ e.allow = d.allow /\ e.present = d.present
  BY DEF Kept
<1>2. DOMAIN x = DOMAIN d.domain
  OBVIOUS
<1> HIDE DEF e
<1>3. Kept(e)
  BY <1>1, <1>2 DEF Kept
<1> QED  BY <1>3 DEF e

LEMMA NewExceptions ==
    ASSUME NEW d, Kept(d), NEW x \in [Pattern -> Exceptions \union {None}]
    PROVE  Kept([d EXCEPT !.allow = x])
<1> DEFINE e == [d EXCEPT !.allow = x]
<1>1. DOMAIN e = DOMAIN d /\ e.domain = d.domain /\ e.allow = x /\ e.present = d.present
  BY DEF Kept
<1> HIDE DEF e
<1>2. Kept(e)
  BY <1>1 DEF Kept
<1> QED  BY <1>2 DEF e

\* The two tables.
Table == {"domain", "allow"}

LEMMA Audit ==
    ASSUME NEW d, Kept(d), NEW table \in Table, NEW row, d[table][row] # None, row \in DOMAIN d[table]
    PROVE  d[table][row].access \in Audited
<1>1. CASE table = "domain"
  BY <1>1 DEF Kept, Sites
<1>2. CASE table = "allow"
  BY <1>2 DEF Kept, Exceptions
<1> QED  BY <1>1, <1>2 DEF Table

\* A row gets another audience.
LEMMA Reaudited ==
    ASSUME NEW d, Kept(d), NEW table \in Table, NEW row, d[table][row] # None,
           NEW a, row \in DOMAIN d[table] => a \in Audited
    PROVE  Kept([d EXCEPT ![table][row].access = a])
<1>1. CASE table = "domain"
  <2> DEFINE x == [d.domain EXCEPT ![row].access = a]
  <2>1. row \in DOMAIN d.domain => d.domain[row] \in Sites
    BY <1>1 DEF Kept
  <2>2. row \in DOMAIN d.domain => [d.domain[row] EXCEPT !.access = a] \in Sites
    BY <1>1, <2>1 DEF Sites
  <2>3. x \in [DOMAIN d.domain -> Sites \union {None}]
    BY <2>2 DEF Kept
  <2>4. [d EXCEPT ![table][row].access = a] = [d EXCEPT !.domain = x]
    BY <1>1
  <2> HIDE DEF x
  <2> QED  BY <2>3, <2>4, NewSites
<1>2. CASE table = "allow"
  <2> DEFINE x == [d.allow EXCEPT ![row].access = a]
  <2>1. row \in Pattern => [d.allow[row] EXCEPT !.access = a] \in Exceptions
    BY <1>2 DEF Kept, Exceptions
  <2>2. x \in [Pattern -> Exceptions \union {None}]
    BY <2>1 DEF Kept
  <2>3. [d EXCEPT ![table][row].access = a] = [d EXCEPT !.allow = x]
    BY <1>2
  <2> HIDE DEF x
  <2> QED  BY <2>2, <2>3, NewExceptions
<1> QED  BY <1>1, <1>2 DEF Table

\* What a request on these tables may leave to do.
Id == Nat \union Pattern

Statements ==
    [do : {"scope"}, table : Table, row : Id, to : BOOLEAN]
        \union [do : {"clear"}, table : Table, row : Id, kind : Kind]
        \union [do : {"grant"}, table : Table, row : Id, kind : Kind, who : Whom]

Work == Seq(Statements)

LEMMA ScopeKept ==
    ASSUME NEW d, Kept(d), NEW table \in Table, NEW row, NEW to \in BOOLEAN
    PROVE  Kept(Exec(d, Scope(table, row, to)))
<1>1. CASE d[table][row] = None
  BY <1>1 DEF Scope, Exec
<1>2. CASE d[table][row] # None
  <2> DEFINE a == [d[table][row].access EXCEPT !.everyone = to]
  <2>1. row \in DOMAIN d[table] => a \in Audited
    BY <1>2, Audit DEF Audited
  <2> HIDE DEF a
  <2>2. Exec(d, Scope(table, row, to)) = [d EXCEPT ![table][row].access = a]
    BY <1>2 DEF Exec, Scope, a
  <2>3. Kept([d EXCEPT ![table][row].access = a])
    BY <1>2, <2>1, Reaudited
  <2> QED  BY <2>2, <2>3
<1> QED  BY <1>1, <1>2

LEMMA ClearKept ==
    ASSUME NEW d, Kept(d), NEW table \in Table, NEW row, NEW kind \in Kind
    PROVE  Kept(Exec(d, Clear(table, row, kind)))
<1>1. CASE d[table][row] = None
  BY <1>1 DEF Clear, Exec
<1>2. CASE d[table][row] # None
  <2> DEFINE a == [d[table][row].access EXCEPT ![kind] = {}]
  <2>1. row \in DOMAIN d[table] => a \in Audited
    BY <1>2, Audit DEF Audited, Kind
  <2> HIDE DEF a
  <2>2. Exec(d, Clear(table, row, kind)) = [d EXCEPT ![table][row].access = a]
    BY <1>2 DEF Exec, Clear, a
  <2>3. Kept([d EXCEPT ![table][row].access = a])
    BY <1>2, <2>1, Reaudited
  <2> QED  BY <2>2, <2>3
<1> QED  BY <1>1, <1>2

LEMMA GrantKept ==
    ASSUME NEW d, Kept(d), NEW table \in Table, NEW row, NEW kind \in Kind, NEW who,
           ~Fails(d, Grant(table, row, kind, who))
    PROVE  Kept(Exec(d, Grant(table, row, kind, who)))
<1> DEFINE a == [d[table][row].access EXCEPT ![kind] = @ \union {who}]
<1>1. d[table][row] # None /\ who \in Whom
  BY DEF Fails, Grant, Kept
<1>2. row \in DOMAIN d[table] => a \in Audited
  BY <1>1, Audit DEF Audited, Kind
<1> HIDE DEF a
<1>3. Exec(d, Grant(table, row, kind, who)) = [d EXCEPT ![table][row].access = a]
  BY <1>1 DEF Exec, Grant, a
<1>4. Kept([d EXCEPT ![table][row].access = a])
  BY <1>1, <1>2, Reaudited
<1> QED  BY <1>3, <1>4

LEMMA StatementKept ==
    ASSUME NEW d, Kept(d), NEW s \in Statements, ~Fails(d, s)
    PROVE  Kept(Exec(d, s))
<1>1. CASE s \in [do : {"scope"}, table : Table, row : Id, to : BOOLEAN]
  <2>1. s = Scope(s.table, s.row, s.to) /\ s.table \in Table /\ s.to \in BOOLEAN
    BY <1>1 DEF Scope
  <2> QED  BY <2>1, ScopeKept
<1>2. CASE s \in [do : {"clear"}, table : Table, row : Id, kind : Kind]
  <2>1. s = Clear(s.table, s.row, s.kind) /\ s.table \in Table /\ s.kind \in Kind
    BY <1>2 DEF Clear
  <2> QED  BY <2>1, ClearKept
<1>3. CASE s \in [do : {"grant"}, table : Table, row : Id, kind : Kind, who : Whom]
  <2>1. s = Grant(s.table, s.row, s.kind, s.who) /\ s.table \in Table /\ s.kind \in Kind
    BY <1>3 DEF Grant
  <2> QED  BY <2>1, GrantKept
<1> QED  BY <1>1, <1>2, <1>3 DEF Statements

\* Row r has become q, for whom r admitted and perhaps others.
Wider(r, q) ==
    /\ q # None
    /\ r.access.everyone => q.access.everyone
    /\ \A k \in Kind : r.access[k] \subseteq q.access[k]

\* The tables only grow: no row is taken away or narrowed, and a new domain comes after those
\* there are.
Grows(d, e) ==
    /\ DOMAIN e.domain = DOMAIN d.domain
    /\ \A i \in DOMAIN d.domain :
          /\ d.domain[i] # None => Wider(d.domain[i], e.domain[i]) /\ e.domain[i].pattern = d.domain[i].pattern
          /\ d.domain[i] = None /\ e.domain[i] # None =>
                \A j \in DOMAIN d.domain : d.domain[j] # None => j < i
    /\ \A p \in Pattern : d.allow[p] # None => Wider(d.allow[p], e.allow[p])

LEMMA Stay ==
    ASSUME NEW d, NEW e, e.domain = d.domain, e.allow = d.allow
    PROVE  Grows(d, e)
  BY DEF Grows, Wider

\* In e, the row has audience a.
Has(e, table, row, a) == row \in DOMAIN e[table] => e[table][row] # None /\ e[table][row].access = a

\* A row that gets a wider audience.
LEMMA Widened ==
    ASSUME NEW d, Kept(d), NEW table \in Table, NEW row, d[table][row] # None,
           NEW a, row \in DOMAIN d[table] =>
                     /\ a \in Audited
                     /\ d[table][row].access.everyone => a.everyone
                     /\ \A k \in Kind : d[table][row].access[k] \subseteq a[k],
           NEW e, e = [d EXCEPT ![table][row].access = a]
    PROVE  Grows(d, e) /\ Has(e, table, row, a)
<1>1. CASE table = "domain"
  <2>1. e.allow = d.allow /\ e.domain = [d.domain EXCEPT ![row].access = a]
    BY <1>1 DEF Kept
  <2>2. ASSUME row \in DOMAIN d.domain
        PROVE  /\ e.domain[row] \in Sites /\ e.domain[row].access = a
               /\ e.domain[row].pattern = d.domain[row].pattern
    <3>1. d.domain[row] \in Sites
      BY <1>1, <2>2 DEF Kept
    <3>2. e.domain[row] = [d.domain[row] EXCEPT !.access = a]
      BY <2>1, <2>2
    <3> QED  BY <1>1, <2>2, <3>1, <3>2 DEF Sites
  <2>3. \A i \in DOMAIN d.domain : i # row => e.domain[i] = d.domain[i]
    BY <2>1
  <2>4. DOMAIN e.domain = DOMAIN d.domain
    BY <2>1
  <2> QED  BY <1>1, <2>1, <2>2, <2>3, <2>4, NoSite DEF Grows, Wider, Has
<1>2. CASE table = "allow"
  <2>1. e.domain = d.domain /\ e.allow = [d.allow EXCEPT ![row].access = a] /\ DOMAIN d.allow = Pattern
    BY <1>2 DEF Kept
  <2>2. ASSUME row \in Pattern PROVE e.allow[row] \in Exceptions /\ e.allow[row].access = a
    <3>1. d.allow[row] \in Exceptions
      BY <1>2, <2>2 DEF Kept
    <3>2. e.allow[row] = [d.allow[row] EXCEPT !.access = a]
      BY <2>1, <2>2
    <3> QED  BY <1>2, <2>1, <2>2, <3>1, <3>2 DEF Exceptions
  <2>3. \A p \in Pattern : p # row => e.allow[p] = d.allow[p]
    BY <2>1
  <2> QED  BY <1>2, <2>1, <2>2, <2>3, NoSite DEF Grows, Wider, Has
<1> QED  BY <1>1, <1>2 DEF Table

\* A grant to everyone.
LEMMA ScopeGrows ==
    ASSUME NEW d, Kept(d), NEW table \in Table, NEW row, NEW e, e = Exec(d, Scope(table, row, TRUE))
    PROVE  /\ Grows(d, e)
           /\ row \in DOMAIN d[table] /\ d[table][row] # None =>
                 e[table][row] # None /\ e[table][row].access.everyone
<1>1. CASE d[table][row] = None
  BY <1>1, Stay DEF Scope, Exec
<1>2. CASE d[table][row] # None
  <2>5. PICK a : a = [d[table][row].access EXCEPT !.everyone = TRUE]
    OBVIOUS
  <2>1. row \in DOMAIN d[table] =>
           /\ a \in Audited
           /\ d[table][row].access.everyone => a.everyone
           /\ \A k \in Kind : d[table][row].access[k] \subseteq a[k]
    BY <1>2, <2>5, Audit DEF Audited, Kind
  <2>4. row \in DOMAIN d[table] => a.everyone
    BY <1>2, <2>5, Audit DEF Audited
  <2>2. e = [d EXCEPT ![table][row].access = a]
    BY <1>2, <2>5 DEF Exec, Scope
  <2>3. Grows(d, e) /\ Has(e, table, row, a)
    BY <1>2, <2>1, <2>2, Widened
  <2>6. DOMAIN e[table] = DOMAIN d[table]
    BY <1>2, <2>2 DEF Kept, Table
  <2> QED  BY <2>3, <2>4, <2>6 DEF Has
<1> QED  BY <1>1, <1>2

\* A grant to somebody.
LEMMA GrantGrows ==
    ASSUME NEW d, Kept(d), NEW table \in Table, NEW row, NEW kind \in Kind, NEW who,
           ~Fails(d, Grant(table, row, kind, who)), NEW e, e = Exec(d, Grant(table, row, kind, who))
    PROVE  /\ Grows(d, e)
           /\ row \in DOMAIN d[table] /\ d[table][row] # None =>
                 e[table][row] # None /\ who \in e[table][row].access[kind]
<1>6. PICK a : a = [d[table][row].access EXCEPT ![kind] = @ \union {who}]
  OBVIOUS
<1>1. d[table][row] # None /\ who \in Whom
  BY DEF Fails, Grant, Kept
<1>2. row \in DOMAIN d[table] =>
         /\ a \in Audited
         /\ d[table][row].access.everyone => a.everyone
         /\ \A k \in Kind : d[table][row].access[k] \subseteq a[k]
  BY <1>1, <1>6, Audit DEF Audited, Kind
<1>5. row \in DOMAIN d[table] => who \in a[kind]
  BY <1>1, <1>6, Audit DEF Audited, Kind
<1>3. e = [d EXCEPT ![table][row].access = a]
  BY <1>1, <1>6 DEF Exec, Grant
<1>4. Grows(d, e) /\ Has(e, table, row, a)
  BY <1>1, <1>2, <1>3, Widened
<1>7. DOMAIN e[table] = DOMAIN d[table]
  BY <1>1, <1>3 DEF Kept, Table
<1> QED  BY <1>4, <1>5, <1>7 DEF Has

\* A new row.
LEMMA SiteAdded ==
    ASSUME NEW d, Kept(d), NEW i \in DOMAIN d.domain, d.domain[i] = None,
           \A j \in DOMAIN d.domain : d.domain[j] # None => j < i,
           NEW x \in Sites, NEW e, e = [d EXCEPT !.domain[i] = x]
    PROVE  Kept(e) /\ Grows(d, e) /\ e.domain[i] = x
<1>1. e = [d EXCEPT !.domain = [d.domain EXCEPT ![i] = x]] /\ e.allow = d.allow
      /\ e.domain = [d.domain EXCEPT ![i] = x]
  BY DEF Kept
<1>2. [d.domain EXCEPT ![i] = x] \in [DOMAIN d.domain -> Sites \union {None}]
  BY DEF Kept
<1>3. Kept([d EXCEPT !.domain = [d.domain EXCEPT ![i] = x]])
  BY <1>2, NewSites
<1>4. Grows(d, e)
  BY <1>1 DEF Grows, Wider
<1> QED  BY <1>1, <1>3, <1>4

LEMMA ExceptionAdded ==
    ASSUME NEW d, Kept(d), NEW p \in Pattern, d.allow[p] = None,
           NEW x \in Exceptions, NEW e, e = [d EXCEPT !.allow[p] = x]
    PROVE  Kept(e) /\ Grows(d, e) /\ e.allow[p] = x
<1>1. e = [d EXCEPT !.allow = [d.allow EXCEPT ![p] = x]] /\ e.domain = d.domain
      /\ e.allow = [d.allow EXCEPT ![p] = x] /\ DOMAIN d.allow = Pattern
  BY DEF Kept
<1>2. [d.allow EXCEPT ![p] = x] \in [Pattern -> Exceptions \union {None}]
  BY DEF Kept
<1>3. Kept([d EXCEPT !.allow = [d.allow EXCEPT ![p] = x]])
  BY <1>2, NewExceptions
<1>4. Grows(d, e)
  BY <1>1 DEF Grows, Wider
<1> QED  BY <1>1, <1>3, <1>4

\* The row that is found for a host stays the one.
LEMMA FoundStays ==
    ASSUME NEW d, NEW e, Kept(d), Kept(e), Grows(d, e), NEW host, FindDomain(d.domain, host) # None
    PROVE  FindDomain(e.domain, host) = FindDomain(d.domain, host)
<1> DEFINE hits(x) == {j \in DOMAIN x.domain : x.domain[j] # None /\ host \in Covers[x.domain[j].pattern]}
           i == FindDomain(d.domain, host)
           k == FindDomain(e.domain, host)
<1>1. i \in hits(d) /\ \A j \in hits(d) : i <= j
  BY Finds
<1>2. i \in hits(e)
  BY <1>1 DEF Grows, Wider
<1>3. k \in hits(e) /\ \A j \in hits(e) : k <= j
  BY <1>2, Finds
<1> HIDE DEF i, k
<1>4. i \in Nat /\ k \in Nat
  BY <1>1, <1>3 DEF Kept
<1>5. d.domain[k] # None
  <2> SUFFICES ASSUME d.domain[k] = None PROVE FALSE
    OBVIOUS
  <2>1. k \in DOMAIN d.domain /\ e.domain[k] # None /\ i \in DOMAIN d.domain /\ d.domain[i] # None
    BY <1>1, <1>3 DEF Grows
  <2>2. i < k
    BY <2>1 DEF Grows
  <2> QED  BY <1>2, <1>3, <1>4, <2>2
<1>6. k \in hits(d)
  BY <1>3, <1>5 DEF Grows
<1>7. i <= k /\ k <= i
  BY <1>1, <1>2, <1>3, <1>6
<1> QED  BY <1>4, <1>7 DEF i, k

\* The row that approval a is to write: the one that the helpers, or the DNS rules, find.
TableOf(a) == IF a.row.reason \in {"category", "native"} THEN "allow" ELSE "domain"
RowOf(a, d) == IF TableOf(a) = "allow" THEN a.row.host ELSE FindDomain(d.domain, a.row.host)

Admitted(a, access) == IF a.scope = "global" THEN access.everyone ELSE a.who \in access[a.scope]

\* It is there and admits whom the approval is for, unless that is the statement to come.
Due(a, d, statements) ==
    LET i == RowOf(a, d)
    IN  /\ i \in DOMAIN d[TableOf(a)] /\ d[TableOf(a)][i] # None
        /\ \/ Admitted(a, d[TableOf(a)][i].access)
           \/ statements = GrantTo(TableOf(a), i, a)

\* An approval, by its own fields.
Posted(a) ==
    /\ DOMAIN a = {"row", "scope", "who", "at", "edits", "quiet"}
    /\ a.scope \in Scopes /\ a.at \in {"grant", "flash"} /\ a.row.host \in Names

LEMMA PostedHost ==
    ASSUME NEW a, Posted(a)
    PROVE  a.row.host \in Pattern /\ a.row.host \in Covers[a.row.host]
  BY NamesAssumption DEF Posted, Names

LEMMA PostedTable ==
    ASSUME NEW a PROVE TableOf(a) \in Table /\ (TableOf(a) = "allow" <=> a.row.reason \in {"category", "native"})
  BY DEF TableOf, Table

\* As the tables only grow, what is due stays due.
LEMMA DueStays ==
    ASSUME NEW a, Posted(a), NEW d, NEW e, Kept(d), Kept(e), Grows(d, e), NEW s, Due(a, d, s)
    PROVE  RowOf(a, e) = RowOf(a, d) /\ Due(a, e, s)
<1>1. CASE TableOf(a) = "allow"
  <2>1. RowOf(a, e) = a.row.host /\ RowOf(a, d) = a.row.host
    BY <1>1 DEF RowOf
  <2>2. a.row.host \in Pattern /\ DOMAIN e.allow = Pattern
    BY PostedHost DEF Kept
  <2>3. d.allow[a.row.host] # None /\ Wider(d.allow[a.row.host], e.allow[a.row.host])
    BY <1>1, <2>1, <2>2 DEF Due, Grows
  <2> QED  BY <1>1, <2>1, <2>2, <2>3 DEF Due, Wider, Admitted, Posted, Scopes, Kind
<1>2. CASE TableOf(a) = "domain"
  <2> DEFINE i == FindDomain(d.domain, a.row.host)
  <2>1. RowOf(a, d) = i /\ i \in DOMAIN d.domain /\ d.domain[i] # None
    BY <1>2 DEF RowOf, Due
  <2>2. i # None
    BY <2>1 DEF Kept
  <2>3. FindDomain(e.domain, a.row.host) = i
    BY <2>2, FoundStays
  <2>4. RowOf(a, e) = i
    BY <1>2, <2>3 DEF RowOf
  <2>5. i \in DOMAIN e.domain /\ Wider(d.domain[i], e.domain[i])
    BY <2>1 DEF Grows
  <2> HIDE DEF i
  <2> QED  BY <1>2, <2>1, <2>4, <2>5 DEF Due, Wider, Admitted, Posted, Scopes, Kind
<1> QED  BY <1>1, <1>2, PostedTable DEF Table

\* The statement that grants is executed: any approval's tables grow, and its own is no longer due.
LEMMA GrantDone ==
    ASSUME NEW a, Posted(a), NEW d, Kept(d), NEW table \in Table, NEW i,
           NEW s, s = Head(GrantTo(table, i, a)), ~Fails(d, s), NEW e, e = Exec(d, s)
    PROVE  /\ Kept(e) /\ Grows(d, e)
           /\ i \in DOMAIN d[table] /\ d[table][i] # None =>
                 e[table][i] # None /\ Admitted(a, e[table][i].access)
<1>1. CASE a.scope = "global"
  <2>1. e = Exec(d, Scope(table, i, TRUE))
    BY <1>1 DEF GrantTo
  <2>2. Kept(Exec(d, Scope(table, i, TRUE)))
    BY ScopeKept
  <2>3. /\ Grows(d, e)
        /\ i \in DOMAIN d[table] /\ d[table][i] # None => e[table][i] # None /\ e[table][i].access.everyone
    BY <2>1, ScopeGrows
  <2> QED  BY <1>1, <2>1, <2>2, <2>3 DEF Admitted
<1>2. CASE a.scope # "global"
  <2>1. a.scope \in Kind /\ s = Grant(table, i, a.scope, a.who)
    BY <1>2 DEF GrantTo, Posted, Scopes, Kind
  <2>2. Kept(Exec(d, Grant(table, i, a.scope, a.who)))
    BY <2>1, GrantKept
  <2>3. /\ Grows(d, e)
        /\ i \in DOMAIN d[table] /\ d[table][i] # None => e[table][i] # None /\ a.who \in e[table][i].access[a.scope]
    BY <2>1, GrantGrows
  <2> QED  BY <1>2, <2>1, <2>2, <2>3 DEF Admitted
<1> QED  BY <1>1, <1>2

LEMMA OwnGrantDone ==
    ASSUME NEW a, Posted(a), NEW d, Kept(d), NEW table \in Table, NEW j, Due(a, d, GrantTo(table, j, a)),
           NEW s, s = Head(GrantTo(table, j, a)), ~Fails(d, s), NEW e, e = Exec(d, s)
    PROVE  Due(a, e, <<>>)
<1> DEFINE i == RowOf(a, d)
           T == TableOf(a)
<1>1. Kept(e) /\ Grows(d, e)
  BY GrantDone
<1>2. RowOf(a, e) = i /\ Due(a, e, GrantTo(table, j, a))
  BY <1>1, DueStays
<1>3. CASE Admitted(a, d[T][i].access)
  <2>1. Due(a, d, <<>>)
    BY <1>3 DEF Due
  <2> QED  BY <1>1, <2>1, DueStays
<1>4. CASE GrantTo(table, j, a) = GrantTo(T, i, a)
  <2>1. s = Head(GrantTo(T, i, a)) /\ T \in Table
    BY <1>4, PostedTable
  <2>2. i \in DOMAIN d[T] /\ d[T][i] # None
    BY DEF Due
  <2> HIDE DEF i, T
  <2>3. e[T][i] # None /\ Admitted(a, e[T][i].access)
    BY <2>1, <2>2, GrantDone
  <2> QED  BY <1>2, <2>3 DEF Due, i, T
<1> QED  BY <1>3, <1>4 DEF Due

-----------------------------------------------------------------------------
(* The routes, statements and healings keep the tables.                    *)

\* A finite set can be put in a sequence.
LEMMA InOneOrder ==
    ASSUME NEW S, IsFiniteSet(S)
    PROVE  \E n \in Nat : DOMAIN SetToSeq(S) = 1 .. n /\ \A i \in 1 .. n : SetToSeq(S)[i] \in S
<1>1. Cardinality(S) \in Nat /\ ExistsBijection(1 .. Cardinality(S), S)
  BY FS_CardinalityType
<1>2. \E f \in [1 .. Cardinality(S) -> S] : IsInjective(f)
  BY <1>1 DEF ExistsBijection, Bijection, Injection, IsInjective
<1>3. SetToSeq(S) \in [1 .. Cardinality(S) -> S]
  BY <1>2 DEF SetToSeq
<1> QED  BY <1>1, <1>3

LEMMA GrantsWork ==
    ASSUME NEW table \in Table, NEW row \in Id, NEW kind \in Kind,
           NEW whos \in SUBSET Person, IsFiniteSet(whos)
    PROVE  Grants(table, row, kind, whos) \in Work
<1>1. PICK n \in Nat : /\ DOMAIN SetToSeq(whos) = 1 .. n
                       /\ \A i \in 1 .. n : SetToSeq(whos)[i] \in whos
  BY InOneOrder
<1>2. \A i \in 1 .. n : Grant(table, row, kind, SetToSeq(whos)[i]) \in Statements
  BY <1>1 DEF Grant, Statements, Whom
<1>3. Grants(table, row, kind, whos) \in [1 .. n -> Statements]
  BY <1>1, <1>2 DEF Grants
<1> QED  BY <1>3, SeqDef DEF Work

LEMMA MoreWork == ASSUME NEW s \in Work, NEW r \in Work PROVE s \o r \in Work
  BY ConcatProperties DEF Work

LEMMA AccessWork ==
    ASSUME NEW table \in Table, NEW row \in Id, NEW a \in Audiences
    PROVE  ReplaceAccess(table, row, a) \in Work /\ GrantAll(table, row, a) \in Work
<1>1. /\ a.everyone \in BOOLEAN
      /\ \A kind \in Kind : a[kind] \in SUBSET Person /\ IsFiniteSet(a[kind])
  BY FormsAssumption DEF Audience, Kind
<1>2. "users" \in Kind /\ "groups" \in Kind /\ "devices" \in Kind
  BY DEF Kind
<1> DEFINE g == Grants(table, row, "users", a.users)
           h == Grants(table, row, "groups", a.groups)
           i == Grants(table, row, "devices", a.devices)
           x == <<Scope(table, row, a.everyone), Clear(table, row, "users")>>
           y == <<Clear(table, row, "groups")>>
           z == <<Clear(table, row, "devices")>>
<1>3. g \in Work /\ h \in Work /\ i \in Work
  BY <1>1, <1>2, GrantsWork
<1>4. \A kind \in Kind : Clear(table, row, kind) \in Statements
  BY DEF Clear, Statements
<1>5. Scope(table, row, a.everyone) \in Statements
  BY <1>1 DEF Scope, Statements
<1>6. x \in Work /\ y \in Work /\ z \in Work
  BY <1>2, <1>4, <1>5 DEF Work
<1>7. /\ ReplaceAccess(table, row, a) = ((((x \o g) \o y) \o h) \o z) \o i
      /\ GrantAll(table, row, a) = (g \o h) \o i
  BY DEF ReplaceAccess, GrantAll
<1> HIDE DEF g, h, i, x, y, z
<1> QED  BY <1>3, <1>6, <1>7, MoreWork

\* Healing gives a device an id.
LEMMA HealedKept ==
    ASSUME NEW d, Kept(d), NEW a
    PROVE  Kept(Healed(d, a)) /\ Healed(d, a).domain = d.domain /\ Healed(d, a).allow = d.allow
<1> DEFINE S == {0} \union d.present.devices
           e == Healed(d, a)
<1>1. S \subseteq Nat /\ S # {} /\ IsFiniteSet(S)
  <2>1. S = d.present.devices \union {0}
    OBVIOUS
  <2> QED  BY <2>1, FS_AddElement DEF Kept
<1>2. PICK id : id = 1 + Greatest(S)
  OBVIOUS
<1>3. id \in Nat
  BY <1>1, <1>2, GreatestId
<1>4. CASE e = d
  BY <1>4
<1>5. CASE e # d
  <2>1. e = [d EXCEPT !.device[a] = PendingDevice(id), !.present.devices = @ \union {id}]
    BY <1>2, <1>5 DEF Healed
  <2> HIDE DEF e
  <2>2. /\ DOMAIN e = DOMAIN d /\ e.domain = d.domain /\ e.allow = d.allow
        /\ e.present = [d.present EXCEPT !.devices = @ \union {id}]
    BY <2>1 DEF Kept
  <2>3. /\ Kind \subseteq DOMAIN e.present
        /\ e.present.devices = d.present.devices \union {id}
        /\ \A k \in Kind : e.present[k] \subseteq d.present[k] \union {id}
    BY <2>2 DEF Kept, Kind
  <2>4. IsFiniteSet(e.present.devices) /\ e.present.devices \subseteq Nat
    BY <1>3, <2>3, FS_AddElement DEF Kept
  <2>5. \A k \in Kind : e.present[k] \subseteq Whom
    BY <1>3, <2>3 DEF Kept, Whom
  <2>6. Kept(e)
    BY <2>2, <2>3, <2>4, <2>5 DEF Kept
  <2> QED  BY <2>2, <2>6 DEF e
<1> QED  BY <1>4, <1>5

\* A request of thread u, which leaves work to do.
Routed(u) ==
    /\ Kept(db') /\ edits' = edits + 1
    /\ \E rest \in Work : job' = [job EXCEPT ![u] = rest]

LEMMA Routes ==
    ASSUME NEW u, NEW d, NEW rest, Request(u, d, rest), Kept(d), rest \in Work
    PROVE  Routed(u)
  BY DEF Request, Edit, Routed

LEMMA NoWork == <<>> \in Work
  BY DEF Work

LEMMA SiteChanged ==
    ASSUME NEW d, Kept(d), NEW i \in DOMAIN d.domain, NEW x \in Sites \union {None}
    PROVE  Kept([d EXCEPT !.domain[i] = x])
<1>1. [d.domain EXCEPT ![i] = x] \in [DOMAIN d.domain -> Sites \union {None}]
  BY DEF Kept
<1>2. Kept([d EXCEPT !.domain = [d.domain EXCEPT ![i] = x]])
  BY <1>1, NewSites
<1>3. [d EXCEPT !.domain = [d.domain EXCEPT ![i] = x]] = [d EXCEPT !.domain[i] = x]
  OBVIOUS
<1> QED  BY <1>2, <1>3

LEMMA ExceptionChanged ==
    ASSUME NEW d, Kept(d), NEW p \in Pattern, NEW x \in Exceptions \union {None}
    PROVE  Kept([d EXCEPT !.allow[p] = x])
<1>1. [d.allow EXCEPT ![p] = x] \in [Pattern -> Exceptions \union {None}]
  BY DEF Kept
<1>2. Kept([d EXCEPT !.allow = [d.allow EXCEPT ![p] = x]])
  BY <1>1, NewExceptions
<1>3. [d EXCEPT !.allow = [d.allow EXCEPT ![p] = x]] = [d EXCEPT !.allow[p] = x]
  OBVIOUS
<1> QED  BY <1>2, <1>3

\* A new site's row, with the audience that its form may have.
LEMMA NewRow ==
    ASSUME NEW p \in Pattern, NEW m \in DomainMode, NEW S \in SUBSET STRING, NEW ok \in BOOLEAN
    PROVE  /\ [pattern |-> p, mode |-> m, kept |-> FALSE, series |-> FALSE, paths |-> S,
               access |-> [Nobody EXCEPT !.everyone = ok]] \in Sites
           /\ [pattern |-> p, mode |-> m, kept |-> FALSE, series |-> FALSE, paths |-> S,
               access |-> Nobody] \in Sites
           /\ [access |-> [Nobody EXCEPT !.everyone = ok]] \in Exceptions
           /\ [access |-> Nobody] \in Exceptions
<1>1. Nobody \in Audited /\ [Nobody EXCEPT !.everyone = ok] \in Audited
  BY DEF Nobody, Audited
<1> QED  BY <1>1 DEF Sites, Exceptions

LEMMA NewSite ==
    ASSUME NEW p \in Pattern, NEW x,
           x = [pattern |-> p, mode |-> "splice", kept |-> FALSE, series |-> FALSE, paths |-> {}, access |-> Nobody]
    PROVE  x \in Sites /\ x.pattern = p
<1>1. "splice" \in DomainMode /\ {} \in SUBSET STRING /\ TRUE \in BOOLEAN
  BY DEF DomainMode
<1>2. [pattern |-> p, mode |-> "splice", kept |-> FALSE, series |-> FALSE, paths |-> {}, access |-> Nobody] \in Sites
  BY <1>1, NewRow
<1> QED  BY <1>2

LEMMA NewException == [access |-> Nobody] \in Exceptions
<1>1. Nobody \in Audited
  BY DEF Nobody, Audited
<1> QED  BY <1>1 DEF Exceptions

LEMMA ExceptionMade ==
    ASSUME NEW d, Kept(d), NEW p \in Pattern, d.allow[p] = None,
           NEW e, e = [d EXCEPT !.allow[p] = [access |-> Nobody]]
    PROVE  Kept(e) /\ Grows(d, e) /\ e.allow[p] \in Exceptions
<1>1. PICK x : x = [access |-> Nobody] /\ x \in Exceptions
  BY NewException
<1>2. e = [d EXCEPT !.allow[p] = x]
  BY <1>1
<1>3. Kept(d) /\ p \in Pattern /\ d.allow[p] = None /\ x \in Exceptions
  BY <1>1
<1>4. Kept(e)
  BY <1>2, <1>3, ExceptionAdded
<1>5. Grows(d, e)
  BY <1>2, <1>3, ExceptionAdded
<1>6. e.allow[p] = x
  BY <1>2, <1>3 DEF Kept
<1> QED  BY <1>1, <1>4, <1>5, <1>6

LEMMA AddDomainRouted ==
    ASSUME Kept(db), NEW u \in Thread, NEW i \in DOMAIN db.domain, NEW p \in Pattern, NEW m \in Modes,
           NEW a \in Audiences, AddDomain(u, i, p, m, a)
    PROVE  Routed(u)
<1> DEFINE x == [pattern |-> p, mode |-> m, kept |-> FALSE, series |-> FALSE, paths |-> {},
                 access |-> [Nobody EXCEPT !.everyone = a.everyone]]
<1>1. m \in DomainMode /\ a.everyone \in BOOLEAN /\ i \in Id
  BY FormsAssumption DEF Kept, Id, Audience
<1>2. x \in Sites
  BY <1>1, NewRow
<1>3. Request(u, [db EXCEPT !.domain[i] = x], GrantAll("domain", i, a))
  BY DEF AddDomain
<1> HIDE DEF x
<1>4. Kept([db EXCEPT !.domain[i] = x])
  BY <1>2, SiteChanged
<1>5. GrantAll("domain", i, a) \in Work
  BY <1>1, AccessWork DEF Table
<1> QED  BY <1>3, <1>4, <1>5, Routes

LEMMA AddDomainFromUrlRouted ==
    ASSUME Kept(db), NEW u \in Thread, NEW i \in DOMAIN db.domain, NEW p \in Pattern,
           NEW user \in db.present.users, NEW path \in Paths, AddDomainFromUrl(u, i, p, user, path)
    PROVE  Routed(u)
<1> DEFINE x == [pattern |-> p, mode |-> "bump", kept |-> FALSE, series |-> FALSE, paths |-> {path},
                 access |-> Nobody]
           work == <<Grant("domain", i, "users", user)>>
<1>1. path \in STRING /\ i \in Id /\ user \in Whom
  BY FormsAssumption DEF Kept, Id, Kind
<1>2. x \in Sites
  BY <1>1, NewRow DEF DomainMode
<1>3. work \in Work
  <2>1. Grant("domain", i, "users", user) \in Statements
    BY <1>1 DEF Grant, Statements, Table, Kind
  <2> QED  BY <2>1 DEF Work
<1>4. PICK host \in Covers[p] :
         LET found == FindDomain(db.domain, host)
         IN  /\ IF found = None THEN NewId("domain", i) ELSE i = found /\ db.domain[i].mode = "bump"
             /\ Request(u, IF found = None THEN [db EXCEPT !.domain[i] = x]
                           ELSE [db EXCEPT !.domain[i].paths = @ \union {path}], work)
  BY DEF AddDomainFromUrl
<1>5. CASE FindDomain(db.domain, host) = None
  <2>1. Request(u, [db EXCEPT !.domain[i] = x], work)
    BY <1>4, <1>5
  <2> HIDE DEF x, work
  <2>2. Kept([db EXCEPT !.domain[i] = x])
    BY <1>2, SiteChanged
  <2> QED  BY <1>3, <2>1, <2>2, Routes
<1>6. CASE FindDomain(db.domain, host) # None
  <2>1. i = FindDomain(db.domain, host) /\ Request(u, [db EXCEPT !.domain[i].paths = @ \union {path}], work)
    BY <1>4, <1>6
  <2>2. db.domain[i] # None
    BY <1>6, <2>1, Finds
  <2>3. PICK y : y = [db.domain[i] EXCEPT !.paths = @ \union {path}]
    OBVIOUS
  <2>4. y \in Sites
    BY <1>1, <2>2, <2>3 DEF Kept, Sites
  <2>5. [db EXCEPT !.domain[i].paths = @ \union {path}] = [db EXCEPT !.domain[i] = y]
    BY <2>3
  <2>6. Kept([db EXCEPT !.domain[i] = y])
    BY <2>4, SiteChanged
  <2> HIDE DEF work
  <2> QED  BY <1>3, <2>1, <2>5, <2>6, Routes
<1> QED  BY <1>5, <1>6

LEMMA DomainRowRouted ==
    ASSUME Kept(db), NEW u \in Thread, NEW i \in DOMAIN db.domain, NEW m \in Modes, NEW a \in Audiences,
           NEW path \in Paths,
           \/ DeleteDomain(u, i) \/ UpdateDomain(u, i, m) \/ UpdateDomainAccess(u, i, a)
           \/ AddPath(u, i, path) \/ DeletePath(u, i, path)
    PROVE  Routed(u)
<1>1. /\ m \in DomainMode /\ path \in STRING /\ i \in Id
      /\ db.domain[i] # None => db.domain[i] \in Sites
  BY FormsAssumption DEF Kept, Id
<1>2. ASSUME NEW x \in Sites \union {None}, Request(u, [db EXCEPT !.domain[i] = x], <<>>)
      PROVE  Routed(u)
  BY <1>2, SiteChanged, NoWork, Routes
<1>3. CASE DeleteDomain(u, i)
  BY <1>2, <1>3 DEF DeleteDomain
<1>4. CASE UpdateDomain(u, i, m)
  <2>1. PICK x : x = [db.domain[i] EXCEPT !.mode = m]
    OBVIOUS
  <2>2. x \in Sites
    BY <1>1, <1>4, <2>1 DEF UpdateDomain, Sites
  <2>3. [db EXCEPT !.domain[i].mode = m] = [db EXCEPT !.domain[i] = x]
    BY <2>1
  <2> QED  BY <1>2, <1>4, <2>2, <2>3 DEF UpdateDomain
<1>5. CASE UpdateDomainAccess(u, i, a)
  <2>1. ReplaceAccess("domain", i, a) \in Work
    BY <1>1, AccessWork DEF Table
  <2> QED  BY <1>5, <2>1, Routes DEF UpdateDomainAccess
<1>6. CASE AddPath(u, i, path)
  <2>1. PICK x : x = [db.domain[i] EXCEPT !.paths = @ \union {path}]
    OBVIOUS
  <2>2. x \in Sites
    BY <1>1, <1>6, <2>1 DEF AddPath, Sites
  <2>3. [db EXCEPT !.domain[i].paths = @ \union {path}] = [db EXCEPT !.domain[i] = x]
    BY <2>1
  <2> QED  BY <1>2, <1>6, <2>2, <2>3 DEF AddPath
<1>7. CASE DeletePath(u, i, path)
  <2>1. PICK x : x = [db.domain[i] EXCEPT !.paths = @ \ {path}]
    OBVIOUS
  <2>2. x \in Sites
    BY <1>1, <1>7, <2>1 DEF DeletePath, Sites
  <2>3. [db EXCEPT !.domain[i].paths = @ \ {path}] = [db EXCEPT !.domain[i] = x]
    BY <2>1
  <2> QED  BY <1>2, <1>7, <2>2, <2>3 DEF DeletePath
<1> QED  BY <1>3, <1>4, <1>5, <1>6, <1>7

LEMMA AllowRouted ==
    ASSUME Kept(db), NEW u \in Thread, NEW p \in Pattern, NEW a \in Audiences,
           AddAdguardAllowlist(u, p, a) \/ DeleteAdguardAllowlist(u, p)
    PROVE  Routed(u)
<1>1. CASE AddAdguardAllowlist(u, p, a)
  <2>1. PICK x : x = [access |-> [Nobody EXCEPT !.everyone = a.everyone]]
    OBVIOUS
  <2>2. x \in Exceptions
    <3>1. a.everyone \in BOOLEAN
      BY FormsAssumption DEF Audience
    <3>2. Nobody \in Audited
      BY DEF Nobody, Audited
    <3> QED  BY <2>1, <3>1, <3>2 DEF Exceptions, Audited
  <2>3. Request(u, [db EXCEPT !.allow[p] = x], GrantAll("allow", p, a))
    BY <1>1, <2>1 DEF AddAdguardAllowlist
  <2>4. Kept([db EXCEPT !.allow[p] = x])
    BY <2>2, ExceptionChanged
  <2>5. GrantAll("allow", p, a) \in Work
    BY AccessWork DEF Table, Id
  <2> QED  BY <2>3, <2>4, <2>5, Routes
<1>2. CASE DeleteAdguardAllowlist(u, p)
  <2>1. Kept([db EXCEPT !.allow[p] = None])
    BY ExceptionChanged
  <2> QED  BY <1>2, <2>1, NoWork, Routes DEF DeleteAdguardAllowlist
<1> QED  BY <1>1, <1>2

LEMMA DomainRouted ==
    ASSUME Kept(db), NEW u \in Thread, DomainRoute(u) PROVE Routed(u)
<1>1. PICK i \in DOMAIN db.domain, p \in Pattern, m \in Modes, a \in Audiences, path \in Paths :
         \/ AddDomain(u, i, p, m, a)
         \/ \E x \in db.present.users : AddDomainFromUrl(u, i, p, x, path)
         \/ DeleteDomain(u, i) \/ UpdateDomain(u, i, m) \/ UpdateDomainAccess(u, i, a)
         \/ AddPath(u, i, path) \/ DeletePath(u, i, path)
         \/ AddAdguardAllowlist(u, p, a) \/ DeleteAdguardAllowlist(u, p)
  BY DEF DomainRoute
<1> QED  BY <1>1, AddDomainRouted, AddDomainFromUrlRouted, DomainRowRouted, AllowRouted

\* Somebody is deleted.
LEMMA Stripped ==
    ASSUME NEW table, NEW kind \in Kind, NEW who, NEW R, R = Sites \/ R = Exceptions,
           table \in [DOMAIN table -> R \union {None}]
    PROVE  Strip(table, kind, who) \in [DOMAIN table -> R \union {None}]
<1>2. \A r \in Sites : r.access \in Audited /\ \A a \in Audited : [r EXCEPT !.access = a] \in Sites
  BY DEF Sites
<1>3. \A r \in Exceptions :
         r.access \in Audited /\ \A a \in Audited : [r EXCEPT !.access = a] \in Exceptions
  BY DEF Exceptions
<1>4. \A r \in R : r.access \in Audited /\ \A a \in Audited : [r EXCEPT !.access = a] \in R
  BY <1>2, <1>3
<1>1. ASSUME NEW i \in DOMAIN table, table[i] # None
      PROVE  [table[i] EXCEPT !.access[kind] = @ \ {who}] \in R
  <2>1. table[i] \in R
    BY <1>1
  <2>2. table[i].access \in Audited
    BY <1>4, <2>1
  <2>3. [table[i].access EXCEPT ![kind] = @ \ {who}] \in Audited
    BY <2>2 DEF Audited, Kind
  <2>4. [table[i] EXCEPT !.access[kind] = @ \ {who}]
           = [table[i] EXCEPT !.access = [table[i].access EXCEPT ![kind] = @ \ {who}]]
    OBVIOUS
  <2>5. \A a \in Audited : [table[i] EXCEPT !.access = a] \in R
    BY <1>4, <2>1
  <2> QED  BY <2>3, <2>4, <2>5
<1> QED  BY <1>1 DEF Strip

LEMMA DeletePersonRouted ==
    ASSUME Kept(db), NEW u \in Thread, NEW kind \in Kind, NEW who, DeletePerson(u, kind, who)
    PROVE  Routed(u)
<1> DEFINE e == [db EXCEPT
                  !.present[kind] = @ \ {who},
                  !.domain = Strip(@, kind, who), !.allow = Strip(@, kind, who),
                  !.category = Strip(@, kind, who), !.schedule = Strip(@, kind, who),
                  !.override = {o \in @ : ~(o.kind = kind /\ o.who = who)},
                  !.device = Orphan(@, kind, who)]
<1>1. Request(u, e, <<>>)
  BY DEF DeletePerson
<1>2. /\ DOMAIN e = DOMAIN db
      /\ e.present = [db.present EXCEPT ![kind] = @ \ {who}]
      /\ e.domain = Strip(db.domain, kind, who) /\ e.allow = Strip(db.allow, kind, who)
  BY DEF Kept
<1> HIDE DEF e
<1>3. e.domain \in [DOMAIN db.domain -> Sites \union {None}]
  BY <1>2, Stripped DEF Kept
<1>4. e.allow \in [Pattern -> Exceptions \union {None}]
  <2>1. DOMAIN db.allow = Pattern
    BY DEF Kept
  <2> QED  BY <1>2, <2>1, Stripped DEF Kept
<1>5. /\ DOMAIN e.present = DOMAIN db.present
      /\ \A k \in Kind : e.present[k] \subseteq db.present[k]
      /\ "devices" \in Kind
  BY <1>2 DEF Kept, Kind
<1>6. DOMAIN e.domain = DOMAIN db.domain /\ IsFiniteSet(e.present.devices)
  BY <1>3, <1>5, FS_Subset DEF Kept
<1>7. Kept(e)
  BY <1>2, <1>3, <1>4, <1>5, <1>6 DEF Kept
<1> QED  BY <1>1, <1>7, NoWork, Routes

LEMMA PeopleRouted ==
    ASSUME Kept(db), NEW u \in Thread, PeopleRoute(u) PROVE Routed(u)
<1>1. ASSUME NEW a \in DOMAIN db.device, NEW f \in DeviceForms, SaveDevice(u, a, f) PROVE Routed(u)
  <2>1. Request(u, [db EXCEPT !.device[a] = [f EXCEPT !.id = db.device[a].id]], <<>>)
    BY <1>1 DEF SaveDevice
  <2>2. PICK e : e = [db EXCEPT !.device[a] = [f EXCEPT !.id = db.device[a].id]]
    OBVIOUS
  <2>3. DOMAIN e = DOMAIN db /\ e.domain = db.domain /\ e.allow = db.allow /\ e.present = db.present
    BY <2>2 DEF Kept
  <2>4. Kept(e)
    BY <2>3, Alike DEF Kept
  <2> QED  BY <2>1, <2>2, <2>4, NoWork, Routes
<1> QED  BY <1>1, DeletePersonRouted DEF PeopleRoute

-----------------------------------------------------------------------------
(* What an approval in flight holds.                                       *)

\* Nobody else has edited the tables since it was posted.
Undisturbed(a) == a.quiet /\ a.edits = edits

Pending(t) ==
    LET a == approval[t]
    IN  a # NoApproval =>
          /\ Posted(a) /\ a.edits \in 0 .. edits
          /\ a.at = "grant" => job[t] = <<>>
          /\ Undisturbed(a) => \A u \in Thread : approval[u] # NoApproval \/ job[u] = <<>>
          /\ Undisturbed(a) /\ a.at = "flash" => Due(a, db, job[t])

\* The other threads' statements.
Tasks == \A t \in Thread : approval[t] = NoApproval => job[t] \in Work

AInv == Kept(db) /\ edits \in Nat /\ Tasks /\ \A t \in Thread : Pending(t)

\* An approval that no step is about, while the tables only grow.
LEMMA PendingStays ==
    ASSUME AInv, NEW t \in Thread, approval'[t] = approval[t], job'[t] = job[t], edits' = edits,
           Kept(db'), Grows(db, db'),
           \A u \in Thread : approval[u] # NoApproval \/ job[u] = <<>> => approval'[u] # NoApproval \/ job'[u] = <<>>
    PROVE  Pending(t)'
<1> DEFINE a == approval[t]
<1>1. Pending(t) /\ Kept(db)
  BY DEF AInv
<1>2. CASE a = NoApproval
  BY <1>2 DEF Pending
<1>3. CASE a # NoApproval
  <2>1. Posted(a)
    BY <1>1, <1>3 DEF Pending
  <2>2. Undisturbed(a) /\ a.at = "flash" => Due(a, db', job[t])
    BY <1>1, <1>3, <2>1, DueStays DEF Pending
  <2> QED  BY <1>1, <1>3, <2>2 DEF Pending, Undisturbed
<1> QED  BY <1>2, <1>3

\* An edit disturbs all.
LEMMA PendingEdited ==
    ASSUME AInv, NEW t \in Thread, approval'[t] = approval[t], approval[t] # NoApproval => job'[t] = job[t],
           edits' = edits + 1
    PROVE  Pending(t)'
<1>1. Pending(t) /\ edits \in Nat
  BY DEF AInv
<1>2. CASE approval[t] = NoApproval
  BY <1>2 DEF Pending
<1>3. CASE approval[t] # NoApproval
  <2>1. approval[t].edits \in 0 .. edits' /\ approval[t].edits # edits'
    BY <1>1, <1>3 DEF Pending
  <2> QED  BY <1>1, <1>3, <2>1 DEF Pending, Undisturbed
<1> QED  BY <1>2, <1>3

\* So does a statement of somebody's edit.
LEMMA PendingDisturbed ==
    ASSUME AInv, NEW t \in Thread, approval' = approval, approval[t] # NoApproval => job'[t] = job[t],
           edits' = edits, NEW u \in Thread, approval[u] = NoApproval, job[u] # <<>>
    PROVE  Pending(t)'
<1>1. Pending(t)
  BY DEF AInv
<1>2. approval[t] # NoApproval => ~Undisturbed(approval[t])
  BY <1>1 DEF Pending
<1> QED  BY <1>1, <1>2 DEF Pending, Undisturbed

LEMMA HealKeeps ==
    ASSUME AInv, UNCHANGED <<approval, job, edits>>, db' = db \/ \E x : db' = Healed(db, x)
    PROVE  AInv'
<1>1. Kept(db') /\ db'.domain = db.domain /\ db'.allow = db.allow
  BY HealedKept DEF AInv
<1>2. Grows(db, db')
  BY <1>1, Stay
<1>3. \A t \in Thread : Pending(t)'
  BY <1>1, <1>2, PendingStays
<1> QED  BY <1>1, <1>3 DEF AInv, Tasks

LEMMA RouteKeeps ==
    ASSUME AInv, DOMAIN job = Thread, NEW u \in Thread, approval[u] = NoApproval, approval' = approval, Routed(u)
    PROVE  AInv'
<1>1. PICK rest \in Work : job' = [job EXCEPT ![u] = rest]
  BY DEF Routed
<1>2. Kept(db') /\ edits' = edits + 1 /\ edits' \in Nat
  BY DEF Routed, AInv
<1>3. \A t \in Thread : job'[t] = IF t = u THEN rest ELSE job[t]
  BY <1>1
<1>4. \A t \in Thread : Pending(t)'
  BY <1>2, <1>3, PendingEdited
<1>5. Tasks'
  BY <1>3 DEF AInv, Tasks
<1> QED  BY <1>2, <1>4, <1>5 DEF AInv

LEMMA StatementKeeps ==
    ASSUME AInv, DOMAIN job = Thread, NEW u \in Thread, approval[u] = NoApproval, approval' = approval, Statement(u)
    PROVE  AInv'
<1>1. job[u] \in Work /\ job[u] # <<>> /\ Kept(db)
  BY DEF AInv, Tasks, Statement
<1>2. Head(job[u]) \in Statements /\ Tail(job[u]) \in Work
  BY <1>1, HeadTailProperties DEF Work
<1>3. Kept(db')
  BY <1>1, <1>2, StatementKept DEF Statement
<1>4. PICK rest \in Work : job' = [job EXCEPT ![u] = rest]
  BY <1>2, NoWork DEF Statement
<1>5. \A t \in Thread : job'[t] = IF t = u THEN rest ELSE job[t]
  BY <1>4
<1>6. edits' = edits
  BY DEF Statement
<1>7. \A t \in Thread : Pending(t)'
  BY <1>1, <1>5, <1>6, PendingDisturbed
<1>8. Tasks'
  BY <1>5 DEF AInv, Tasks
<1> QED  BY <1>3, <1>6, <1>7, <1>8 DEF AInv

\* The steps of the gate.
LEMMA GateApproves ==
    ASSUME AInv, TInv, GateNext({t \in Thread : approval[t] = NoApproval}), approval' = approval
    PROVE  AInv'
<1> DEFINE T == {t \in Thread : approval[t] = NoApproval}
<1>0. DOMAIN job = Thread /\ Kept(db)
  BY DEF TInv, Approvals, AInv
<1>1. CASE \E f \in Flow : Accept(f) \/ Ask(f) \/ Squid(f) \/ RevokeToken(f)
  <2>1. UNCHANGED <<job, edits>> /\ (db' = db \/ \E a : db' = Healed(db, a))
    BY <1>1 DEF Squid, Accept, AskTrusted, AskBump, AskSplice, AskBlockPage, HelperFails, Ask, Authz,
         AuthzFails, CacheGet, ResolutionFails, FetchToken, FetchObjects, Unauthorised, CachePut, AskShows,
         RevokeToken, TlsLocal, SeriesLocal, householdVars
  <2> QED  BY <2>1, HealKeeps
<1>2. CASE Republish \/ ApproveShow \/ RemoveShow \/ SetBlockPageMode \/ Tick
  <2>1. UNCHANGED <<job, edits, db>>
    BY <1>2 DEF Republish, ApproveShow, RemoveShow, SetBlockPageMode, Tick, householdVars
  <2> QED  BY <2>1, HealKeeps
<1>3. ASSUME NEW u \in T, DomainRoute(u) \/ PeopleRoute(u) PROVE AInv'
  BY <1>0, <1>3, DomainRouted, PeopleRouted, RouteKeeps
<1>4. ASSUME NEW u \in T, Statement(u) PROVE AInv'
  BY <1>0, <1>4, StatementKeeps
<1> QED  BY <1>1, <1>2, <1>3, <1>4 DEF GateNext, GateHousehold

\* The steps of approval t, while the tables only grow.
LEMMA OneSettles ==
    ASSUME AInv, NEW t \in Thread, Kept(db'), Grows(db, db'), edits' = edits,
           \A u \in Thread : u # t => approval'[u] = approval[u] /\ job'[u] = job[u],
           approval'[t] # NoApproval \/ job'[t] = <<>>, Pending(t)'
    PROVE  AInv'
<1>1. \A u \in Thread : approval[u] # NoApproval \/ job[u] = <<>> =>
                           approval'[u] # NoApproval \/ job'[u] = <<>>
  OBVIOUS
<1>2. \A u \in Thread : Pending(u)'
  <2> SUFFICES ASSUME NEW u \in Thread, u # t PROVE Pending(u)'
    OBVIOUS
  <2>1. approval'[u] = approval[u] /\ job'[u] = job[u]
    OBVIOUS
  <2> QED  BY <1>1, <2>1, PendingStays
<1>3. Tasks'
  <2> SUFFICES ASSUME NEW u \in Thread, approval'[u] = NoApproval PROVE job'[u] \in Work
    BY DEF Tasks
  <2> QED  BY NoWork DEF AInv, Tasks
<1> QED  BY <1>2, <1>3 DEF AInv

\* It ends.
LEMMA EndsApprove ==
    ASSUME AInv, TInv, NEW t \in Thread, Ends(t), job[t] = <<>>, UNCHANGED <<db, job, edits>>
    PROVE  AInv'
<1>1. \A u \in Thread : approval'[u] = IF u = t THEN NoApproval ELSE approval[u]
  BY DEF Ends, TInv, Approvals
<1>2. Pending(t)'
  BY <1>1 DEF Pending
<1>3. Kept(db') /\ Grows(db, db')
  BY Stay DEF AInv
<1> QED  BY <1>1, <1>2, <1>3, OneSettles

LEMMA BeginApproves == ASSUME AInv, TInv, NEW t \in Thread, ApproveBegin(t) PROVE AInv'
<1>1. PICK r \in log, scope \in Scopes :
         /\ approval' = [approval EXCEPT ![t] =
                          [row |-> r, scope |-> scope, who |-> Beneficiary(r, scope), at |-> "grant",
                           edits |-> edits, quiet |-> Quiet]]
         /\ approval[t] = NoApproval /\ job[t] = <<>> /\ UNCHANGED <<db, job, edits>>
  BY Zenon DEF ApproveBegin, householdVars
<1>2. PICK who : who = Beneficiary(r, scope)
  OBVIOUS
<1>3. PICK a : a = [row |-> r, scope |-> scope, who |-> who, at |-> "grant", edits |-> edits, quiet |-> Quiet]
  OBVIOUS
<1>4. DOMAIN approval = Thread /\ r.host \in Names
  BY DEF TInv, Approvals, LogTyped, LogRow
<1>5. \A u \in Thread : approval'[u] = IF u = t THEN a ELSE approval[u]
  BY <1>1, <1>2, <1>3, <1>4
<1>6. Posted(a) /\ a.edits = edits /\ a.at = "grant" /\ (a.quiet => Quiet) /\ a # NoApproval
  BY <1>3, <1>4 DEF Posted, NoApproval
<1>7. Pending(t)'
  BY <1>1, <1>5, <1>6 DEF Pending, Undisturbed, Quiet, AInv
<1>8. Kept(db') /\ Grows(db, db')
  BY <1>1, Stay DEF AInv
<1> QED  BY <1>1, <1>5, <1>7, <1>8, OneSettles

\* Where an approval is does not change what it is about.
LEMMA Flashes ==
    ASSUME NEW a, Posted(a), NEW b, b = [a EXCEPT !.at = "flash"]
    PROVE  /\ Posted(b) /\ b.at = "flash" /\ b.edits = a.edits /\ b.quiet = a.quiet
           /\ \A d, s : Due(a, d, s) => Due(b, d, s)
<1>1. DOMAIN b = DOMAIN a /\ b.row = a.row /\ b.scope = a.scope /\ b.who = a.who /\ b.at = "flash"
      /\ b.edits = a.edits /\ b.quiet = a.quiet
  BY DEF Posted
<1> QED  BY <1>1 DEF Posted, Due, TableOf, RowOf, Admitted, GrantTo

\* The grant is to come.
LEMMA GrantedApproves ==
    ASSUME AInv, TInv, NEW t \in Thread, approval[t].at = "grant", edits' = edits, NEW d,
           Kept(d), Grows(db, d), NEW s, Granted(t, d, s), Due(approval[t], d, s)
    PROVE  AInv'
<1> DEFINE a == approval[t]
<1>1. a # NoApproval
  BY DEF NoApproval
<1>2. Posted(a) /\ a.edits \in 0 .. edits
      /\ (Undisturbed(a) => \A u \in Thread : approval[u] # NoApproval \/ job[u] = <<>>)
  BY <1>1 DEF AInv, Pending
<1>3. PICK b : b = [a EXCEPT !.at = "flash"]
  OBVIOUS
<1>4. /\ Posted(b) /\ b.at = "flash" /\ b.edits = a.edits /\ b.quiet = a.quiet
      /\ Due(b, d, s)
  BY <1>2, <1>3, Flashes
<1>5. /\ \A u \in Thread : approval'[u] = IF u = t THEN b ELSE approval[u]
      /\ \A u \in Thread : job'[u] = IF u = t THEN s ELSE job[u]
      /\ db' = d
  BY <1>3 DEF Granted, TInv, Approvals
<1>6. b # NoApproval
  BY <1>4 DEF NoApproval
<1>7. Pending(t)'
  BY <1>2, <1>4, <1>5, <1>6 DEF Pending, Undisturbed
<1> QED  BY <1>5, <1>6, <1>7, OneSettles

\* The row that approve_from_report finds or makes is the one to be found.
LEMMA HostApproves ==
    ASSUME AInv, TInv, NEW t \in Thread, GrantHost(t)
    PROVE  AInv'
<1> DEFINE a == approval[t]
           host == a.row.host
<1>1. a.at = "grant" /\ edits' = edits
  BY DEF GrantHost, ApproveLocal
<1>2. a # NoApproval
  BY <1>1 DEF NoApproval
<1>3. Posted(a) /\ job[t] = <<>> /\ Kept(db)
  BY <1>1, <1>2 DEF AInv, Pending
<1>4. host \in Pattern /\ host \in Covers[host]
  BY <1>3, PostedHost
<1>5. Granting(t, a, host)
  BY Grantings
<1>6. Grows(db, db)
  BY Stay
<1>7. CASE Ends(t) /\ UNCHANGED <<db, job>>
  BY <1>1, <1>3, <1>7, EndsApprove
<1>8. CASE /\ a.row.reason \in {"category", "native"} /\ db.allow[host] # None
           /\ Granted(t, db, GrantTo("allow", host, a))
  <2>1. Due(a, db, GrantTo("allow", host, a))
    BY <1>3, <1>4, <1>8 DEF Due, TableOf, RowOf, Kept
  <2> QED  BY <1>1, <1>3, <1>6, <1>8, <2>1, GrantedApproves
<1>9. CASE /\ a.row.reason \in {"category", "native"} /\ db.allow[host] = None
           /\ Granted(t, [db EXCEPT !.allow[host] = [access |-> Nobody]], GrantTo("allow", host, a))
  <2>1. PICK d : d = [db EXCEPT !.allow[host] = [access |-> Nobody]]
    OBVIOUS
  <2>2. db.allow[host] = None /\ Granted(t, d, GrantTo("allow", host, a))
    BY <1>9, <2>1
  <2>3. Kept(d) /\ Grows(db, d) /\ d.allow[host] \in Exceptions
    BY <1>3, <1>4, <2>1, <2>2, ExceptionMade
  <2>5. Due(a, d, GrantTo("allow", host, a))
    BY <1>4, <1>9, <2>3, NoSite DEF Due, TableOf, RowOf, Kept
  <2> QED  BY <1>1, <2>2, <2>3, <2>5, GrantedApproves
<1>10. CASE /\ a.row.reason \notin {"category", "native"} /\ FindDomain(db.domain, host) # None
            /\ Granted(t, db, GrantTo("domain", FindDomain(db.domain, host), a))
  <2>1. PICK i : i = FindDomain(db.domain, host)
    OBVIOUS
  <2>2. i \in DOMAIN db.domain /\ db.domain[i] # None
    BY <1>3, <1>10, <2>1, Finds
  <2>3. Due(a, db, GrantTo("domain", i, a))
    BY <1>10, <2>1, <2>2 DEF Due, TableOf, RowOf
  <2>4. Granted(t, db, GrantTo("domain", i, a))
    BY <1>10, <2>1
  <2> QED  BY <1>1, <1>3, <1>6, <2>3, <2>4, GrantedApproves
<1>11. CASE /\ a.row.reason \notin {"category", "native"} /\ FindDomain(db.domain, host) = None
            /\ \E i \in DOMAIN db.domain :
                  /\ NewId("domain", i)
                  /\ Granted(t, [db EXCEPT !.domain[i] =
                                   [pattern |-> host, mode |-> "splice", kept |-> FALSE, series |-> FALSE,
                                    paths |-> {}, access |-> Nobody]], GrantTo("domain", i, a))
  <2>1. PICK x : x = [pattern |-> host, mode |-> "splice", kept |-> FALSE, series |-> FALSE,
                      paths |-> {}, access |-> Nobody]
    OBVIOUS
  <2>2. PICK i \in DOMAIN db.domain :
           NewId("domain", i) /\ Granted(t, [db EXCEPT !.domain[i] = x], GrantTo("domain", i, a))
    BY <1>11, <2>1
  <2>3. x \in Sites /\ x.pattern = host
    BY <1>4, <2>1, NewSite
  <2>4. db.domain[i] = None /\ \A j \in DOMAIN db.domain : db.domain[j] # None => j < i
    BY <1>3, <2>2, NewIdIs
  <2>5. PICK d : d = [db EXCEPT !.domain[i] = x]
    OBVIOUS
  <2>6. Kept(d) /\ Grows(db, d) /\ d.domain[i] = x
    BY <1>3, <2>3, <2>4, <2>5, SiteAdded
  <2>7. DOMAIN d.domain = DOMAIN db.domain /\ \A j \in DOMAIN db.domain : j # i => d.domain[j] = db.domain[j]
    BY <1>3, <2>5 DEF Kept
  <2>8. FindDomain(d.domain, host) = i
    <3> DEFINE hits(e) == {j \in DOMAIN e.domain : e.domain[j] # None /\ host \in Covers[e.domain[j].pattern]}
    <3>1. hits(db) = {}
      BY <1>3, <1>11, Finds
    <3>2. hits(d) = {i}
      BY <1>4, <2>3, <2>6, <2>7, <3>1, NoSite
    <3>3. FindDomain(d.domain, host) \in hits(d)
      BY <2>6, <3>2, Finds
    <3> QED  BY <3>2, <3>3
  <2>9. Due(a, d, GrantTo("domain", i, a))
    BY <1>11, <2>3, <2>6, <2>7, <2>8, NoSite DEF Due, TableOf, RowOf
  <2>10. Granted(t, d, GrantTo("domain", i, a))
    BY <2>2, <2>5
  <2> QED  BY <1>1, <2>6, <2>9, <2>10, GrantedApproves
<1> QED  BY <1>5, <1>7, <1>8, <1>9, <1>10, <1>11 DEF Granting

LEMMA StatementApproves ==
    ASSUME AInv, TInv, NEW t \in Thread, ApproveStatement(t)
    PROVE  AInv'
<1> DEFINE a == approval[t]
           s == Head(job[t])
<1>1. a # NoApproval /\ Statement(t) /\ edits' = edits /\ job[t] # <<>>
  BY DEF ApproveStatement, Statement
<1>2. /\ Posted(a) /\ Kept(db) /\ a.edits \in 0 .. edits /\ (a.at = "grant" => job[t] = <<>>)
      /\ Undisturbed(a) => \A u \in Thread : approval[u] # NoApproval \/ job[u] = <<>>
      /\ Undisturbed(a) /\ a.at = "flash" => Due(a, db, job[t])
  BY <1>1 DEF AInv, Pending
<1>3. PICK table, i : table \in Table /\ job[t] = GrantTo(table, i, a)
  BY <1>1, <1>2 DEF TInv, Approvals, Remains, Table
<1>4. Tail(job[t]) = <<>>
  BY <1>3 DEF GrantTo
<1>5. \A u \in Thread : job'[u] = IF u = t THEN <<>> ELSE job[u]
  BY <1>1, <1>4 DEF Statement, TInv, Approvals
<1>6. CASE Fails(db, s)
  <2>1. \A u \in Thread : approval'[u] = IF u = t THEN NoApproval ELSE approval[u]
    BY <1>6 DEF ApproveStatement, TInv, Approvals
  <2>2. Kept(db') /\ Grows(db, db')
    BY <1>1, <1>2, <1>6, Stay DEF Statement
  <2>3. Pending(t)'
    BY <2>1 DEF Pending
  <2> QED  BY <1>1, <1>5, <2>1, <2>2, <2>3, OneSettles
<1>7. CASE ~Fails(db, s)
  <2>1. approval' = approval
    BY <1>7 DEF ApproveStatement
  <2>2. db' = Exec(db, s)
    BY <1>1, <1>7 DEF Statement
  <2>3. s = Head(GrantTo(table, i, a))
    BY <1>3
  <2> HIDE DEF s, a
  <2>4. Kept(db') /\ Grows(db, db')
    BY <1>2, <1>3, <1>7, <2>2, <2>3, GrantDone
  <2> USE DEF a
  <2>5. a.at = "flash"
    BY <1>1, <1>2 DEF Posted
  <2>6. ASSUME Undisturbed(a) PROVE Due(a, db', <<>>)
    <3>1. Due(a, db, GrantTo(table, i, a))
      BY <1>2, <1>3, <2>5, <2>6
    <3> HIDE DEF a
    <3> QED  BY <1>2, <1>3, <1>7, <2>2, <2>3, <3>1, OwnGrantDone
  <2>7. Pending(t)'
    BY <1>1, <1>2, <1>5, <2>1, <2>5, <2>6 DEF Pending, Undisturbed
  <2> QED  BY <1>1, <1>5, <2>1, <2>4, <2>7, OneSettles
<1> QED  BY <1>6, <1>7

LEMMA RestartApproves == ASSUME AInv, TInv, RestartDashboard PROVE AInv'
<1>1. \A t \in Thread : approval'[t] = NoApproval /\ job'[t] = <<>>
  BY DEF RestartDashboard
<1>2. Kept(db') /\ edits' \in Nat
  BY DEF RestartDashboard, AInv
<1>3. Tasks' /\ \A t \in Thread : Pending(t)'
  BY <1>1, NoWork DEF Tasks, Pending
<1> QED  BY <1>2, <1>3 DEF AInv

LEMMA ApprovesNext == ASSUME AInv, TInv, [Next]_reportVars PROVE AInv'
<1>1. CASE /\ GateNext({t \in Thread : approval[t] = NoApproval})
           /\ UNCHANGED <<querylog, watermark, poll, approval, seen, overrun>>
  BY <1>1, GateApproves
<1>2. CASE Poll \/ PollFails \/ Query \/ LogBlock \/ RequestApproval \/ DismissRequest
  <2>1. UNCHANGED <<approval, job, edits>> /\ (db' = db \/ \E x : db' = Healed(db, x))
    BY <1>2 DEF Poll, PollBegin, PollEntry, PollEnd, PollFails, PollLocal, Query, LogBlock, RequestApproval,
       DismissRequest, ReportLocal, householdVars
  <2> QED  BY <2>1, HealKeeps
<1>3. CASE RestartDashboard
  BY <1>3, RestartApproves
<1>4. ASSUME NEW t \in Thread, GrantShow(t) \/ ApproveFlash(t) PROVE AInv'
  <2>1. Ends(t) /\ UNCHANGED <<db, job, edits>>
    BY <1>4 DEF GrantShow, ApproveFlash, ApproveLocal
  <2>2. job[t] = <<>>
    <3>1. CASE GrantShow(t)
      <4>1. approval[t].at = "grant" /\ approval[t] # NoApproval
        BY <3>1 DEF GrantShow, NoApproval
      <4> QED  BY <4>1 DEF AInv, Pending
    <3> QED  BY <1>4, <3>1 DEF ApproveFlash
  <2> QED  BY <2>1, <2>2, EndsApprove
<1>5. ASSUME NEW t \in Thread, ApproveBegin(t) \/ GrantHost(t) \/ ApproveStatement(t) PROVE AInv'
  BY <1>5, BeginApproves, HostApproves, StatementApproves
<1>6. CASE UNCHANGED reportVars
  <2>1. UNCHANGED <<approval, job, edits, db>>
    BY <1>6 DEF reportVars, gateVars, householdVars
  <2> QED  BY <2>1, HealKeeps
<1> QED  BY <1>1, <1>2, <1>3, <1>4, <1>5, <1>6 DEF Next

LEMMA ApprovesInit == ASSUME Init PROVE AInv
<1>1. /\ Tables(db) /\ IsFiniteSet(DOMAIN db.domain)
      /\ db.present.devices \subseteq Nat /\ IsFiniteSet(db.present.devices)
  BY DEF Init, GateInit, Prepared
<1>2. Audience \subseteq Audited
  BY DEF Audience, Audited, Whom
<1>3. DomainRow \subseteq Sites /\ AllowRow \subseteq Exceptions
  BY <1>2 DEF DomainRow, AllowRow, Sites, Exceptions
<1>4. /\ db.domain \in [DOMAIN db.domain -> DomainRow \union {None}]
      /\ db.allow \in [Pattern -> AllowRow \union {None}]
  BY DEF Init, GateInit, Prepared
<1>5. Kept(db)
  BY <1>1, <1>3, <1>4 DEF Tables, DomainRows, AllowRows, Kept, Whom, Kind
<1>6. \A t \in Thread : approval[t] = NoApproval /\ job[t] = <<>>
  BY DEF Init, GateInit
<1>7. Tasks /\ \A t \in Thread : Pending(t)
  BY <1>6, NoWork DEF Tasks, Pending
<1>8. edits \in Nat
  BY DEF Init, GateInit
<1> QED  BY <1>5, <1>7, <1>8 DEF AInv

\* A row admits whom its audience names.
LEMMA Named ==
    ASSUME NEW dev, NEW row, row.access \in Audited,
           \/ row.access.everyone
           \/ dev.user \in row.access.users \/ dev.group \in row.access.groups \/ dev.id \in row.access.devices
    PROVE  Reason(dev, row) # None
<1>1. row.access.everyone \in BOOLEAN
  BY DEF Audited
<1>2. None \notin {"global", "user", "group", "device"}
  BY NoneAssumption
<1> QED  BY <1>1, <1>2 DEF Reason

LEMMA FlashGrants ==
    ASSUME AInv, NEW t \in Thread, NEW a, a = approval[t], a.at = "flash", job[t] = <<>>, Undisturbed(a),
           NEW dev, CASE a.scope = "global" -> TRUE
                      [] a.scope = "users" -> dev.user = a.who
                      [] a.scope = "groups" -> dev.group = a.who
                      [] a.scope = "devices" -> dev.id = a.who
    PROVE  Reason(dev, IF a.row.reason \in {"category", "native"} THEN db.allow[a.row.host]
                       ELSE db.domain[FindDomain(db.domain, a.row.host)]) # None
<1> DEFINE row == db[TableOf(a)][RowOf(a, db)]
<1>1. a # NoApproval
  BY DEF NoApproval
<1>2. Posted(a) /\ Due(a, db, <<>>) /\ Kept(db)
  BY <1>1 DEF AInv, Pending
<1>3. \A table, i : GrantTo(table, i, a) # <<>>
  BY DEF GrantTo
<1>4. Admitted(a, row.access)
  BY <1>2, <1>3 DEF Due
<1>5. TableOf(a) \in Table
  BY PostedTable
<1>6. RowOf(a, db) \in DOMAIN db[TableOf(a)] /\ row # None
  BY <1>2 DEF Due
<1>7. row.access \in Audited
  BY <1>2, <1>5, <1>6, Audit
<1>8. row = IF a.row.reason \in {"category", "native"} THEN db.allow[a.row.host]
            ELSE db.domain[FindDomain(db.domain, a.row.host)]
  BY DEF TableOf, RowOf
<1>9. \/ row.access.everyone
      \/ dev.user \in row.access.users \/ dev.group \in row.access.groups \/ dev.id \in row.access.devices
  BY <1>2, <1>4 DEF Admitted, Posted, Scopes
<1> HIDE DEF row
<1>10. Reason(dev, row) # None
  BY <1>7, <1>9, Named
<1> QED  BY <1>8, <1>10

\* When the page of approve_from_report says that a row was approved, and nobody else edited
\* the tables meanwhile, the row that is found for its host admits every device that the
\* approval is for: the row it found or made is still there, no earlier one covers the host,
\* and its own statement has been executed or had nothing to add.
THEOREM ApprovalsGrant == Spec => ApprovalGrants
<1>1. Init => TInv /\ RInv /\ AInv
  BY TypesInit, ReportsInit, ApprovesInit
<1>2. (TInv /\ RInv /\ AInv) /\ [Next]_reportVars => (TInv /\ RInv /\ AInv)'
  BY TypesNext, ReportsNext, ApprovesNext
<1> DEFINE Step == \A t \in Thread :
                     LET a == approval[t]
                         i == FindDomain(db.domain, a.row.host)
                         row == IF a.row.reason \in {"category", "native"} THEN db.allow[a.row.host] ELSE db.domain[i]
                     IN  /\ a.at = "flash" /\ approval'[t] = NoApproval
                         /\ job[t] = <<>> /\ a.quiet /\ edits = a.edits /\ spent' = spent
                         =>  \A x \in Client :
                               LET dev == Device(db, x)
                               IN  /\ dev # None
                                   /\ CASE a.scope = "global" -> TRUE
                                        [] a.scope = "users" -> dev.user = a.who
                                        [] a.scope = "groups" -> dev.group = a.who
                                        [] a.scope = "devices" -> dev.id = a.who
                                   => Reason(dev, row) # None
<1>3. (TInv /\ RInv /\ AInv) /\ [Next]_reportVars => [Step]_reportVars
  BY FlashGrants, Zenon DEF Undisturbed
<1> QED  BY <1>1, <1>2, <1>3, PTL DEF Spec, ApprovalGrants
=============================================================================
