------------------------------- MODULE Reports -------------------------------
(***************************************************************************)
(* The Report beside the gate: the poll that copies AdGuard's query log    *)
(* into access_log (dashboard/adguard_report_sync.py), the block page that *)
(* a denied name leads to, the requests for approval and the route that    *)
(* grants them (dashboard/dashboard.py).                                   *)
(*                                                                         *)
(* AdGuard's query log is a sequence of [time, client, host, answer];      *)
(* answer is "block page", a list's URL (None: one of AdGuard's own),      *)
(* "resolved" or "empty".  What AdGuard answers is left open here:         *)
(* RuleSync says what it has been told.                                    *)
(***************************************************************************)
EXTENDS Gate

CONSTANTS
    Limit,       \* _QUERYLOG_LIMIT
    Retention,   \* _ALLOWED_RETENTION_DAYS, in slots
    Queries,     \* what clients ask and AdGuard answers
    Site,        \* Site[host]: its last two labels
    MaxQueries   \* the bound of the query log

Verdict == DOMAIN Lists \union {None, "block page", "resolved", "empty"}
Entry == [time : Nat, client : Client, host : Host, answer : Verdict]

ASSUME QueriesAssumption == Queries \subseteq [client : Client, host : Host, answer : Verdict]
ASSUME LimitAssumption == Limit \in Nat \ {0}
\* A host's name, escaped, is a pattern that covers it.
ASSUME NamesAssumption ==
    \A h \in Host : \A name \in {h, Site[h]} : name \in Pattern /\ name \in Covers[name]

VARIABLES
    querylog,    \* AdGuard's
    watermark,   \* the setting of the poll
    poll,        \* the poll's batch: entries still to do, newest first, and its newest time
    approval,    \* approval[t]: the approval that request thread t is at
    \* History:
    seen,        \* entries that a poll has looked at
    overrun      \* entries that were beyond a page

reportVars == <<gateVars, querylog, watermark, poll, approval, seen, overrun>>

NoPoll == [at |-> "idle", left |-> <<>>, newest |-> 0]
NoApproval == [at |-> "idle"]

-----------------------------------------------------------------------------
(* correlate_once.                                                         *)

PollLocal == <<job, now, edits, conn, redirect, shows, crVars, querylog, approval>>

\* get_query_log and get_filters_status, then the watermark.
PollBegin ==
    /\ poll.at = "idle"
    /\ querylog # <<>>
    /\ LET n == Len(querylog)
           first == IF n > Limit THEN n - Limit + 1 ELSE 1
       IN  /\ poll' = [at |-> "walk", newest |-> watermark,
                       left |-> [k \in 1 .. n - first + 1 |-> n - k + 1]]
           /\ overrun' = overrun \union (1 .. first - 1 \ seen)
    /\ UNCHANGED <<PollLocal, db, log, spent, watermark, seen>>

\* _is_managed_hard_deny.
ManagedHardDeny(host) ==
    \/ Mode(db, host) \in {"bump", "splice"}
    \/ \E c \in DOMAIN db.category : db.category[c] # None /\ Listed(db.category[c], host)

\* What an entry is logged as, on the device that its client has once it is healed: None
\* for no row.
Classified(entry, dev) ==
    CASE entry.answer = "block page" ->
            IF ManagedHardDeny(entry.host) THEN Row(dev, entry.host, None, None, FALSE, "dns") ELSE None
      [] entry.answer \in DOMAIN Lists \union {None} ->
            Row(dev, entry.host, None, None, FALSE,
                IF \E c \in DOMAIN db.category : /\ entry.answer # None /\ db.category[c] # None
                                                 /\ db.category[c].url = entry.answer
                THEN "category" ELSE "native")
      [] entry.answer = "resolved" ->
            IF dev = None THEN None ELSE Row(dev, Site[entry.host], None, None, TRUE, "resolved")
      [] entry.answer = "empty" -> None

\* Whether an entry's device is looked for.
Attributed(entry) ==
    /\ entry.answer # "empty"
    /\ entry.answer = "block page" => ManagedHardDeny(entry.host)

\* One entry; one that is not newer than the watermark is passed over.
PollEntry ==
    /\ poll.at = "walk" /\ poll.left # <<>>
    /\ LET entry == querylog[Head(poll.left)]
           new == entry.time > watermark
           d == IF new /\ Attributed(entry) THEN Healed(db, entry.client) ELSE db
           row == Classified(entry, Device(d, entry.client))
       IN  /\ db' = d
           /\ log' = IF new /\ row # None THEN LogAccess(log, row) ELSE log
           /\ seen' = IF new THEN seen \union {Head(poll.left)} ELSE seen
           /\ poll' = [poll EXCEPT !.left = Tail(@),
                                   !.newest = IF entry.time > @ THEN entry.time ELSE @]
    /\ UNCHANGED <<PollLocal, spent, watermark, overrun>>

\* Mutant: the batch's newest time is kept although the batch failed.
PollFailsForward ==
    /\ poll.at = "walk"
    /\ Spend
    /\ poll' = NoPoll
    /\ watermark' = poll.newest
    /\ UNCHANGED <<PollLocal, db, log, seen, overrun>>

\* Mutant: the exception ends the poll's thread.
PollDies ==
    /\ poll.at = "walk"
    /\ Spend
    /\ poll' = [NoPoll EXCEPT !.at = "ended"]
    /\ UNCHANGED <<PollLocal, db, log, watermark, seen, overrun>>

\* An exception, as when the database is locked, ends the batch without the watermark.
PollFails ==
    /\ poll.at = "walk"
    /\ Spend
    /\ poll' = NoPoll
    /\ UNCHANGED <<PollLocal, db, log, watermark, seen, overrun>>

\* The end of a batch, and prune_allowed_rows.
PollEnd ==
    /\ poll.at = "walk" /\ poll.left = <<>>
    /\ poll' = NoPoll
    /\ watermark' = poll.newest
    /\ log' = {r \in log : ~(r.reason = "resolved" /\ r.ts < now - Retention)}
    /\ UNCHANGED <<PollLocal, db, spent, seen, overrun>>

-----------------------------------------------------------------------------
(* The names that clients ask for, and the page behind a denied one.       *)

Query ==
    /\ Len(querylog) < MaxQueries
    /\ \E q \in Queries :
          querylog' = Append(querylog, [time |-> now + 1, client |-> q.client, host |-> q.host,
                                        answer |-> q.answer])
    /\ UNCHANGED <<householdVars, conn, redirect, shows, crVars, log, spent, approval, watermark, poll, seen, overrun>>

ReportLocal == <<conn, redirect, shows, crVars, querylog, watermark, poll, seen, overrun>>

\* _BlockPageHandler._log_block; a failure is swallowed.
LogBlock ==
    /\ Spend
    /\ \E a \in Client, host \in Host :
          /\ db' = Healed(db, a)
          /\ log' = LogAccess(log, Row(Device(db', a), host, None, None, FALSE, "block page"))
    /\ UNCHANGED <<ReportLocal, job, now, edits, approval>>

-----------------------------------------------------------------------------
(* Approval.                                                               *)

\* request_approval, for a row that the page of a blocked user showed.
RequestApproval ==
    /\ Spend
    /\ \E r \in log :
          /\ ~r.allowed /\ r.who.user # None /\ ~r.asked
          /\ log' = (log \ {r}) \union {[r EXCEPT !.asked = TRUE]}
    /\ UNCHANGED <<ReportLocal, householdVars, approval>>

DismissRequest ==
    /\ Spend
    /\ \E r \in log : r.asked /\ log' = (log \ {r}) \union {[r EXCEPT !.asked = FALSE]}
    /\ UNCHANGED <<ReportLocal, householdVars, approval>>

Scopes == {"global", "users", "groups", "devices"}

GroupOf(id) ==
    LET groups == {db.device[a].group : a \in {x \in DOMAIN db.device :
                                                  db.device[x] # None /\ db.device[x].id = id}}
    IN  IF groups = {} THEN None ELSE CHOOSE g \in groups : TRUE

\* Whom an approval of row r is for.
Beneficiary(r, scope) ==
    CASE scope = "global" -> None
      [] scope = "users" -> r.who.user
      [] scope = "devices" -> r.who.device
      [] scope = "groups" -> GroupOf(r.who.device)

\* No edit of the tables is under way, for the property below.
Quiet == \A t \in Thread : approval[t] # NoApproval \/ job[t] = <<>>

\* approve_from_report, up to its first commit: the request is no longer pending.
ApproveBegin(t) ==
    /\ Spend
    /\ approval[t] = NoApproval /\ job[t] = <<>>
    /\ \E r \in log, scope \in Scopes :
          /\ ~r.allowed
          /\ scope \in {"devices", "groups"} => r.who.device \in db.present.devices
          /\ scope # "global" => Beneficiary(r, scope) # None
          /\ log' = (log \ {r}) \union {[r EXCEPT !.asked = FALSE]}
          /\ approval' = [approval EXCEPT ![t] =
                            [row |-> r, scope |-> scope, who |-> Beneficiary(r, scope), at |-> "grant",
                             edits |-> edits, quiet |-> Quiet]]
    /\ UNCHANGED <<ReportLocal, householdVars>>

ApproveLocal == <<conn, redirect, crVars, log, querylog, watermark, poll, seen, overrun, now, edits, spent>>

Ends(t) == approval' = [approval EXCEPT ![t] = NoApproval]

\* Mutant: user_shows has no foreign key.
InsertShowAnyway(pairs, who, series) == pairs \union {<<who, series>>}

\* The INSERT of one show; it fails for a user who was deleted.
InsertShow(pairs, who, series) ==
    IF who \in db.present.users THEN pairs \union {<<who, series>>} ELSE pairs

\* A show: for one user or, one by one, for all; device and group are refused here.
GrantShow(t) ==
    LET a == approval[t]
    IN  /\ a.at = "grant" /\ a.row.series # None
        /\ shows' = CASE a.scope = "global" -> shows \union (db.present.users \X {a.row.series})
                      [] a.scope = "users" -> InsertShow(shows, a.who, a.row.series)
                      [] a.scope \in {"devices", "groups"} -> shows
        /\ Ends(t)
        /\ UNCHANGED <<ApproveLocal, db, job>>

\* Mutant: the grant is scoped to the user whatever was chosen.
GrantToUser(table, i, a) ==
    IF a.scope = "global" THEN <<Scope(table, i, TRUE)>> ELSE <<Grant(table, i, "users", a.row.who.user)>>

\* What the approval writes on the row.
GrantTo(table, i, a) ==
    IF a.scope = "global" THEN <<Scope(table, i, TRUE)>> ELSE <<Grant(table, i, a.scope, a.who)>>

\* A path is only shown on the domain's page; a block of AdGuard's own gets an exception;
\* otherwise the domain is granted, and made if no domain covers the host.
GrantHost(t) ==
    LET a == approval[t]
        host == a.row.host
        found == FindDomain(db.domain, host)
        next(d, statements) ==
            /\ db' = d
            /\ job' = [job EXCEPT ![t] = statements]
            /\ approval' = [approval EXCEPT ![t].at = "flash"]
    IN  /\ a.at = "grant" /\ a.row.series = None
        /\ \/ a.row.reason = "path" /\ Ends(t) /\ UNCHANGED <<db, job>>
           \/ /\ a.row.reason \in {"category", "native"}
              /\ next(IF db.allow[host] # None THEN db
                      ELSE [db EXCEPT !.allow[host] = [access |-> Nobody]], GrantTo("allow", host, a))
           \/ /\ a.row.reason \notin {"path", "category", "native"}
              /\ found # None
              /\ next(db, GrantTo("domain", found, a))
           \/ /\ a.row.reason \notin {"path", "category", "native"}
              /\ found = None
              /\ \E i \in DOMAIN db.domain :
                    /\ NewId("domain", i)
                    /\ next([db EXCEPT !.domain[i] =
                               [pattern |-> host, mode |-> "splice", kept |-> FALSE, series |-> FALSE,
                                paths |-> {}, access |-> Nobody]], GrantTo("domain", i, a))
        /\ UNCHANGED <<ApproveLocal, shows>>

\* A statement of the grant; an error is the end of the request.
ApproveStatement(t) ==
    /\ approval[t] # NoApproval
    /\ Statement(t)
    /\ approval' = IF Fails(db, Head(job[t])) THEN [approval EXCEPT ![t] = NoApproval] ELSE approval
    /\ UNCHANGED <<conn, redirect, shows, crVars, log, querylog, watermark, poll, seen, overrun, spent>>

\* The page says "Approved".
ApproveFlash(t) ==
    /\ approval[t] # NoApproval /\ approval[t].at = "flash" /\ job[t] = <<>>
    /\ Ends(t)
    /\ UNCHANGED <<ApproveLocal, db, job, shows>>

\* The dashboard is restarted, with the poll and its requests.
RestartDashboard ==
    /\ Spend
    /\ poll' = NoPoll
    /\ approval' = [t \in Thread |-> NoApproval]
    /\ job' = [t \in Thread |-> <<>>]
    /\ UNCHANGED <<db, now, edits, conn, redirect, shows, crVars, log, querylog, watermark, seen, overrun>>

-----------------------------------------------------------------------------
(* The specification.                                                      *)

Poll == PollBegin \/ PollEntry \/ PollEnd

\* A thread that approves serves nothing else.
Next ==
    \/ /\ GateNext({t \in Thread : approval[t] = NoApproval})
       /\ UNCHANGED <<querylog, watermark, poll, approval, seen, overrun>>
    \/ Poll \/ PollFails
    \/ Query \/ LogBlock \/ RequestApproval \/ DismissRequest
    \/ \E t \in Thread : \/ ApproveBegin(t) \/ GrantShow(t) \/ GrantHost(t)
                          \/ ApproveStatement(t) \/ ApproveFlash(t)
    \/ RestartDashboard

\* Entries stand in the order of their times.
InOrder ==
    \A j, k \in DOMAIN querylog :
        /\ querylog[k].time \in 1 .. now + 1
        /\ j <= k => querylog[j].time <= querylog[k].time

\* The query log, too, is set by an instance: AdGuard has run before.
Init ==
    /\ GateInit
    /\ \A r \in log : r.host \in Host \union {Site[h] : h \in Host}
    /\ querylog \in Seq(Entry) /\ InOrder
    /\ watermark = 0 /\ poll = NoPoll
    /\ approval = [t \in Thread |-> NoApproval]
    /\ seen = {} /\ overrun = {}

\* The poll runs every minute as long as the dashboard does.
Fairness == WF_reportVars(Poll)

Spec == Init /\ [][Next]_reportVars

-----------------------------------------------------------------------------
(* Properties.                                                             *)

TypeOK ==
    /\ GateTypeOK
    /\ \A r \in log : r.host \in Host \union {Site[h] : h \in Host}
    /\ watermark \in 0 .. now + 1
    /\ seen \union overrun \subseteq 1 .. Len(querylog)

\* An entry of the query log is dealt with.
Settled(k) ==
    \/ k \in seen \union overrun
    \/ \E j \in seen : j < k /\ querylog[j].time = querylog[k].time

\* The watermark passes over no entry, although a batch is read newest first and may fail
\* anywhere: except entries that more than one page lies above, and those of the second
\* at which an earlier batch ended.
WatermarkSound ==
    \A k \in DOMAIN querylog : querylog[k].time <= watermark => Settled(k)

\* Every query comes into a batch at last, whatever failed before.
EveryQueryIsSeen ==
    \A k \in 1 .. MaxQueries : k <= Len(querylog) ~> (k \in DOMAIN querylog /\ Settled(k))

\* When the page says "Approved" and nobody edited the tables meanwhile, the row that the
\* helpers or the DNS rules will find for the host admits every device the approval is for,
\* although another thread may have made or granted a row for that host.
ApprovalGrants ==
    [][\A t \in Thread :
          LET a == approval[t]
              i == FindDomain(db.domain, a.row.host)
              row == IF a.row.reason \in {"category", "native"} THEN db.allow[a.row.host] ELSE db.domain[i]
          IN  /\ a.at = "flash" /\ approval'[t] = NoApproval
              /\ job[t] = <<>> /\ a.quiet /\ edits = a.edits /\ spent' = spent
              =>  \A x \in Client :
                    LET dev == Device(db, x)
                    IN  /\ dev # None
                        /\ CASE a.scope = "global" -> TRUE
                             [] a.scope = "users" -> dev.user = a.who
                             [] a.scope = "groups" -> dev.group = a.who
                             [] a.scope = "devices" -> dev.id = a.who
                        => Reason(dev, row) # None]_reportVars
=============================================================================
