------------------------------- MODULE Access -------------------------------
(***************************************************************************)
(* What the household's tables say of a device, as pure decisions: the     *)
(* operators of common/matching.py, common/schedule_eval.py and            *)
(* common/policy_class.py, which the DNS rules, the Squid helpers, the     *)
(* lockout and the dashboard's pages all share.                            *)
(*                                                                         *)
(* A regular expression is a model value p with the hosts it covers,       *)
(* Covers[p]: the pattern's own and their subdomains.  Time is a number of *)
(* slots; a week has Days days of Slots slots, in the time zone of the     *)
(* schedule.  An audience is what the *_users, *_groups and *_devices      *)
(* tables and is_global say of one row: [everyone, users, groups,          *)
(* devices].                                                               *)
(***************************************************************************)
EXTENDS Integers, FiniteSets

CONSTANTS
    None,
    Covers,      \* Covers[p]: the hosts that _domain_regex(p) matches
    Bare,        \* Bare[p]: p without its backslashes
    Literal,     \* the patterns that are written as re.escape() writes them
    Complex,     \* the patterns _COMPLEX_PATTERN_GLOB picks out
    Days, Slots  \* the length of a week in days and of a day in slots

Pattern == DOMAIN Covers
Host == UNION {Covers[p] : p \in Pattern}

Least(S) == CHOOSE x \in S : \A y \in S : x <= y
Greatest(S) == CHOOSE x \in S : \A y \in S : x >= y

-----------------------------------------------------------------------------
(* Who a row speaks of.                                                    *)

\* schedule_applies_to_target; None stands for an id the caller does not have.
Reaches(audience, user, group, device) ==
    \/ audience.everyone
    \/ user # None /\ user \in audience.users
    \/ group # None /\ group \in audience.groups
    \/ device # None /\ device \in audience.devices

\* schedule_applies_to_device.
ScheduleAppliesToDevice(dev, schedule) ==
    Reaches(schedule.access, dev.user, dev.group, dev.id)

\* category_applies_to_device.
CategoryAppliesToDevice(dev, category) ==
    Reaches(category.access, dev.user, dev.group, dev.id)

\* device_domain_reason and device_allowlist_reason: the axis that grants the row,
\* in this order, or None.
Reason(dev, row) ==
    CASE row.access.everyone -> "global"
      [] ~row.access.everyone /\ dev.user \in row.access.users -> "user"
      [] ~row.access.everyone /\ dev.user \notin row.access.users
            /\ dev.group \in row.access.groups -> "group"
      [] ~row.access.everyone /\ dev.user \notin row.access.users
            /\ dev.group \notin row.access.groups
            /\ dev.id \in row.access.devices -> "device"
      [] OTHER -> None

\* find_domain: the row of the lowest id whose pattern covers the host, or None.
FindDomain(domains, host) ==
    LET hits == {i \in DOMAIN domains : domains[i] # None /\ host \in Covers[domains[i].pattern]}
    IN  IF hits = {} THEN None ELSE Least(hits)

\* _path_allowed_or_bare_root: without path rules only the site's root is allowed.
PathAllowed(domain, path, root) ==
    IF domain.paths = {} THEN path = root ELSE path \in domain.paths

\* ip_in_configured_lan: no configured network means no check.
InConfiguredLan(lan, ip) == lan = {} \/ ip \in lan

\* classify_device's two questions that the tables below ask.
Bypassed(dev) == dev.ignored
BumpEligible(dev) == dev.bump /\ ~dev.ignored /\ ~dev.quarantined /\ dev.vouched

-----------------------------------------------------------------------------
(* Content categories.                                                     *)

CategoryDomains(category) == category.listed \union category.manual

\* _category_domain_patterns: an exception removes the pattern it names, backslashes
\* apart.
BlockedPatterns(category) ==
    {p \in CategoryDomains(category) :
        Bare[p] \notin {Bare[e] : e \in category.exceptions}}

\* find_categories_for_hostname: the literal suffixes of the host, of every category;
\* for the rest, the regular expressions that were entered by hand.
Listed(category, host) ==
    \E p \in CategoryDomains(category) :
        /\ host \in Covers[p]
        /\ p \in Literal \/ (p \in Complex /\ p \in category.manual)

\* ... and its "overridden" flag.
Excepted(category, host) == \E e \in category.exceptions : host \in Covers[e]

-----------------------------------------------------------------------------
(* Schedules.                                                              *)

Weekday(t) == (t \div Slots) % Days
SlotOf(t) == t % Slots

\* Mutant: the morning leg of an overnight window belongs to the day itself.
ScheduleIsActiveSameDay(schedule, t) ==
    LET today == Weekday(t) \in schedule.days
    IN  CASE schedule.start = schedule.end -> today
          [] schedule.start < schedule.end ->
                today /\ schedule.start <= SlotOf(t) /\ SlotOf(t) < schedule.end
          [] schedule.start > schedule.end ->
                today /\ (SlotOf(t) >= schedule.start \/ SlotOf(t) < schedule.end)

\* schedule_is_active.
ScheduleIsActive(schedule, t) ==
    LET today == Weekday(t) \in schedule.days
        yesterday == (Weekday(t) - 1) % Days \in schedule.days
    IN  CASE schedule.start = schedule.end -> today
          [] schedule.start < schedule.end ->
                today /\ schedule.start <= SlotOf(t) /\ SlotOf(t) < schedule.end
          [] schedule.start > schedule.end ->
                \/ today /\ SlotOf(t) >= schedule.start
                \/ yesterday /\ SlotOf(t) < schedule.end

\* active_override_for_target: a device's own before its user's before its group's,
\* and of these the newest that has not expired.
ActiveOverride(overrides, t, user, group, device) ==
    LET of(kind, who) == {o \in overrides : o.kind = kind /\ o.who = who /\ o.expires > t}
        axis == <<of("devices", device), of("users", user), of("groups", group)>>
        hits == {i \in 1 .. 3 : axis[i] # {}}
    IN  IF hits = {} THEN None
        ELSE CHOOSE o \in axis[Least(hits)] : \A p \in axis[Least(hits)] : o.created >= p.created

\* schedule_is_active_for_target: an override decides for every mode and lockout.
ScheduleIsActiveForTarget(schedules, s, overrides, t, user, group, device) ==
    LET o == ActiveOverride(overrides, t, user, group, device)
    IN  IF (schedules[s].mode \/ schedules[s].lockout) /\ o # None
        THEN o.schedule = s
        ELSE ScheduleIsActive(schedules[s], t)

\* schedule_is_active_for_device.
ScheduleIsActiveForDevice(schedules, s, overrides, t, dev) ==
    ScheduleIsActiveForTarget(schedules, s, overrides, t, dev.user, dev.group, dev.id)

\* active_schedules_for_target.
ActiveSchedules(schedules, overrides, t, user, group, device) ==
    {s \in DOMAIN schedules :
        /\ schedules[s] # None
        /\ Reaches(schedules[s].access, user, group, device)
        /\ ScheduleIsActiveForTarget(schedules, s, overrides, t, user, group, device)}

\* is_full_lockout_active.
FullLockoutActive(schedules, overrides, t, dev) ==
    \E s \in ActiveSchedules(schedules, overrides, t, dev.user, dev.group, dev.id) :
        schedules[s].lockout

-----------------------------------------------------------------------------
(* What a window means, for comparison: it is open from its start, on each *)
(* of its days, for its length, around the week.                           *)

Length(schedule) ==
    IF schedule.start = schedule.end THEN Slots ELSE (schedule.end - schedule.start) % Slots

Opens(schedule) ==
    {d * Slots + (IF schedule.start = schedule.end THEN 0 ELSE schedule.start) : d \in schedule.days}

InWindow(schedule, t) ==
    \E o \in Opens(schedule) : (t - o) % (Days * Slots) < Length(schedule)
=============================================================================
