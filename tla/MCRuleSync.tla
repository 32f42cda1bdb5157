----------------------------- MODULE MCRuleSync -----------------------------
\* Two devices, one of them a child's; a site and an app under it; a small and a large
\* list; a week of days of three slots.
EXTENDS RuleSync, TLC
CONSTANTS child, kids, f1

MCCovers == [site |-> {"site", "app"}, app |-> {"app"}, doh |-> {"doh"}]
MCBare == [p \in DOMAIN MCCovers |-> p]
MCLists == [small |-> {"app"}, large |-> {"site", "app"}]
Only(u) == [Nobody EXCEPT !.users = u]
Everyone == [Nobody EXCEPT !.everyone = TRUE]
MCAudiences == {Everyone, Only({child})}
Window(days, start, end, lockout) ==
    [days |-> days, start |-> start, end |-> end, lockout |-> lockout, mode |-> TRUE]
MCWindows == {Window({0, 6}, 0, 0, FALSE), Window({6}, 2, 1, TRUE)}
Form(id, user, group) ==
    [id |-> id, user |-> user, group |-> group, ignored |-> FALSE, quarantined |-> FALSE,
     vouched |-> TRUE, bump |-> TRUE]
MCForms == {[Form(1, None, kids) EXCEPT !.bump = FALSE], [Form(1, None, None) EXCEPT !.ignored = TRUE]}

MCDb ==
    [device |-> <<Form(1, child, None), [Form(2, None, kids) EXCEPT !.bump = FALSE]>>,
     present |-> [users |-> {child}, groups |-> {kids}, devices |-> {1, 2}],
     domain |-> <<[pattern |-> "app", mode |-> "bump", kept |-> FALSE, series |-> TRUE, paths |-> {"/"},
                   access |-> Only({child})],
                  [pattern |-> "site", mode |-> "trusted", kept |-> FALSE, series |-> FALSE, paths |-> {},
                   access |-> Nobody], None>>,
     allow |-> [p \in DOMAIN MCCovers |->
                  IF p = "doh" THEN [access |-> [Nobody EXCEPT !.groups = {kids}]] ELSE None],
     category |-> <<[url |-> "small", listed |-> {}, manual |-> {"site"}, exceptions |-> {"doh"},
                     access |-> [Nobody EXCEPT !.groups = {kids}]], None>>,
     schedule |-> <<Window({0}, 1, 0, FALSE) @@ [access |-> Only({child}), blocks |-> {1}], None>>,
     override |-> {[schedule |-> 1, kind |-> "users", who |-> child, created |-> 0, expires |-> 1]}]

MCInit == db = MCDb /\ Init

MCSpec == MCInit /\ [][Next]_ruleVars /\ Fairness
=============================================================================
