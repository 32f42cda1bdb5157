------------------------------- MODULE MCGate -------------------------------
\* A child's device, an address whose binding has lost its device, one without a binding
\* and one outside the household's network; a site of shows, which is decrypted, and one
\* that is not.
EXTENDS Gate, TLC
CONSTANTS child, sibling, kids, pilot, saga, tale

MCCovers == [shows |-> {"shows"}, news |-> {"news"}]
MCBare == [p \in DOMAIN MCCovers |-> p]
MCLists == [list |-> {"news"}]
Only(u) == [Nobody EXCEPT !.users = u]
MCAudiences == {[Nobody EXCEPT !.everyone = TRUE]}
MCForms == {[PendingDevice(1) EXCEPT !.group = kids]}
Request1(kind, path, id) == [kind |-> kind, path |-> path, id |-> id]
MCRequests == {Request1("watch", "/watch", pilot), Request1("series", "/series", tale),
               Request1("other", "/", None), Request1("other", "/home", None),
               Request1("guarded", "/cms", None), Request1("objects", "/objects", None)}

Bump(access) ==
    [pattern |-> "shows", mode |-> "bump", kept |-> FALSE, series |-> TRUE, paths |-> {}, access |-> access]
MCDb ==
    [device |-> ("a" :> [PendingDevice(1) EXCEPT !.user = child, !.group = kids]
                 @@ "b" :> None),
     present |-> [users |-> {child, sibling}, groups |-> {kids}, devices |-> {1}],
     domain |-> <<Bump([Only({child}) EXCEPT !.groups = {kids}]), None>>,
     allow |-> [p \in DOMAIN MCCovers |-> None],
     category |-> <<[url |-> "list", listed |-> {"news"}, manual |-> {}, exceptions |-> {}, access |-> Nobody]>>,
     schedule |-> <<None>>,
     override |-> {}]

\* The pilot was resolved before.
MCInit ==
    /\ db = MCDb /\ shows = {<<child, saga>>, <<sibling, tale>>} /\ log = {}
    /\ cache = [o \in Object |-> [series |-> saga, expires |-> 1]]
    /\ catalog = [o \in Object |-> saga]
    /\ GateInit

MCSpec == MCInit /\ [][GateNext(Thread)]_gateVars
=============================================================================
