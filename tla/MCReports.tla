------------------------------ MODULE MCReports ------------------------------
\* A child's device and another of its group; a site of shows and
\* one on a list; the rows that the gate has left in the report.
EXTENDS Reports, TLC
CONSTANTS child, kids, saga

MCCovers == [shows |-> {"shows"}, news |-> {"news"}]
MCSame == [p \in DOMAIN MCCovers |-> p]
MCLists == [list |-> {"news"}]
MCAudiences == {Nobody}
MCForms == {PendingDevice(1)}
Query1(client, host, answer) == [client |-> client, host |-> host, answer |-> answer]
MCQueries == {Query1("b", "shows", "block page"), Query1("a", "news", None)}

MCDb ==
    [device |-> ("a" :> [PendingDevice(1) EXCEPT !.user = child, !.group = kids]
                 @@ "b" :> [PendingDevice(2) EXCEPT !.group = kids]),
     present |-> [users |-> {child}, groups |-> {kids}, devices |-> {1, 2}],
     domain |-> <<[pattern |-> "shows", mode |-> "bump", kept |-> FALSE, series |-> TRUE, paths |-> {},
                   access |-> Nobody], None>>,
     allow |-> [p \in DOMAIN MCCovers |-> None],
     category |-> <<[url |-> "list", listed |-> {"news"}, manual |-> {}, exceptions |-> {}, access |-> Nobody]>>,
     schedule |-> <<None>>,
     override |-> {}]

MCRow(device, path, series, reason) ==
    [who |-> [name |-> child, user |-> child, device |-> device], host |-> "shows", path |-> path,
     series |-> series, allowed |-> FALSE, reason |-> reason, ts |-> 0, asked |-> FALSE]

MCInit ==
    /\ db = MCDb /\ shows = {} /\ log = {MCRow(None, "/watch", saga, "show"),
                                                MCRow(1, "/x", None, "path")}
    /\ cache = <<>> /\ catalog = <<>>
    /\ querylog = <<Query1("a", "news", "list") @@ [time |-> 1],
                   Query1("a", "shows", "resolved") @@ [time |-> 1]>>
    /\ Init

MCSpec == MCInit /\ [][Next]_reportVars /\ Fairness
=============================================================================
