--------------------------- MODULE MCCategoryLists ---------------------------
\* Two files, of which the first includes the second, for TLC.
EXTENDS CategoryLists, TLC

CONSTANTS d1, d2, whole, part

OneInclude == {<<whole, part>>}
Split == {[u \in Url |-> IF u = whole THEN {d1} ELSE {d2}]}
=============================================================================
