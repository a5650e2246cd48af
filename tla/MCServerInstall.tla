--------------------------- MODULE MCServerInstall ---------------------------
EXTENDS ServerInstall, TLC

CONSTANTS db, auth, tpl, fn, m1, m2

\* tpl stands for auth-templates, fn for an optional service.
Compose == [s \in Services |-> IF s \in {auth, fn} THEN {db} ELSE {}]

Set(a) == [s \in Services |-> IF s = auth THEN a ELSE 1]
Small == [on |-> {db, auth, tpl}, set |-> Set(1), route |-> "site"]
Large == [on |-> Services, set |-> Set(2), route |-> None]
TwoConfigs == {Small, Large}
=============================================================================
