---- MODULE MCClientSync ----
\* One scope that matches everything, as client-core subscribes.
EXTENDS ClientSync

MCScopes == {All}
MCMatches == [s \in MCScopes |-> SyncTopics]
====
