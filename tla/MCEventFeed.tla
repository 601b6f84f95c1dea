---- MODULE MCEventFeed ----
\* Two overlapping scopes and a topic for each way an event can match them.
EXTENDS EventFeed

MCScopes == {"left", "right"}
MCTopics == {"l", "r", "both"}
MCMatches == [s \in MCScopes |-> IF s = "left" THEN {"l", "both"}
                                               ELSE {"r", "both"}]
====
