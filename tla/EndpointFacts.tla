--------------------------- MODULE EndpointFacts ---------------------------
(* What the proofs about WebCache take from the tables of the endpoints. TLC  *)
(* evaluates each for all of them.                                            *)
EXTENDS WebCache

\* What the cache knows of a call but for its turn.
SameEndpoint(c, d) ==
    /\ c.api = d.api /\ c.name = d.name /\ c.source = d.source
    /\ c.writes = d.writes /\ c.adds = d.adds /\ c.invalidates = d.invalidates

\* A scene is of views and calls of the web client, however many of them and
\* however often.
ASSUME ScenesOfEndpoints ==
    \A s \in Scenes :
      /\ s.views \subseteq AllEndpoints.views
      /\ \A c \in s.calls : \E d \in AllEndpoints.calls : SameEndpoint(c, d)

\* A call whose tags miss rows it writes of a view is listed.
ASSUME GapsAreKnown ==
    \A c \in AllEndpoints.calls : \A q \in AllEndpoints.views :
      Touches(c, q) /\ ~Covers(c, q) => <<c.api, c.name, q.api, q.name>> \in KnownGaps

\* Each gap listed is one.
ASSUME KnownGapsAreGaps ==
    \A g \in KnownGaps :
      \E c \in AllEndpoints.calls, q \in AllEndpoints.views :
        g = <<c.api, c.name, q.api, q.name>> /\ Touches(c, q) /\ ~Covers(c, q)
=============================================================================
