--------------------------- MODULE WebCache_proofs ---------------------------
(* Proofs about WebCache: what holds of the response cache for any endpoints  *)
(* holds of those of the web client, whose tables EndpointFacts describes.    *)
EXTENDS EndpointFacts, RtkQueryCache_proofs

LEMMA GapOfCall ==
    ASSUME TypeOK, NEW c \in scene.calls, NEW q \in scene.views, Touches(c, q), ~Covers(c, q)
    PROVE  <<c.api, c.name, q.api, q.name>> \in KnownGaps
<1>1. q \in AllEndpoints.views
  BY ScenesOfEndpoints DEF TypeOK
<1>2. PICK d \in AllEndpoints.calls : SameEndpoint(c, d)
  BY ScenesOfEndpoints DEF TypeOK
<1>3. Touches(d, q) /\ ~Covers(d, q)
  BY <1>2 DEF SameEndpoint, Touches, Covers
<1>4. <<d.api, d.name, q.api, q.name>> \in KnownGaps
  BY <1>1, <1>3, GapsAreKnown
<1> QED
  BY <1>2, <1>4 DEF SameEndpoint

(* Whatever views a page shows and whatever calls are made, however often: a  *)
(* view that was fetched without an error is out of date, once no request is  *)
(* under way, only by a call of which it is known that its tags miss it.      *)
THEOREM WebStaleOnlyAtKnownGaps == WebSpec => []StaleOnlyAtKnownGaps
<1>1. TypeOK /\ FreshWhenIdle => StaleOnlyAtKnownGaps
  BY GapOfCall DEF FreshWhenIdle, StaleOnlyAtKnownGaps
<1> QED
  BY <1>1, CacheTypeCorrect, CacheFreshWhenIdle, PTL DEF WebSpec
=============================================================================
