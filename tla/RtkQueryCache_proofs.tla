------------------------- MODULE RtkQueryCache_proofs -------------------------
(* Proofs about the response cache of the web client: for any endpoints, any  *)
(* scene of views and calls, and any number of requests under way.            *)
EXTENDS RtkQueryCache, TLAPS

-----------------------------------------------------------------------------
(* Types: entries, calls, and what the services hold.                         *)

Shape(q) == [mounted : BOOLEAN, fetch : {"none", "sent", "answered"}, loaded : BOOLEAN,
             failed : BOOLEAN, shown : [q.rows -> Contents], answer : [q.rows -> Contents],
             provides : SUBSET (q.tags \cup q.items)]

Shaped(e) ==
    /\ e = [q \in scene.views |-> e[q]]
    /\ \A q \in scene.views : e[q] \in Shape(q)

Phases == {"idle", "sent", "applied", "done", "lost", "refused"}

CallsOK ==
    /\ phase \in [scene.calls -> Phases]
    /\ undo = [c \in scene.calls |-> undo[c]]
    /\ \A c \in scene.calls : \A q \in DOMAIN undo[c] :
         q \in scene.views /\ Patches(c, q) /\ undo[c][q] \in [q.rows -> Contents]

StoredOK ==
    /\ stored \in [Sources -> [Rows -> Contents]]
    /\ latest \in [Rows -> Contents]

Typed == scene \in Scenes /\ Shaped(entry) /\ CallsOK /\ StoredOK /\ opens \in 0 .. MaxOpens

\* What the scene fixes stays as it is.
LEMMA SceneStays ==
    ASSUME UNCHANGED scene
    PROVE  /\ Contents' = Contents /\ Rows' = Rows
           /\ \A q : Shape(q)' = Shape(q)
           /\ \A c, q : Patches(c, q)' = Patches(c, q)
BY DEF Contents, Rows, Shape, Patches, Id

LEMMA SomeContents == Seed \in Contents /\ Absent \in Contents
BY DEF Contents

LEMMA WrittenType == \A c \in scene.calls : \A r : Written(c, r) \in Contents
BY DEF Written, Contents

LEMMA RowsOfAll ==
    /\ \A q \in scene.views : q.rows \subseteq Rows
    /\ \A c \in scene.calls : c.writes \subseteq Rows
BY DEF Rows

LEMMA EmptyShape == \A q \in scene.views : Empty(q) \in Shape(q)
BY SomeContents DEF Empty, Shape

LEMMA InvalidatedShape ==
    ASSUME NEW q \in scene.views, NEW x \in Shape(q), NEW tags
    PROVE  Invalidated(q, x, tags) \in Shape(q)
<1>1. [x EXCEPT !.fetch = "sent"] \in Shape(q)
  BY DEF Shape
<1> QED
  BY <1>1, EmptyShape DEF Invalidated

LEMMA RequestEndedShape ==
    ASSUME NEW e, Shaped(e), UNCHANGED scene, NEW p, NEW tags, RequestEnded(e, p, tags)
    PROVE  Shaped(entry)'
<1>1. CASE entry' = e
  BY <1>1, SceneStays DEF Shaped
<1>2. CASE entry' = [q \in scene.views |-> Invalidated(q, e[q], tags)]
  <2>1. \A q \in scene.views : entry'[q] \in Shape(q)
    BY <1>2, InvalidatedShape DEF Shaped
  <2> QED
    BY <1>2, <2>1, SceneStays DEF Shaped
<1> QED
  BY <1>1, <1>2 DEF RequestEnded

LEMMA PatchedShape ==
    ASSUME NEW c \in scene.calls, NEW q \in scene.views, NEW x \in Shape(q)
    PROVE  Patched(c, q, x) \in Shape(q)
<1> DEFINE f == [r \in q.rows |-> IF r \in c.writes THEN Written(c, r) ELSE x.shown[r]]
<1>1. x.shown \in [q.rows -> Contents]
  BY DEF Shape
<1>2. f \in [q.rows -> Contents]
  BY <1>1, WrittenType
<1>3. Patched(c, q, x) = [x EXCEPT !.shown = f]
  BY DEF Patched
<1> HIDE DEF f
<1> QED
  BY <1>2, <1>3 DEF Shape

\* The entry after its answer has arrived.
Arrived(q, y) ==
    [y EXCEPT !.fetch = "none", !.loaded = TRUE, !.failed = FALSE,
              !.shown = y.answer, !.provides = Provided(q, y.answer)]

LEMMA ArrivedShape ==
    ASSUME NEW q \in scene.views, NEW y \in Shape(q)
    PROVE  /\ Arrived(q, y) \in Shape(q)
           /\ Arrived(q, y).fetch = "none" /\ Arrived(q, y).shown = y.answer
           /\ Arrived(q, y).loaded /\ Arrived(q, y).answer = y.answer
           /\ Arrived(q, y).provides = Provided(q, y.answer)
<1> DEFINE tags == Provided(q, y.answer)
<1>1. tags \in SUBSET (q.tags \cup q.items)
  BY DEF Provided
<1>2. Arrived(q, y) = [y EXCEPT !.fetch = "none", !.loaded = TRUE, !.failed = FALSE,
                                !.shown = y.answer, !.provides = tags]
  BY DEF Arrived
<1> HIDE DEF tags
<1>3. Arrived(q, y) \in Shape(q) /\ Arrived(q, y).provides = tags
  BY <1>1, <1>2 DEF Shape
<1>4. /\ Arrived(q, y).fetch = "none" /\ Arrived(q, y).shown = y.answer
      /\ Arrived(q, y).loaded /\ Arrived(q, y).answer = y.answer
  BY <1>1, <1>2 DEF Shape
<1> QED
  BY <1>3, <1>4 DEF tags

LEMMA UndoneShape ==
    ASSUME Typed, NEW c \in scene.calls, NEW q \in scene.views
    PROVE  Undone(c, q) \in Shape(q)
<1> DEFINE f == [r \in q.rows |-> IF r \in c.writes THEN undo[c][q][r] ELSE entry[q].shown[r]]
<1>0. entry[q] \in Shape(q)
  BY DEF Typed, Shaped
<1>1. CASE q \in DOMAIN undo[c] /\ entry[q].loaded
  <2>1. undo[c][q] \in [q.rows -> Contents] /\ entry[q].shown \in [q.rows -> Contents]
    BY <1>0, <1>1 DEF Typed, CallsOK, Shape
  <2>2. f \in [q.rows -> Contents]
    BY <2>1
  <2>3. Undone(c, q) = [entry[q] EXCEPT !.shown = f]
    BY <1>1 DEF Undone
  <2> HIDE DEF f
  <2> QED
    BY <1>0, <2>2, <2>3 DEF Shape
<1>2. CASE ~(q \in DOMAIN undo[c] /\ entry[q].loaded)
  BY <1>0, <1>2 DEF Undone
<1> QED
  BY <1>1, <1>2

LEMMA TypedInit == Init => Typed
<1> SUFFICES ASSUME Init PROVE Typed
  OBVIOUS
<1>1. Shaped(entry)
  BY EmptyShape DEF Init, Shaped
<1>2. CallsOK
  BY DEF Init, CallsOK, Phases, NoUndo
<1>3. StoredOK
  BY SomeContents DEF Init, StoredOK
<1> QED
  BY <1>1, <1>2, <1>3, KnownSources DEF Init, Typed

LEMMA TypedTypeOK == Typed => TypeOK
BY DEF Typed, TypeOK, Shaped, Shape, CallsOK, Phases, StoredOK

\* The entry after one of its own events.
LEMMA OneEntry ==
    ASSUME Shaped(entry), UNCHANGED scene, NEW q \in scene.views, NEW x \in Shape(q),
           entry' = [entry EXCEPT ![q] = x]
    PROVE  /\ Shaped(entry)' /\ entry'[q] = x
           /\ \A y \in scene.views \ {q} : entry'[y] = entry[y]
BY SceneStays DEF Shaped

LEMMA CallsKept == UNCHANGED <<scene, phase, undo>> /\ CallsOK => CallsOK'
BY SceneStays DEF CallsOK

LEMMA StoredKept == UNCHANGED <<scene, stored, latest>> /\ StoredOK => StoredOK'
BY SceneStays DEF StoredOK

\* The steps of a view.
LEMMA TypedView ==
    ASSUME Typed, NEW q \in scene.views,
           Mount(q) \/ Unmount(q) \/ Evict(q) \/ Answer(q) \/ Arrive(q) \/ QueryFails(q)
    PROVE  Typed'
<1>0. Shaped(entry) /\ CallsOK /\ StoredOK /\ entry[q] \in Shape(q) /\ opens \in 0 .. MaxOpens
      /\ scene \in Scenes
  BY DEF Typed, Shaped
<1>1. UNCHANGED <<scene, phase, undo, stored, latest>>
  BY DEF Mount, Unmount, Evict, Answer, Arrive, QueryFails
<1>2. CallsOK' /\ StoredOK' /\ scene' \in Scenes
  BY <1>0, <1>1, CallsKept, StoredKept
<1>3. CASE Mount(q)
  <2>1. /\ [entry[q] EXCEPT !.mounted = TRUE] \in Shape(q)
        /\ [entry[q] EXCEPT !.mounted = TRUE, !.fetch = "sent"] \in Shape(q)
    BY <1>0 DEF Shape
  <2>2. \/ entry' = [entry EXCEPT ![q] = [entry[q] EXCEPT !.mounted = TRUE]]
        \/ entry' = [entry EXCEPT ![q] = [entry[q] EXCEPT !.mounted = TRUE, !.fetch = "sent"]]
    BY <1>0, <1>3 DEF Mount, Shaped
  <2>3. Shaped(entry)'
    BY <1>0, <1>1, <2>1, <2>2, OneEntry
  <2>4. opens' \in 0 .. MaxOpens
    BY <1>0, <1>3, KnownSources DEF Mount
  <2> QED
    BY <1>2, <2>3, <2>4 DEF Typed
<1>4. CASE Unmount(q)
  <2>1. [entry[q] EXCEPT !.mounted = FALSE] \in Shape(q)
    BY <1>0 DEF Shape
  <2>2. entry' = [entry EXCEPT ![q] = [entry[q] EXCEPT !.mounted = FALSE]]
    BY <1>0, <1>4 DEF Unmount, Shaped
  <2> QED
    BY <1>0, <1>1, <1>2, <1>4, <2>1, <2>2, OneEntry DEF Unmount, Typed
<1>5. CASE Evict(q)
  BY <1>0, <1>1, <1>2, <1>5, EmptyShape, OneEntry DEF Evict, Typed
<1>6. CASE Answer(q)
  <2> DEFINE f == [r \in q.rows |-> stored[q.source][r]]
  <2>1. q.source \in Sources /\ q.rows \subseteq Rows
    BY <1>0, KnownSources, RowsOfAll
  <2>2. f \in [q.rows -> Contents]
    BY <1>0, <2>1 DEF StoredOK
  <2>3. entry' = [entry EXCEPT ![q] = [entry[q] EXCEPT !.fetch = "answered", !.answer = f]]
    BY <1>0, <1>6 DEF Answer, Shaped
  <2> HIDE DEF f
  <2>4. [entry[q] EXCEPT !.fetch = "answered", !.answer = f] \in Shape(q)
    BY <1>0, <2>2 DEF Shape
  <2> QED
    BY <1>0, <1>1, <1>2, <1>6, <2>3, <2>4, OneEntry DEF Answer, Typed
<1>7. CASE Arrive(q)
  <2> DEFINE x == Arrived(q, entry[q])
  <2>1. x \in Shape(q)
    BY <1>0, ArrivedShape
  <2>2. RequestEnded([entry EXCEPT ![q] = x], phase, owed)
    BY <1>7 DEF Arrive, Arrived
  <2> HIDE DEF x
  <2>3. Shaped([entry EXCEPT ![q] = x])
    BY <1>0, <2>1 DEF Shaped
  <2> QED
    BY <1>0, <1>1, <1>2, <1>7, <2>2, <2>3, RequestEndedShape DEF Arrive, Typed
<1>8. CASE QueryFails(q)
  <2> DEFINE x == [entry[q] EXCEPT !.fetch = "none", !.failed = TRUE, !.provides = q.tags]
  <2>1. x \in Shape(q)
    BY <1>0 DEF Shape
  <2>2. RequestEnded([entry EXCEPT ![q] = x], phase, owed)
    BY <1>8 DEF QueryFails
  <2> HIDE DEF x
  <2>3. Shaped([entry EXCEPT ![q] = x])
    BY <1>0, <2>1 DEF Shaped
  <2> QED
    BY <1>0, <1>1, <1>2, <1>8, <2>2, <2>3, RequestEndedShape DEF QueryFails, Typed
<1> QED
  BY <1>3, <1>4, <1>5, <1>6, <1>7, <1>8

\* The steps of a call.
LEMMA TypedCall ==
    ASSUME Typed, NEW c \in scene.calls,
           StartCall(c) \/ Serve(c) \/ CallSucceeds(c) \/ CallFails(c)
    PROVE  Typed'
<1>0. Shaped(entry) /\ CallsOK /\ StoredOK /\ opens \in 0 .. MaxOpens /\ scene \in Scenes
  BY DEF Typed
<1>1. UNCHANGED <<scene, opens>>
  BY DEF StartCall, Serve, CallSucceeds, CallFails
<1>2. CASE StartCall(c)
  <2>1. \A q \in scene.views : entry'[q] = IF q \in PatchedViews(c) THEN Patched(c, q, entry[q])
                                           ELSE entry[q]
    BY <1>2 DEF StartCall
  <2>2. \A q \in scene.views : entry'[q] \in Shape(q)
    BY <1>0, <2>1, PatchedShape DEF Shaped
  <2>3. Shaped(entry)'
    BY <1>1, <1>2, <2>2, SceneStays DEF StartCall, Shaped
  <2>4. \A q \in PatchedViews(c) :
          q \in scene.views /\ Patches(c, q) /\ entry[q].shown \in [q.rows -> Contents]
    BY <1>0 DEF PatchedViews, Shaped, Shape
  <2>5. undo' = [undo EXCEPT ![c] = [q \in PatchedViews(c) |-> entry[q].shown]]
        /\ phase' = [phase EXCEPT ![c] = "sent"]
    BY <1>2 DEF StartCall
  <2>6. CallsOK'
    <3>1. phase' \in [scene'.calls -> Phases] /\ undo' = [d \in scene'.calls |-> undo'[d]]
      BY <1>0, <1>1, <2>5 DEF CallsOK, Phases
    <3>2. undo'[c] = [q \in PatchedViews(c) |-> entry[q].shown]
          /\ \A d \in scene.calls \ {c} : undo'[d] = undo[d]
      BY <1>0, <2>5 DEF CallsOK
    <3>3. \A d \in scene.calls : \A q \in DOMAIN undo'[d] :
            q \in scene.views /\ Patches(d, q) /\ undo'[d][q] \in [q.rows -> Contents]
      <4>1. \A q \in DOMAIN undo'[c] :
              q \in scene.views /\ Patches(c, q) /\ undo'[c][q] \in [q.rows -> Contents]
        BY <2>4, <3>2
      <4> QED
        BY <1>0, <3>2, <4>1 DEF CallsOK
    <3> QED
      BY <1>1, <3>1, <3>3, SceneStays DEF CallsOK
  <2> QED
    BY <1>0, <1>1, <1>2, <2>3, <2>6, StoredKept DEF StartCall, Typed
<1>3. CASE Serve(c)
  <2>1. CallsOK'
    BY <1>0, <1>1, <1>3, SceneStays DEF Serve, CallsOK, Phases
  <2>2. PICK rows \in WhatIsDone(c) :
          /\ stored' = [stored EXCEPT ![c.source] =
                         [r \in Rows |-> IF r \in rows THEN Written(c, r) ELSE @[r]]]
          /\ latest' = [r \in Rows |-> IF r \in rows THEN Written(c, r) ELSE latest[r]]
    BY <1>3 DEF Serve
  <2>3. latest' \in [Rows -> Contents]
    BY <1>0, <2>2, WrittenType DEF StoredOK
  <2>4. stored' \in [Sources -> [Rows -> Contents]]
    <3>1. CASE c.source \in Sources
      <4>1. [r \in Rows |-> IF r \in rows THEN Written(c, r) ELSE stored[c.source][r]]
              \in [Rows -> Contents]
        BY <1>0, <3>1, WrittenType DEF StoredOK
      <4> QED
        BY <1>0, <2>2, <4>1 DEF StoredOK
    <3>2. CASE c.source \notin Sources
      BY <1>0, <2>2, <3>2 DEF StoredOK
    <3> QED
      BY <3>1, <3>2
  <2>5. StoredOK'
    BY <1>1, <2>3, <2>4, SceneStays DEF StoredOK
  <2>6. Shaped(entry)'
    BY <1>0, <1>1, <1>3, SceneStays DEF Serve, Shaped
  <2> QED
    BY <1>0, <1>1, <2>1, <2>5, <2>6 DEF Typed
<1>4. CASE CallSucceeds(c)
  <2>1. Shaped(entry)'
    BY <1>0, <1>1, <1>4, RequestEndedShape DEF CallSucceeds
  <2>2. CallsOK'
    BY <1>0, <1>1, <1>4, SceneStays DEF CallSucceeds, CallsOK, Phases, NoUndo
  <2> QED
    BY <1>0, <1>1, <1>4, <2>1, <2>2, StoredKept DEF CallSucceeds, Typed
<1>5. CASE CallFails(c)
  <2> DEFINE e == [q \in scene.views |-> Undone(c, q)]
  <2>1. Shaped(e)
    BY UndoneShape DEF Shaped
  <2>2. RequestEnded(e, phase', owed \cup Invalidation(c, "failed"))
    BY <1>5 DEF CallFails
  <2> HIDE DEF e
  <2>3. Shaped(entry)'
    BY <1>1, <2>1, <2>2, RequestEndedShape
  <2>4. CallsOK'
    BY <1>0, <1>1, <1>5, SceneStays DEF CallFails, CallsOK, Phases, NoUndo
  <2> QED
    BY <1>0, <1>1, <1>5, <2>3, <2>4, StoredKept DEF CallFails, Typed
<1> QED
  BY <1>2, <1>3, <1>4, <1>5

LEMMA TypedStep == Typed /\ [Next]_vars => Typed'
<1> SUFFICES ASSUME Typed, [Next]_vars PROVE Typed'
  OBVIOUS
<1>1. CASE UNCHANGED vars
  BY <1>1, SceneStays, CallsKept, StoredKept DEF vars, Typed, Shaped
<1>2. CASE Next
  BY <1>2, TypedView, TypedCall DEF Next, QueryEnds, CallEnds
<1> QED
  BY <1>1, <1>2

(* The cache, the calls and the services have their types in every reachable  *)
(* state, whatever the scene is.                                              *)
THEOREM CacheTypeCorrect == Spec => []TypeOK
<1>1. Spec => []Typed
  BY TypedInit, TypedStep, PTL DEF Spec
<1> QED
  BY <1>1, TypedTypeOK, PTL

-----------------------------------------------------------------------------
(* Freshness. A view that no applied call has missed either shows what was    *)
(* written last, or is being fetched, or has a tag that some call under way   *)
(* or some pending invalidation names; and pending invalidations wait only    *)
(* while a request is under way.                                              *)

\* The tags that are pending, or will be when the calls under way have ended.
Awaited(p, tags) == tags \cup UNION {c.invalidates : c \in {d \in scene.calls : p[d] \in {"sent", "applied"}}}

Holds(q, data) == \A r \in q.rows : data[r] = latest[r]

EntryFine(q, x, p, tags) ==
    /\ x.loaded /\ ~x.failed /\ x.fetch = "none" =>
         /\ q.tags \subseteq x.provides
         /\ \/ x.provides \cap Awaited(p, tags) # {}
            \/ /\ Holds(q, x.shown)
               /\ \A r \in (q.items \cap q.rows) \ x.provides : x.shown[r] = Absent
    /\ x.fetch = "answered" =>
         \/ Provided(q, x.answer) \cap Awaited(p, tags) # {}
         \/ Holds(q, x.answer)

\* Every call that was applied, and wrote rows of the view, covers it.
Unmissed(q, p) ==
    \A c \in scene.calls : p[c] \in {"applied", "done", "lost"} /\ Touches(c, q) => Covers(c, q)

Fine(e, p, tags) == \A q \in scene.views : Unmissed(q, p) => EntryFine(q, e[q], p, tags)

\* Such a view reads the source that was written.
OneSource ==
    \A q \in scene.views :
      Unmissed(q, phase) => \A r \in q.rows : stored[q.source][r] = latest[r]

CacheFine == Fine(entry, phase, owed) /\ OneSource /\ (owed # {} => Busy(entry, phase))

LEMMA EmptyFields ==
    ASSUME NEW q
    PROVE  ~Empty(q).loaded /\ Empty(q).fetch = "none" /\ Empty(q).provides = {}
BY DEF Empty

LEMMA FineInit == Init => CacheFine
<1> SUFFICES ASSUME Init PROVE CacheFine
  OBVIOUS
<1>1. Typed
  BY TypedInit
<1>2. \A q \in scene.views : entry[q] = Empty(q)
  BY DEF Init
<1>3. \A q \in scene.views : ~entry[q].loaded /\ entry[q].fetch = "none"
  BY <1>2, EmptyFields
<1>4. Fine(entry, phase, owed)
  BY <1>3 DEF Fine, EntryFine
<1>5. \A q \in scene.views : q.source \in Sources /\ q.rows \subseteq Rows
  BY <1>1, KnownSources, RowsOfAll DEF Typed
<1>6. \A s \in Sources : stored[s] = latest
  BY DEF Init
<1>7. OneSource
  BY <1>5, <1>6 DEF OneSource
<1> QED
  BY <1>4, <1>7 DEF Init, CacheFine

\* More awaited tags do no harm to an entry that stays.
LEMMA FineMonotone ==
    ASSUME NEW q, NEW x, NEW p, NEW tags, NEW p2, NEW tags2,
           EntryFine(q, x, p, tags), Awaited(p, tags) \subseteq Awaited(p2, tags2)
    PROVE  EntryFine(q, x, p2, tags2)
BY DEF EntryFine

\* A call that was applied stays so: a view that is missed stays missed.
LEMMA MissedStays ==
    ASSUME UNCHANGED scene,
           \A c \in scene.calls : phase[c] \in {"applied", "done", "lost"}
                                    => phase'[c] \in {"applied", "done", "lost"}
    PROVE  \A q : /\ Unmissed(q, phase)' = Unmissed(q, phase')
                  /\ Unmissed(q, phase') => Unmissed(q, phase)
BY DEF Unmissed, Touches, Covers

LEMMA FineNext ==
    ASSUME UNCHANGED <<scene, latest>>, NEW e, NEW p, NEW tags,
           entry' = e, phase' = p, owed' = tags, Fine(e, p, tags)
    PROVE  Fine(entry, phase, owed)'
BY DEF Fine, Unmissed, Touches, Covers, EntryFine, Awaited, Holds, Provided

\* The end of a request: what waited is invalidated once nothing is under way.
LEMMA FineEnds ==
    ASSUME NEW e, Shaped(e), NEW p, NEW tags, UNCHANGED <<scene, latest>>, phase' = p,
           RequestEnded(e, p, tags), Fine(e, p, tags)
    PROVE  Fine(entry, phase, owed)' /\ (owed # {} => Busy(entry, phase))'
<1>1. CASE Busy(e, p) /\ entry' = e /\ owed' = tags
  BY <1>1, FineNext DEF Busy
<1>2. CASE ~Busy(e, p) /\ owed' = {} /\ entry' = [q \in scene.views |-> Invalidated(q, e[q], tags)]
  <2>1. Awaited(p, tags) = tags
    BY <1>2 DEF Awaited, Busy
  <2>2. ASSUME NEW q \in scene.views, EntryFine(q, e[q], p, tags)
        PROVE  EntryFine(q, Invalidated(q, e[q], tags), p, {})
    <3>1. e[q] \in Shape(q) /\ e[q].fetch = "none"
      BY <1>2 DEF Shaped, Busy
    <3>2. CASE e[q].provides \cap tags = {}
      BY <2>1, <2>2, <3>1, <3>2 DEF Invalidated, EntryFine
    <3>3. CASE e[q].provides \cap tags # {} /\ e[q].mounted
      <4>1. Invalidated(q, e[q], tags).fetch = "sent"
        BY <3>1, <3>3 DEF Invalidated, Shape
      <4> QED
        BY <4>1 DEF EntryFine
    <3>4. CASE e[q].provides \cap tags # {} /\ ~e[q].mounted
      BY <3>4, EmptyFields DEF Invalidated, EntryFine
    <3> QED
      BY <3>2, <3>3, <3>4
  <2>3. \A q \in scene.views : entry'[q] = Invalidated(q, e[q], tags)
    BY <1>2
  <2>4. Fine(entry', p, {})
    BY <2>2, <2>3 DEF Fine
  <2> QED
    BY <1>2, <2>4, FineNext
<1> QED
  BY <1>1, <1>2 DEF RequestEnded

LEMMA OneSourceKept ==
    ASSUME OneSource, UNCHANGED <<scene, stored, latest>>,
           \A c \in scene.calls : phase[c] \in {"applied", "done", "lost"}
                                    => phase'[c] \in {"applied", "done", "lost"}
    PROVE  OneSource'
BY MissedStays DEF OneSource

\* A step that changes one entry only, and neither calls nor tags.
LEMMA FineOne ==
    ASSUME Typed, CacheFine, NEW q \in scene.views, NEW x \in Shape(q),
           entry' = [entry EXCEPT ![q] = x], UNCHANGED <<scene, phase, owed, stored, latest>>,
           Unmissed(q, phase) => EntryFine(q, x, phase, owed),
           entry[q].fetch # "none" => x.fetch # "none"
    PROVE  CacheFine'
<1>1. entry'[q] = x /\ \A y \in scene.views \ {q} : entry'[y] = entry[y]
  BY OneEntry DEF Typed
<1>2. Fine(entry', phase, owed)
  BY <1>1 DEF CacheFine, Fine
<1>3. Busy(entry, phase) => Busy(entry, phase)'
  BY <1>1 DEF Busy
<1> QED
  BY <1>2, <1>3, FineNext, OneSourceKept DEF CacheFine

LEMMA FineView ==
    ASSUME Typed, CacheFine, NEW q \in scene.views,
           Mount(q) \/ Unmount(q) \/ Evict(q) \/ Answer(q) \/ Arrive(q) \/ QueryFails(q)
    PROVE  CacheFine'
<1>0. entry[q] \in Shape(q) /\ Shaped(entry) /\ (Unmissed(q, phase) => EntryFine(q, entry[q], phase, owed))
  BY DEF Typed, Shaped, CacheFine, Fine
<1>1. CASE Mount(q) /\ (entry[q].loaded \/ entry[q].fetch # "none")
  <2> DEFINE x == [entry[q] EXCEPT !.mounted = TRUE]
  <2>1. /\ x \in Shape(q) /\ x.fetch = entry[q].fetch /\ x.loaded = entry[q].loaded
        /\ x.failed = entry[q].failed /\ x.shown = entry[q].shown
        /\ x.provides = entry[q].provides /\ x.answer = entry[q].answer
    BY <1>0 DEF Shape
  <2>2. entry' = [entry EXCEPT ![q] = x]
    BY <1>0, <1>1 DEF Mount, Shaped
  <2> HIDE DEF x
  <2>3. Unmissed(q, phase) => EntryFine(q, x, phase, owed)
    BY <1>0, <2>1 DEF EntryFine
  <2> QED
    BY <1>1, <2>1, <2>2, <2>3, FineOne DEF Mount
<1>2. CASE Mount(q) /\ ~(entry[q].loaded \/ entry[q].fetch # "none")
  <2> DEFINE x == [entry[q] EXCEPT !.mounted = TRUE, !.fetch = "sent"]
  <2>1. x \in Shape(q) /\ x.fetch = "sent"
    BY <1>0 DEF Shape
  <2>2. entry' = [entry EXCEPT ![q] = x]
    BY <1>0, <1>2 DEF Mount, Shaped
  <2> HIDE DEF x
  <2>3. EntryFine(q, x, phase, owed)
    BY <2>1 DEF EntryFine
  <2> QED
    BY <1>2, <2>1, <2>2, <2>3, FineOne DEF Mount
<1>3. CASE Unmount(q)
  <2> DEFINE x == [entry[q] EXCEPT !.mounted = FALSE]
  <2>1. /\ x \in Shape(q) /\ x.fetch = entry[q].fetch /\ x.loaded = entry[q].loaded
        /\ x.failed = entry[q].failed /\ x.shown = entry[q].shown
        /\ x.provides = entry[q].provides /\ x.answer = entry[q].answer
    BY <1>0 DEF Shape
  <2>2. entry' = [entry EXCEPT ![q] = x]
    BY <1>0, <1>3 DEF Unmount, Shaped
  <2> HIDE DEF x
  <2>3. Unmissed(q, phase) => EntryFine(q, x, phase, owed)
    BY <1>0, <2>1 DEF EntryFine
  <2> QED
    BY <1>3, <2>1, <2>2, <2>3, FineOne DEF Unmount
<1>4. CASE Evict(q)
  <2>1. EntryFine(q, Empty(q), phase, owed)
    BY EmptyFields DEF EntryFine
  <2> QED
    BY <1>4, <2>1, EmptyShape, FineOne DEF Evict
<1>5. CASE Answer(q)
  <2> DEFINE f == [r \in q.rows |-> stored[q.source][r]]
             x == [entry[q] EXCEPT !.fetch = "answered", !.answer = f]
  <2>1. q.source \in Sources /\ q.rows \subseteq Rows
    BY KnownSources, RowsOfAll DEF Typed
  <2>2. f \in [q.rows -> Contents]
    BY <2>1 DEF Typed, StoredOK
  <2>3. Unmissed(q, phase) => Holds(q, f)
    BY DEF CacheFine, OneSource, Holds
  <2>4. entry' = [entry EXCEPT ![q] = x]
    BY <1>0, <1>5 DEF Answer, Shaped
  <2> HIDE DEF f
  <2>5. x \in Shape(q) /\ x.fetch = "answered" /\ x.answer = f
    BY <1>0, <2>2 DEF Shape
  <2> HIDE DEF x
  <2>6. Unmissed(q, phase) => EntryFine(q, x, phase, owed)
    BY <2>3, <2>5 DEF EntryFine
  <2> QED
    BY <1>5, <2>4, <2>5, <2>6, FineOne DEF Answer
<1>6. CASE Arrive(q)
  <2> DEFINE x == Arrived(q, entry[q])
             e == [entry EXCEPT ![q] = x]
  <2>1. /\ x \in Shape(q) /\ x.fetch = "none" /\ x.shown = entry[q].answer
        /\ x.provides = Provided(q, entry[q].answer)
    BY <1>0, ArrivedShape
  <2>2. RequestEnded(e, phase, owed) /\ entry[q].fetch = "answered"
    BY <1>6 DEF Arrive, Arrived
  <2> HIDE DEF x
  <2>3. Shaped(e) /\ e[q] = x /\ \A y \in scene.views \ {q} : e[y] = entry[y]
    BY <1>0, <2>1 DEF Shaped
  <2>4. Unmissed(q, phase) => EntryFine(q, x, phase, owed)
    BY <1>0, <2>1, <2>2 DEF EntryFine, Provided
  <2> HIDE DEF e
  <2>5. Fine(e, phase, owed)
    BY <2>3, <2>4 DEF CacheFine, Fine
  <2> QED
    BY <1>6, <2>2, <2>3, <2>5, FineEnds, OneSourceKept DEF Arrive, CacheFine
<1>7. CASE QueryFails(q)
  <2> DEFINE x == [entry[q] EXCEPT !.fetch = "none", !.failed = TRUE, !.provides = q.tags]
             e == [entry EXCEPT ![q] = x]
  <2>1. x \in Shape(q) /\ x.fetch = "none" /\ x.failed
    BY <1>0 DEF Shape
  <2>2. RequestEnded(e, phase, owed)
    BY <1>7 DEF QueryFails
  <2> HIDE DEF x
  <2>3. Shaped(e) /\ e[q] = x /\ \A y \in scene.views \ {q} : e[y] = entry[y]
    BY <1>0, <2>1 DEF Shaped
  <2>4. EntryFine(q, x, phase, owed)
    BY <2>1 DEF EntryFine
  <2> HIDE DEF e
  <2>5. Fine(e, phase, owed)
    BY <2>3, <2>4 DEF CacheFine, Fine
  <2> QED
    BY <1>7, <2>2, <2>3, <2>5, FineEnds, OneSourceKept DEF QueryFails, CacheFine
<1> QED
  BY <1>1, <1>2, <1>3, <1>4, <1>5, <1>6, <1>7

LEMMA PatchedTag ==
    ASSUME Typed, NEW q \in scene.views, NEW c \in scene.calls, Patches(c, q)
    PROVE  c.invalidates \cap q.tags # {}
BY PatchedByTag DEF Typed

\* An entry whose rows were overwritten is fine if one of its own tags is awaited.
LEMMA FineOverwritten ==
    ASSUME NEW q, NEW x \in Shape(q), NEW f \in [q.rows -> Contents], NEW p, NEW tags,
           EntryFine(q, x, p, tags), NEW p2, NEW tags2,
           Awaited(p, tags) \subseteq Awaited(p2, tags2),
           q.tags \cap Awaited(p2, tags2) # {}
    PROVE  EntryFine(q, [x EXCEPT !.shown = f], p2, tags2)
<1> DEFINE y == [x EXCEPT !.shown = f]
<1>1. /\ y.loaded = x.loaded /\ y.failed = x.failed /\ y.fetch = x.fetch
      /\ y.provides = x.provides /\ y.answer = x.answer
  BY DEF Shape
<1> HIDE DEF y
<1>2. EntryFine(q, y, p2, tags2)
  BY <1>1 DEF EntryFine
<1> QED
  BY <1>2 DEF y

LEMMA FineStart ==
    ASSUME Typed, CacheFine, NEW c \in scene.calls, StartCall(c)
    PROVE  CacheFine'
<1>1. /\ phase' = [phase EXCEPT ![c] = "sent"] /\ phase[c] = "idle"
      /\ UNCHANGED <<scene, owed, stored, latest>>
      /\ \A q \in scene.views : entry'[q] = IF q \in PatchedViews(c) THEN Patched(c, q, entry[q])
                                            ELSE entry[q]
  BY DEF StartCall
<1>2. \A d \in scene.calls : phase'[d] = IF d = c THEN "sent" ELSE phase[d]
  BY <1>1 DEF Typed, CallsOK
<1>3. Awaited(phase, owed) \cup c.invalidates \subseteq Awaited(phase', owed)
  BY <1>1, <1>2 DEF Awaited
<1>0. /\ \A c2 \in scene.calls : phase[c2] \in {"applied", "done", "lost"}
                                   => phase'[c2] \in {"applied", "done", "lost"}
      /\ \A q : Unmissed(q, phase') => Unmissed(q, phase)
  BY <1>1, <1>2, MissedStays
<1>4. ASSUME NEW q \in scene.views, Unmissed(q, phase')
      PROVE  EntryFine(q, entry'[q], phase', owed)
  <2>1. entry[q] \in Shape(q) /\ EntryFine(q, entry[q], phase, owed)
    BY <1>0, <1>4 DEF Typed, Shaped, CacheFine, Fine
  <2>2. CASE q \in PatchedViews(c)
    <3> DEFINE f == [r \in q.rows |-> IF r \in c.writes THEN Written(c, r) ELSE entry[q].shown[r]]
    <3>1. f \in [q.rows -> Contents]
      BY <2>1, WrittenType DEF Shape
    <3>2. entry'[q] = [entry[q] EXCEPT !.shown = f]
      BY <1>1, <2>2 DEF Patched
    <3>3. c.invalidates \cap q.tags # {}
      BY <2>2, PatchedTag DEF PatchedViews
    <3>4. q.tags \cap Awaited(phase', owed) # {}
      BY <1>3, <3>3
    <3> HIDE DEF f
    <3> QED
      BY <1>3, <2>1, <3>1, <3>2, <3>4, FineOverwritten
  <2>3. CASE q \notin PatchedViews(c)
    BY <1>1, <1>3, <2>1, <2>3, FineMonotone
  <2> QED
    BY <2>2, <2>3
<1>5. Fine(entry', phase', owed)
  BY <1>4 DEF Fine
<1>6. Fine(entry, phase, owed)'
  BY <1>1, <1>5, FineNext
<1>7. Busy(entry, phase)'
  BY <1>1, <1>2 DEF Busy
<1> QED
  BY <1>0, <1>1, <1>6, <1>7, OneSourceKept DEF CacheFine

LEMMA FineServe ==
    ASSUME Typed, CacheFine, NEW c \in scene.calls, Serve(c)
    PROVE  CacheFine'
<1>1. /\ phase' = [phase EXCEPT ![c] = "applied"] /\ phase[c] = "sent" /\ Accepts(c)
      /\ UNCHANGED <<scene, entry, owed>>
  BY DEF Serve
<1>2. PICK rows \in WhatIsDone(c) :
        /\ stored' = [stored EXCEPT ![c.source] =
                       [r \in Rows |-> IF r \in rows THEN Written(c, r) ELSE @[r]]]
        /\ latest' = [r \in Rows |-> IF r \in rows THEN Written(c, r) ELSE latest[r]]
  BY DEF Serve
<1>3. rows \subseteq c.writes
  BY DEF WhatIsDone
<1>4. /\ \A q \in scene.views : q.source \in Sources /\ q.rows \subseteq Rows
      /\ StoredOK /\ CallsOK
  BY KnownSources, RowsOfAll DEF Typed
<1>5. /\ \A d \in scene.calls : phase'[d] = IF d = c THEN "applied" ELSE phase[d]
      /\ Awaited(phase', owed) = Awaited(phase, owed)
      /\ c.invalidates \subseteq Awaited(phase, owed)
  <2>1. \A d \in scene.calls : phase'[d] = IF d = c THEN "applied" ELSE phase[d]
    BY <1>1, <1>4 DEF CallsOK
  <2>2. {d \in scene.calls : phase'[d] \in {"sent", "applied"}}
          = {d \in scene.calls : phase[d] \in {"sent", "applied"}}
    BY <1>1, <2>1
  <2> QED
    BY <1>1, <2>1, <2>2 DEF Awaited
<1>0. /\ \A q : Unmissed(q, phase)' = Unmissed(q, phase')
      /\ \A q : Unmissed(q, phase') =>
           Unmissed(q, phase) /\ (Touches(c, q) => Covers(c, q))
  BY <1>1, <1>5, MissedStays DEF Unmissed
<1>6. \A q \in scene.views : ~Touches(c, q) => \A r \in q.rows : latest'[r] = latest[r]
  BY <1>2, <1>3, <1>4 DEF Touches
\* What the view holds, it held of rows that exist.
<1>7. ASSUME NEW q \in scene.views, Unmissed(q, phase'), Touches(c, q),
             NEW data, Holds(q, data), NEW provides, q.tags \subseteq provides,
             \A r \in q.rows \cap q.items : r \notin provides => data[r] = Absent
      PROVE  provides \cap Awaited(phase', owed) # {}
  <2>1. Covers(c, q) /\ Unmissed(q, phase)
    BY <1>0, <1>7
  <2>2. CASE c.invalidates \cap q.tags # {}
    BY <1>5, <1>7, <2>2
  <2>3. CASE c.adds \cap q.rows = {} /\ c.writes \cap q.rows \subseteq q.items \cap c.invalidates
    <3>1. PICK r \in c.writes \cap q.rows : TRUE
      BY <1>7 DEF Touches
    <3>2. stored[q.source][r] # Absent
      BY <1>1, <2>1, <2>3, <3>1 DEF Accepts, Covers
    <3>3. data[r] # Absent
      BY <1>7, <2>1, <3>1, <3>2 DEF Holds, CacheFine, OneSource
    <3> QED
      BY <1>5, <1>7, <2>3, <3>1, <3>3
  <2> QED
    BY <2>1, <2>2, <2>3 DEF Covers
<1>8. ASSUME NEW q \in scene.views, Unmissed(q, phase') PROVE EntryFine(q, entry[q], phase, owed)'
  <2>1. EntryFine(q, entry[q], phase, owed) /\ entry' = entry /\ owed' = owed
    BY <1>0, <1>1, <1>8 DEF CacheFine, Fine
  <2>2. Awaited(phase, owed)' = Awaited(phase', owed)
    BY <1>1 DEF Awaited
  <2>3. CASE ~Touches(c, q)
    BY <1>5, <1>6, <2>1, <2>2, <2>3 DEF EntryFine, Holds, Provided
  <2>4. CASE Touches(c, q)
    <3>1. q.tags \subseteq Provided(q, entry[q].answer)
          /\ \A r \in q.rows \cap q.items :
               r \notin Provided(q, entry[q].answer) => entry[q].answer[r] = Absent
      BY DEF Provided
    <3>2. Holds(q, entry[q].answer) => Provided(q, entry[q].answer) \cap Awaited(phase', owed) # {}
      BY <1>7, <1>8, <2>4, <3>1
    <3>3. /\ q.tags \subseteq entry[q].provides /\ Holds(q, entry[q].shown)
          /\ \A r \in (q.items \cap q.rows) \ entry[q].provides : entry[q].shown[r] = Absent
          => entry[q].provides \cap Awaited(phase', owed) # {}
      BY <1>7, <1>8, <2>4
    <3> QED
      BY <1>5, <2>1, <2>2, <3>2, <3>3 DEF EntryFine, Provided
  <2> QED
    BY <2>3, <2>4
<1>9. Fine(entry, phase, owed)'
  BY <1>0, <1>1, <1>8 DEF Fine
<1>10. OneSource'
  <2>1. ASSUME NEW q \in scene.views, Unmissed(q, phase'), NEW r \in q.rows
        PROVE  stored'[q.source][r] = latest'[r]
    <3>1. stored[q.source][r] = latest[r] /\ r \in Rows /\ q.source \in Sources
      BY <1>0, <1>4, <2>1 DEF CacheFine, OneSource
    <3>2. CASE q.source = c.source
      BY <1>2, <1>4, <3>1, <3>2 DEF StoredOK
    <3>3. CASE q.source # c.source
      <4>1. ~Touches(c, q)
        BY <1>0, <2>1, <3>3 DEF Covers
      <4>2. stored'[q.source] = stored[q.source]
        BY <1>2, <1>4, <3>1, <3>3 DEF StoredOK
      <4> QED
        BY <1>6, <2>1, <3>1, <4>1, <4>2
    <3> QED
      BY <3>2, <3>3
  <2> QED
    BY <1>0, <1>1, <2>1 DEF OneSource
<1>11. Busy(entry, phase)'
  BY <1>1, <1>5 DEF Busy
<1> QED
  BY <1>9, <1>10, <1>11 DEF CacheFine

\* The end of a call: what it was going to invalidate is pending now.
LEMMA FineCallEnds ==
    ASSUME Typed, CacheFine, NEW c \in scene.calls, CallSucceeds(c) \/ CallFails(c)
    PROVE  CacheFine'
<1> DEFINE tags == owed \cup c.invalidates
<1>1. UNCHANGED <<scene, stored, latest>> /\ \A d \in scene.calls \ {c} : phase'[d] = phase[d]
  BY DEF CallSucceeds, CallFails, Typed, CallsOK
<1>0. /\ \A d \in scene.calls : phase[d] \in {"applied", "done", "lost"}
                                  => phase'[d] \in {"applied", "done", "lost"}
      /\ \A q : Unmissed(q, phase') => Unmissed(q, phase)
  <2>1. phase[c] \in {"applied", "done", "lost"} => phase'[c] \in {"applied", "done", "lost"}
    BY DEF CallSucceeds, CallFails, Typed, CallsOK
  <2>2. \A d \in scene.calls : phase[d] \in {"applied", "done", "lost"}
                                  => phase'[d] \in {"applied", "done", "lost"}
    BY <1>1, <2>1
  <2> QED
    BY <1>1, <2>2, MissedStays
<1>2. Awaited(phase, owed) \subseteq Awaited(phase', tags) /\ c.invalidates \subseteq Awaited(phase', tags)
  BY <1>1 DEF Awaited
<1>3. CASE CallSucceeds(c)
  <2>1. Fine(entry, phase', tags)
    <3> HIDE DEF tags
    <3>1. ASSUME NEW q \in scene.views, Unmissed(q, phase')
          PROVE  EntryFine(q, entry[q], phase', tags)
      <4>1. EntryFine(q, entry[q], phase, owed)
        BY <1>0, <3>1 DEF CacheFine, Fine
      <4> QED
        BY <1>2, <4>1, FineMonotone
    <3> QED
      BY <3>1 DEF Fine
  <2>2. RequestEnded(entry, phase', tags)
    BY <1>3 DEF CallSucceeds, Invalidation
  <2> HIDE DEF tags
  <2> QED
    BY <1>0, <1>1, <2>1, <2>2, FineEnds, OneSourceKept DEF CacheFine, Typed
<1>4. CASE CallFails(c)
  <2> DEFINE e == [q \in scene.views |-> Undone(c, q)]
  <2>1. RequestEnded(e, phase', tags)
    BY <1>4 DEF CallFails, Invalidation
  <2>2. Shaped(e) /\ \A q \in scene.views : e[q] = Undone(c, q)
    BY UndoneShape DEF Shaped
  <2>3. ASSUME NEW q \in scene.views, Unmissed(q, phase')
        PROVE  EntryFine(q, Undone(c, q), phase', tags)
    <3>1. entry[q] \in Shape(q) /\ EntryFine(q, entry[q], phase, owed)
      BY <1>0, <2>3 DEF Typed, Shaped, CacheFine, Fine
    <3>2. CASE q \in DOMAIN undo[c] /\ entry[q].loaded
      <4> DEFINE f == [r \in q.rows |-> IF r \in c.writes THEN undo[c][q][r] ELSE entry[q].shown[r]]
      <4>0. /\ undo[c][q] \in [q.rows -> Contents] /\ entry[q].shown \in [q.rows -> Contents]
            /\ Patches(c, q)
        BY <3>1, <3>2 DEF Typed, CallsOK, Shape
      <4>1. f \in [q.rows -> Contents] /\ Patches(c, q)
        BY <4>0
      <4>2. Undone(c, q) = [entry[q] EXCEPT !.shown = f]
        BY <3>2 DEF Undone
      <4>3. q.tags \cap Awaited(phase', tags) # {}
        BY <1>2, <4>1, PatchedTag
      <4> HIDE DEF f, tags
      <4> QED
        BY <1>2, <3>1, <4>1, <4>2, <4>3, FineOverwritten
    <3>3. CASE ~(q \in DOMAIN undo[c] /\ entry[q].loaded)
      <4>1. Undone(c, q) = entry[q]
        BY <3>3 DEF Undone
      <4> HIDE DEF tags
      <4> QED
        BY <1>2, <3>1, <4>1, FineMonotone
    <3> QED
      BY <3>2, <3>3
  <2> HIDE DEF e, tags
  <2>4. Fine(e, phase', tags)
    BY <2>2, <2>3 DEF Fine
  <2> QED
    BY <1>0, <1>1, <1>4, <2>1, <2>2, <2>4, FineEnds, OneSourceKept DEF CacheFine
<1> QED
  BY <1>3, <1>4

LEMMA FineStep == Typed /\ CacheFine /\ [Next]_vars => CacheFine'
<1> SUFFICES ASSUME Typed, CacheFine, [Next]_vars PROVE CacheFine'
  OBVIOUS
<1>1. CASE UNCHANGED vars
  <2>1. Fine(entry, phase, owed)' /\ OneSource'
    BY <1>1, FineNext, OneSourceKept DEF vars, CacheFine
  <2>2. Busy(entry, phase) => Busy(entry, phase)'
    BY <1>1 DEF vars, Busy
  <2> QED
    BY <1>1, <2>1, <2>2 DEF vars, CacheFine
<1>2. CASE Next
  BY <1>2, FineView, FineStart, FineServe, FineCallEnds DEF Next, QueryEnds, CallEnds
<1> QED
  BY <1>1, <1>2

(* Whatever the endpoints are, and in whatever order the answers, the         *)
(* optimistic patches, the undos and the invalidations come: once no request  *)
(* is under way, a view that was fetched without an error shows what was      *)
(* written last, or a call has changed rows of it that its tags miss.         *)
THEOREM CacheFreshWhenIdle == Spec => []FreshWhenIdle
<1>1. Spec => [](Typed /\ CacheFine)
  BY TypedInit, TypedStep, FineInit, FineStep, PTL DEF Spec
<1>2. Typed /\ CacheFine => FreshWhenIdle
  <2> SUFFICES ASSUME Typed, CacheFine, ~Busy(entry, phase),
                      NEW q \in scene.views, Good(q), Unmissed(q, phase)
               PROVE  Fresh(q)
    BY DEF FreshWhenIdle, Unmissed, Applied
  <2>1. entry[q].fetch = "none" /\ Awaited(phase, owed) = {}
    BY DEF Busy, Awaited, CacheFine, Typed, Shaped, Shape
  <2>2. EntryFine(q, entry[q], phase, owed)
    BY DEF CacheFine, Fine
  <2> QED
    BY <2>1, <2>2 DEF EntryFine, Good, Fresh, Holds
<1> QED
  BY <1>1, <1>2, PTL

-----------------------------------------------------------------------------
(* Refused values. Where a content comes from that the cache, an undo or a    *)
(* service holds, and that a view which shows what no service has accepted is *)
(* to be fetched again.                                                       *)

Served(p, c) == p[c] \in {"applied", "done", "lost"}

\* Another call that patched the view did not end well: its undo may have written
\* the content of the call back.
Overlapped(p, c, q) ==
    \E d \in scene.calls \ {c} : p[d] \in {"refused", "lost"} /\ Patches(d, q)

\* Why a view shows the content of a call in a row.
Explained(p, u, c, q, r) ==
    \/ Served(p, c)
    \/ p[c] = "sent" /\ q \in DOMAIN u[c] /\ r \in c.writes
    \/ p[c] # "idle" /\ Overlapped(p, c, q)

Origins ==
    /\ \A s \in Sources : \A r \in Rows : \A c \in scene.calls :
         stored[s][r] = Id(c) => Served(phase, c)
    /\ \A q \in scene.views : \A r \in q.rows : \A c \in scene.calls :
         /\ entry[q].answer[r] = Id(c) => Served(phase, c)
         /\ entry[q].shown[r] = Id(c) => Explained(phase, undo, c, q, r)
    /\ \A d \in scene.calls : \A q \in DOMAIN undo[d] : \A r \in q.rows : \A c \in scene.calls :
         undo[d][q][r] = Id(c) => c # d /\ phase[c] # "idle"

\* The view shows the content of a call that no service has accepted.
ShowsUnserved(q, x, p) ==
    \E r \in q.rows : \E c \in scene.calls : x.shown[r] = Id(c) /\ ~Served(p, c)

Reloads(q, x, p, tags) ==
    /\ x.loaded => q.tags \subseteq x.provides
    /\ ~x.loaded => \A r \in q.rows : x.shown[r] = Absent
    /\ ShowsUnserved(q, x, p) /\ ~x.failed /\ x.fetch = "none"
         => q.tags \cap Awaited(p, tags) # {}

Reloading(e, p, tags) == \A q \in scene.views : Reloads(q, e[q], p, tags)

RefusedInv == Origins /\ Reloading(entry, phase, owed)

LEMMA IdsDiffer ==
    ASSUME Typed
    PROVE  /\ \A c \in scene.calls : Id(c) # Absent /\ Id(c) # Seed
           /\ \A c, d \in scene.calls : Id(c) = Id(d) => c = d
BY ContentsDiffer DEF Typed

LEMMA WrittenIs ==
    ASSUME Typed, NEW c \in scene.calls, NEW d \in scene.calls, NEW r, Written(d, r) = Id(c)
    PROVE  d = c
BY IdsDiffer DEF Written

LEMMA EmptyIsBlank ==
    ASSUME NEW q, NEW r \in q.rows
    PROVE  Empty(q).shown[r] = Absent /\ Empty(q).answer[r] = Absent
BY DEF Empty

\* An entry that is invalidated shows what it did, or nothing.
LEMMA EndedEntry ==
    ASSUME NEW e, Shaped(e), UNCHANGED scene, NEW p, NEW tags, RequestEnded(e, p, tags),
           NEW q \in scene.views
    PROVE  \/ entry'[q] = Empty(q)
           \/ entry'[q].shown = e[q].shown /\ entry'[q].answer = e[q].answer
<1>1. CASE entry' = e
  BY <1>1
<1>2. CASE entry' = [y \in scene.views |-> Invalidated(y, e[y], tags)]
  <2>1. entry'[q] = Invalidated(q, e[q], tags) /\ e[q] \in Shape(q)
    BY <1>2 DEF Shaped
  <2> QED
    BY <2>1 DEF Invalidated, Shape
<1> QED
  BY <1>1, <1>2 DEF RequestEnded

\* The origins, of what they speak about.
LEMMA OriginsNext ==
    ASSUME UNCHANGED scene,
           \A s \in Sources : \A r \in Rows : \A c \in scene.calls :
             stored'[s][r] = Id(c) => Served(phase', c),
           \A q \in scene.views : \A r \in q.rows : \A c \in scene.calls :
             /\ entry'[q].answer[r] = Id(c) => Served(phase', c)
             /\ entry'[q].shown[r] = Id(c) => Explained(phase', undo', c, q, r),
           \A d \in scene.calls : \A q \in DOMAIN undo'[d] : \A r \in q.rows : \A c \in scene.calls :
             undo'[d][q][r] = Id(c) => c # d /\ phase'[c] # "idle"
    PROVE  Origins'
BY SceneStays DEF Origins, Served, Explained, Overlapped, Patches, Id

LEMMA OriginsInit == Init => Origins
<1> SUFFICES ASSUME Init PROVE Origins
  OBVIOUS
<1>1. Typed
  BY TypedInit
<1>2. \A s \in Sources : \A r \in Rows : stored[s][r] \in {Seed, Absent}
  BY DEF Init
<1>3. \A q \in scene.views : \A r \in q.rows : entry[q].shown[r] = Absent /\ entry[q].answer[r] = Absent
  BY EmptyIsBlank DEF Init
<1>4. \A c \in scene.calls : DOMAIN undo[c] = {}
  BY DEF Init, NoUndo
<1> QED
  BY <1>1, <1>2, <1>3, <1>4, IdsDiffer DEF Origins

\* A view takes what it holds from the service and from its own answer.
LEMMA ViewTakes ==
    ASSUME Typed, NEW q \in scene.views,
           Mount(q) \/ Unmount(q) \/ Evict(q) \/ Answer(q) \/ Arrive(q) \/ QueryFails(q)
    PROVE  \A y \in scene.views : \A r \in y.rows :
             /\ entry'[y].shown[r] \in {entry[y].shown[r], entry[y].answer[r], Absent}
             /\ entry'[y].answer[r] \in {entry[y].answer[r], stored[y.source][r], Absent}
<1>a. Shaped(entry) /\ entry[q] \in Shape(q)
  BY DEF Typed, Shaped
<1>b. UNCHANGED scene
  BY DEF Mount, Unmount, Evict, Answer, Arrive, QueryFails
<1>0. Shaped(entry) /\ entry[q] \in Shape(q) /\ UNCHANGED scene
  BY <1>a, <1>b
<1> SUFFICES ASSUME NEW y \in scene.views, NEW r \in y.rows
             PROVE  /\ entry'[y].shown[r] \in {entry[y].shown[r], entry[y].answer[r], Absent}
                    /\ entry'[y].answer[r] \in {entry[y].answer[r], stored[y.source][r], Absent}
  OBVIOUS
<1>1. CASE Mount(q) \/ Unmount(q)
  <2>1. PICK x : /\ entry' = [entry EXCEPT ![q] = x]
                 /\ x.shown = entry[q].shown /\ x.answer = entry[q].answer
    <3>1. CASE Mount(q) /\ (entry[q].loaded \/ entry[q].fetch # "none")
      <4> DEFINE x == [entry[q] EXCEPT !.mounted = TRUE]
      <4>1. entry' = [entry EXCEPT ![q] = x]
        BY <1>a, <3>1 DEF Mount, Shaped
      <4>2. x.shown = entry[q].shown /\ x.answer = entry[q].answer
        BY <1>a DEF Shape
      <4> HIDE DEF x
      <4> QED
        BY <4>1, <4>2
    <3>2. CASE Mount(q) /\ ~(entry[q].loaded \/ entry[q].fetch # "none")
      <4> DEFINE x == [entry[q] EXCEPT !.mounted = TRUE, !.fetch = "sent"]
      <4>1. entry' = [entry EXCEPT ![q] = x]
        BY <1>a, <3>2 DEF Mount, Shaped
      <4>2. x.shown = entry[q].shown /\ x.answer = entry[q].answer
        BY <1>a DEF Shape
      <4> HIDE DEF x
      <4> QED
        BY <4>1, <4>2
    <3>3. CASE Unmount(q)
      <4> DEFINE x == [entry[q] EXCEPT !.mounted = FALSE]
      <4>1. entry' = [entry EXCEPT ![q] = x]
        BY <1>a, <3>3 DEF Unmount, Shaped
      <4>2. x.shown = entry[q].shown /\ x.answer = entry[q].answer
        BY <1>a DEF Shape
      <4> HIDE DEF x
      <4> QED
        BY <4>1, <4>2
    <3> QED
      BY <1>1, <3>1, <3>2, <3>3
  <2> QED
    BY <1>a, <2>1 DEF Shaped
<1>2. CASE Evict(q)
  BY <1>0, <1>2, EmptyIsBlank DEF Evict, Shaped
<1>3. CASE Answer(q)
  <2> DEFINE f == [r0 \in q.rows |-> stored[q.source][r0]]
             x == [entry[q] EXCEPT !.fetch = "answered", !.answer = f]
  <2>1. entry' = [entry EXCEPT ![q] = x]
    BY <1>a, <1>3 DEF Answer, Shaped
  <2>2. x.shown = entry[q].shown /\ x.answer = f
    BY <1>a DEF Shape
  <2>3. f[r] = stored[q.source][r] \/ y # q
    OBVIOUS
  <2> HIDE DEF x, f
  <2> QED
    BY <1>a, <2>1, <2>2, <2>3 DEF Shaped
<1>4. CASE Arrive(q)
  <2> DEFINE x == Arrived(q, entry[q])
             e == [entry EXCEPT ![q] = x]
  <2>1. x \in Shape(q) /\ x.shown = entry[q].answer /\ x.answer = entry[q].answer
    BY <1>0, ArrivedShape
  <2>2. RequestEnded(e, phase, owed)
    BY <1>4 DEF Arrive, Arrived
  <2> HIDE DEF x
  <2>3. Shaped(e) /\ e[q] = x /\ \A v \in scene.views \ {q} : e[v] = entry[v]
    BY <1>0, <2>1 DEF Shaped
  <2> HIDE DEF e
  <2> QED
    BY <1>0, <2>1, <2>2, <2>3, EndedEntry, EmptyIsBlank
<1>5. CASE QueryFails(q)
  <2> DEFINE x == [entry[q] EXCEPT !.fetch = "none", !.failed = TRUE, !.provides = q.tags]
             e == [entry EXCEPT ![q] = x]
  <2>1. x \in Shape(q) /\ x.shown = entry[q].shown /\ x.answer = entry[q].answer
    BY <1>0 DEF Shape
  <2>2. RequestEnded(e, phase, owed)
    BY <1>5 DEF QueryFails
  <2> HIDE DEF x
  <2>3. Shaped(e) /\ e[q] = x /\ \A v \in scene.views \ {q} : e[v] = entry[v]
    BY <1>0, <2>1 DEF Shaped
  <2> HIDE DEF e
  <2> QED
    BY <1>0, <2>1, <2>2, <2>3, EndedEntry, EmptyIsBlank
<1> QED
  BY <1>1, <1>2, <1>3, <1>4, <1>5

LEMMA OriginsView ==
    ASSUME Typed, Origins, NEW q \in scene.views,
           Mount(q) \/ Unmount(q) \/ Evict(q) \/ Answer(q) \/ Arrive(q) \/ QueryFails(q)
    PROVE  Origins'
<1>1. UNCHANGED <<scene, phase, undo, stored>>
  BY DEF Mount, Unmount, Evict, Answer, Arrive, QueryFails
<1>2. \A y \in scene.views : y.source \in Sources /\ y.rows \subseteq Rows
  BY KnownSources, RowsOfAll DEF Typed
<1>3. ASSUME NEW y \in scene.views, NEW r \in y.rows, NEW c \in scene.calls
      PROVE  /\ entry'[y].answer[r] = Id(c) => Served(phase, c)
             /\ entry'[y].shown[r] = Id(c) => Explained(phase, undo, c, y, r)
  <2>1. Id(c) # Absent
    BY IdsDiffer
  <2>2. /\ entry'[y].shown[r] \in {entry[y].shown[r], entry[y].answer[r], Absent}
        /\ entry'[y].answer[r] \in {entry[y].answer[r], stored[y.source][r], Absent}
    BY ViewTakes
  <2>3. /\ entry[y].answer[r] = Id(c) => Served(phase, c)
        /\ entry[y].shown[r] = Id(c) => Explained(phase, undo, c, y, r)
        /\ stored[y.source][r] = Id(c) => Served(phase, c)
    BY <1>2 DEF Origins
  <2> QED
    BY <2>1, <2>2, <2>3 DEF Explained
<1> QED
  BY <1>1, <1>3, OriginsNext DEF Origins

LEMMA OriginsStart ==
    ASSUME Typed, Origins, NEW c \in scene.calls, StartCall(c)
    PROVE  Origins'
<1>1. /\ phase[c] = "idle" /\ UNCHANGED <<scene, stored>>
      /\ \A d \in scene.calls : phase'[d] = IF d = c THEN "sent" ELSE phase[d]
      /\ \A d \in scene.calls \ {c} : undo'[d] = undo[d]
      /\ undo'[c] = [q \in PatchedViews(c) |-> entry[q].shown]
  BY DEF StartCall, Typed, CallsOK
<1>2. \A d \in scene.calls : Served(phase, d) => Served(phase', d)
  BY <1>1 DEF Served
<1>3. \A d \in scene.calls : \A q : Overlapped(phase, d, q) => Overlapped(phase', d, q)
  BY <1>1 DEF Overlapped
<1>4. ASSUME NEW d \in scene.calls, NEW q \in scene.views, NEW r \in q.rows,
             Explained(phase, undo, d, q, r)
      PROVE  d # c /\ Explained(phase', undo', d, q, r)
  <2>1. d # c
    BY <1>1, <1>4 DEF Explained, Served
  <2> QED
    BY <1>1, <1>2, <1>3, <1>4, <2>1 DEF Explained
<1>5. ASSUME NEW q \in scene.views, NEW r \in q.rows, NEW d \in scene.calls
      PROVE  /\ entry'[q].answer[r] = Id(d) => Served(phase', d)
             /\ entry'[q].shown[r] = Id(d) => Explained(phase', undo', d, q, r)
  <2>0. entry[q] \in Shape(q)
    BY DEF Typed, Shaped
  <2>1. entry'[q] = IF q \in PatchedViews(c) THEN Patched(c, q, entry[q]) ELSE entry[q]
    BY DEF StartCall
  <2>2. /\ entry'[q].answer = entry[q].answer
        /\ entry'[q].shown[r] = IF q \in PatchedViews(c) /\ r \in c.writes THEN Written(c, r)
                                ELSE entry[q].shown[r]
    BY <2>0, <2>1 DEF Patched, Shape
  <2>3. CASE q \in PatchedViews(c) /\ r \in c.writes
    <3>1. entry'[q].shown[r] = Id(d) => d = c
      BY <2>2, <2>3, WrittenIs
    <3>2. Explained(phase', undo', c, q, r)
      BY <1>1, <2>3 DEF Explained
    <3> QED
      BY <1>2, <2>2, <3>1, <3>2 DEF Origins
  <2>4. CASE ~(q \in PatchedViews(c) /\ r \in c.writes)
    BY <1>2, <1>4, <2>2, <2>4 DEF Origins
  <2> QED
    BY <2>3, <2>4
<1>6. ASSUME NEW d \in scene.calls, NEW q \in DOMAIN undo'[d], NEW r \in q.rows,
             NEW b \in scene.calls, undo'[d][q][r] = Id(b)
      PROVE  b # d /\ phase'[b] # "idle"
  <2>1. CASE d # c
    BY <1>1, <1>6, <2>1 DEF Origins
  <2>2. CASE d = c
    <3>1. q \in scene.views /\ entry[q].shown[r] = Id(b)
      BY <1>1, <1>6, <2>2 DEF PatchedViews
    <3>2. Explained(phase, undo, b, q, r)
      BY <3>1 DEF Origins
    <3>3. b # c /\ phase[b] # "idle"
      BY <1>4, <3>1, <3>2 DEF Explained, Served
    <3> QED
      BY <1>1, <2>2, <3>3
  <2> QED
    BY <2>1, <2>2
<1>7. \A s \in Sources : \A r \in Rows : \A d \in scene.calls :
        stored'[s][r] = Id(d) => Served(phase', d)
  BY <1>1, <1>2 DEF Origins
<1> QED
  BY <1>1, <1>5, <1>6, <1>7, OriginsNext

LEMMA OriginsServe ==
    ASSUME Typed, Origins, NEW c \in scene.calls, Serve(c)
    PROVE  Origins'
<1>1. /\ UNCHANGED <<scene, entry, undo>> /\ phase[c] = "sent"
      /\ \A d \in scene.calls : phase'[d] = IF d = c THEN "applied" ELSE phase[d]
  BY DEF Serve, Typed, CallsOK
<1>2. /\ \A d \in scene.calls : Served(phase, d) => Served(phase', d)
      /\ Served(phase', c)
      /\ \A d \in scene.calls : phase[d] # "idle" => phase'[d] # "idle"
  BY <1>1 DEF Served
<1>3. \A d \in scene.calls : \A q : Overlapped(phase, d, q) => Overlapped(phase', d, q)
  BY <1>1 DEF Overlapped
<1>4. ASSUME NEW d \in scene.calls, NEW q, NEW r, Explained(phase, undo, d, q, r)
      PROVE  Explained(phase', undo', d, q, r)
  BY <1>1, <1>2, <1>3, <1>4 DEF Explained
<1>5. PICK rows \in WhatIsDone(c) :
        stored' = [stored EXCEPT ![c.source] = [r \in Rows |-> IF r \in rows THEN Written(c, r) ELSE @[r]]]
  BY DEF Serve
<1>6. ASSUME NEW s \in Sources, NEW r \in Rows, NEW d \in scene.calls, stored'[s][r] = Id(d)
      PROVE  Served(phase', d)
  <2>1. stored'[s][r] = stored[s][r] \/ stored'[s][r] = Written(c, r)
    BY <1>5 DEF Typed, StoredOK
  <2>2. CASE stored'[s][r] = stored[s][r]
    BY <1>2, <1>6, <2>2 DEF Origins
  <2>3. CASE stored'[s][r] = Written(c, r)
    BY <1>2, <1>6, <2>3, WrittenIs
  <2> QED
    BY <2>1, <2>2, <2>3
<1> QED
  BY <1>1, <1>2, <1>4, <1>6, OriginsNext DEF Origins

\* The end of a call: what the entries show, and the tags that are invalidated.
LEMMA OriginsEnded ==
    ASSUME Typed, Origins, UNCHANGED <<scene, stored>>,
           NEW c \in scene.calls, NEW e, Shaped(e), NEW tags, RequestEnded(e, phase', tags),
           \A d \in scene.calls : Served(phase, d) => Served(phase', d),
           \A d \in scene.calls : phase[d] # "idle" => phase'[d] # "idle",
           \A d \in scene.calls \ {c} : undo'[d] = undo[d],
           DOMAIN undo'[c] = {},
           \A q \in scene.views : \A r \in q.rows : \A d \in scene.calls :
             /\ e[q].answer[r] = Id(d) => Served(phase', d)
             /\ e[q].shown[r] = Id(d) => Explained(phase', undo', d, q, r)
    PROVE  Origins'
<1>1. ASSUME NEW q \in scene.views, NEW r \in q.rows, NEW d \in scene.calls
      PROVE  /\ entry'[q].answer[r] = Id(d) => Served(phase', d)
             /\ entry'[q].shown[r] = Id(d) => Explained(phase', undo', d, q, r)
  <2>1. CASE entry'[q] = Empty(q)
    BY <2>1, IdsDiffer, EmptyIsBlank
  <2>2. CASE entry'[q].shown = e[q].shown /\ entry'[q].answer = e[q].answer
    BY <2>2
  <2> QED
    BY <2>1, <2>2, EndedEntry
<1>2. ASSUME NEW d \in scene.calls, NEW q \in DOMAIN undo'[d], NEW r \in q.rows,
             NEW b \in scene.calls, undo'[d][q][r] = Id(b)
      PROVE  b # d /\ phase'[b] # "idle"
  <2>1. d # c /\ undo'[d] = undo[d]
    BY <1>2
  <2> QED
    BY <1>2, <2>1 DEF Origins
<1>3. \A s \in Sources : \A r \in Rows : \A d \in scene.calls :
        stored'[s][r] = Id(d) => Served(phase', d)
  BY DEF Origins
<1> QED
  BY <1>1, <1>2, <1>3, OriginsNext

LEMMA OriginsSucceeds ==
    ASSUME Typed, Origins, NEW c \in scene.calls, CallSucceeds(c)
    PROVE  Origins'
<1>1. /\ UNCHANGED <<scene, stored>>
      /\ \A d \in scene.calls \ {c} : phase'[d] = phase[d] /\ undo'[d] = undo[d]
      /\ DOMAIN undo'[c] = {} /\ phase[c] = "applied" /\ phase'[c] = "done"
      /\ RequestEnded(entry, phase', owed \cup Invalidation(c, "done")) /\ Shaped(entry)
  BY DEF CallSucceeds, Typed, CallsOK, NoUndo
<1>2. /\ \A d \in scene.calls : Served(phase, d) => Served(phase', d)
      /\ \A d \in scene.calls : phase[d] # "idle" => phase'[d] # "idle"
      /\ \A d \in scene.calls : \A q : Overlapped(phase, d, q) => Overlapped(phase', d, q)
  BY <1>1 DEF Served, Overlapped
<1>3. ASSUME NEW q \in scene.views, NEW r \in q.rows, NEW d \in scene.calls,
             Explained(phase, undo, d, q, r)
      PROVE  Explained(phase', undo', d, q, r)
  BY <1>1, <1>2, <1>3 DEF Explained
<1>4. \A q \in scene.views : \A r \in q.rows : \A d \in scene.calls :
        /\ entry[q].answer[r] = Id(d) => Served(phase', d)
        /\ entry[q].shown[r] = Id(d) => Explained(phase', undo', d, q, r)
  BY <1>2, <1>3 DEF Origins
<1> QED
  BY <1>1, <1>2, <1>4, OriginsEnded

\* A refused call takes its content back where it patched it, and writes back what
\* it had overwritten.
LEMMA OriginsFails ==
    ASSUME Typed, RefusedInv, NEW c \in scene.calls, CallFails(c)
    PROVE  Origins'
<1> DEFINE e == [q \in scene.views |-> Undone(c, q)]
           tags == owed \cup Invalidation(c, "failed")
<1>0. Origins /\ CallsOK /\ \A q \in scene.views : entry[q] \in Shape(q)
  BY DEF RefusedInv, Typed, Shaped
<1>1. /\ UNCHANGED <<scene, stored>>
      /\ \A d \in scene.calls \ {c} : phase'[d] = phase[d] /\ undo'[d] = undo[d]
      /\ DOMAIN undo'[c] = {} /\ phase[c] \in {"sent", "applied"}
      /\ phase'[c] = IF phase[c] = "applied" THEN "lost" ELSE "refused"
      /\ RequestEnded(e, phase', tags)
  BY <1>0 DEF CallFails, CallsOK, NoUndo
<1>2. Shaped(e) /\ \A q \in scene.views : e[q] = Undone(c, q)
  BY UndoneShape DEF Shaped
<1> HIDE DEF e, tags
<1>3. /\ \A d \in scene.calls : Served(phase, d) => Served(phase', d)
      /\ \A d \in scene.calls : phase[d] # "idle" => phase'[d] # "idle"
      /\ \A d \in scene.calls : \A q : Overlapped(phase, d, q) => Overlapped(phase', d, q)
  BY <1>1 DEF Served, Overlapped
<1>4. ASSUME NEW q \in scene.views, NEW r \in q.rows, NEW d \in scene.calls
      PROVE  /\ e[q].answer[r] = Id(d) => Served(phase', d)
             /\ e[q].shown[r] = Id(d) => Explained(phase', undo', d, q, r)
  <2>1. /\ e[q].answer = entry[q].answer
        /\ e[q].shown[r] = IF q \in DOMAIN undo[c] /\ entry[q].loaded /\ r \in c.writes
                             THEN undo[c][q][r] ELSE entry[q].shown[r]
    <3>1. CASE q \in DOMAIN undo[c] /\ entry[q].loaded
      <4> DEFINE f == [x \in q.rows |-> IF x \in c.writes THEN undo[c][q][x]
                                        ELSE entry[q].shown[x]]
      <4>1. e[q] = [entry[q] EXCEPT !.shown = f]
        BY <1>2, <3>1 DEF Undone
      <4>2. f[r] = IF r \in c.writes THEN undo[c][q][r] ELSE entry[q].shown[r]
        OBVIOUS
      <4> HIDE DEF f
      <4>3. e[q].answer = entry[q].answer /\ e[q].shown = f
        BY <1>0, <4>1 DEF Shape
      <4> QED
        BY <3>1, <4>2, <4>3
    <3>2. CASE ~(q \in DOMAIN undo[c] /\ entry[q].loaded)
      <4>1. e[q] = entry[q]
        BY <1>2, <3>2 DEF Undone
      <4> QED
        BY <3>2, <4>1
    <3> QED
      BY <3>1, <3>2
  <2>2. e[q].answer[r] = Id(d) => Served(phase', d)
    BY <1>0, <1>3, <2>1 DEF Origins
  <2>3. ASSUME e[q].shown[r] = Id(d) PROVE Explained(phase', undo', d, q, r)
    <3>1. CASE q \in DOMAIN undo[c] /\ entry[q].loaded /\ r \in c.writes
      <4>0. undo[c][q][r] = Id(d)
        BY <2>1, <2>3, <3>1
      <4>1. d # c /\ phase[d] # "idle" /\ Patches(c, q)
        <5>1. Patches(c, q)
          BY <1>0, <3>1 DEF CallsOK
        <5>2. d # c /\ phase[d] # "idle"
          BY <1>0, <3>1, <4>0 DEF Origins
        <5> QED
          BY <5>1, <5>2
      <4>2. Overlapped(phase', d, q)
        BY <1>1, <4>1 DEF Overlapped
      <4> QED
        BY <1>3, <4>1, <4>2 DEF Explained
    <3>2. CASE ~(q \in DOMAIN undo[c] /\ entry[q].loaded /\ r \in c.writes)
      <4>1. entry[q].shown[r] = Id(d) /\ Explained(phase, undo, d, q, r)
        BY <1>0, <2>1, <2>3, <3>2 DEF Origins
      <4>2. entry[q].loaded
        BY <4>1, IdsDiffer DEF RefusedInv, Reloading, Reloads
      <4>3. ~(d = c /\ q \in DOMAIN undo[c] /\ r \in c.writes)
        BY <3>2, <4>2
      <4>4. CASE Served(phase, d) \/ (phase[d] # "idle" /\ Overlapped(phase, d, q))
        BY <1>3, <4>4 DEF Explained
      <4>5. CASE phase[d] = "sent" /\ q \in DOMAIN undo[d] /\ r \in d.writes
        BY <1>1, <4>3, <4>5 DEF Explained
      <4> QED
        BY <4>1, <4>4, <4>5 DEF Explained
    <3> QED
      BY <3>1, <3>2
  <2> QED
    BY <2>2, <2>3
<1> QED
  BY <1>0, <1>1, <1>2, <1>3, <1>4, OriginsEnded

-----------------------------------------------------------------------------
(* That a view which shows a value no service has accepted is fetched again.  *)

LEMMA ReloadsMonotone ==
    ASSUME NEW q, NEW x, NEW p, NEW tags, NEW p2, NEW tags2,
           Reloads(q, x, p, tags), Awaited(p, tags) \subseteq Awaited(p2, tags2),
           \A c \in scene.calls : Served(p, c) => Served(p2, c)
    PROVE  Reloads(q, x, p2, tags2)
BY DEF Reloads, ShowsUnserved

LEMMA ReloadingNext ==
    ASSUME UNCHANGED scene, NEW e, NEW p, NEW tags,
           entry' = e, phase' = p, owed' = tags, Reloading(e, p, tags)
    PROVE  Reloading(entry, phase, owed)'
BY DEF Reloading, Reloads, ShowsUnserved, Served, Awaited, Id

LEMMA ReloadingEmpty ==
    ASSUME Typed, NEW q, NEW p, NEW tags
    PROVE  Reloads(q, Empty(q), p, tags)
<1>1. ~Empty(q).loaded /\ \A r \in q.rows : Empty(q).shown[r] = Absent
  BY EmptyFields, EmptyIsBlank
<1> QED
  BY <1>1, IdsDiffer DEF Reloads, ShowsUnserved

LEMMA ReloadingEnds ==
    ASSUME Typed, NEW e, Shaped(e), NEW p, NEW tags, UNCHANGED scene, phase' = p,
           RequestEnded(e, p, tags), Reloading(e, p, tags)
    PROVE  Reloading(entry, phase, owed)'
<1>1. CASE entry' = e /\ owed' = tags
  BY <1>1, ReloadingNext
<1>2. CASE ~Busy(e, p) /\ owed' = {} /\ entry' = [q \in scene.views |-> Invalidated(q, e[q], tags)]
  <2>1. Awaited(p, tags) = tags
    BY <1>2 DEF Awaited, Busy
  <2>2. ASSUME NEW q \in scene.views PROVE Reloads(q, Invalidated(q, e[q], tags), p, {})
    <3>1. e[q] \in Shape(q) /\ e[q].fetch = "none" /\ Reloads(q, e[q], p, tags)
      BY <1>2 DEF Shaped, Busy, Reloading
    <3>2. CASE e[q].provides \cap tags = {}
      <4>1. Invalidated(q, e[q], tags) = e[q]
        BY <3>2 DEF Invalidated
      <4>2. e[q].loaded => q.tags \cap tags = {}
        BY <3>1, <3>2 DEF Reloads
      <4>3. ShowsUnserved(q, e[q], p) => e[q].loaded
        BY <3>1, IdsDiffer DEF Reloads, ShowsUnserved
      <4> QED
        BY <2>1, <3>1, <4>1, <4>2, <4>3 DEF Reloads
    <3>3. CASE e[q].provides \cap tags # {} /\ e[q].mounted
      <4> DEFINE x == [e[q] EXCEPT !.fetch = "sent"]
      <4>1. /\ x.fetch = "sent" /\ x.loaded = e[q].loaded /\ x.shown = e[q].shown
            /\ x.provides = e[q].provides
        BY <3>1 DEF Shape
      <4>2. Invalidated(q, e[q], tags) = x
        BY <3>3 DEF Invalidated
      <4> HIDE DEF x
      <4> QED
        BY <3>1, <4>1, <4>2 DEF Reloads
    <3>4. CASE e[q].provides \cap tags # {} /\ ~e[q].mounted
      BY <3>4, ReloadingEmpty DEF Invalidated
    <3> QED
      BY <3>2, <3>3, <3>4
  <2>3. \A q \in scene.views : entry'[q] = Invalidated(q, e[q], tags)
    BY <1>2
  <2>4. Reloading(entry', p, {})
    BY <2>2, <2>3 DEF Reloading
  <2> QED
    BY <1>2, <2>4, ReloadingNext
<1> QED
  BY <1>1, <1>2 DEF RequestEnded

\* A step that changes one entry only, and neither calls nor tags.
LEMMA ReloadingOne ==
    ASSUME Typed, Reloading(entry, phase, owed), NEW q \in scene.views, NEW x \in Shape(q),
           entry' = [entry EXCEPT ![q] = x], UNCHANGED <<scene, phase, owed>>,
           Reloads(q, x, phase, owed)
    PROVE  Reloading(entry, phase, owed)'
<1>1. entry'[q] = x /\ \A y \in scene.views \ {q} : entry'[y] = entry[y]
  BY OneEntry DEF Typed
<1>2. Reloading(entry', phase, owed)
  BY <1>1 DEF Reloading
<1> QED
  BY <1>2, ReloadingNext

\* The fields that Reloads looks at.
LEMMA ReloadsSame ==
    ASSUME NEW q, NEW x, NEW y, NEW p, NEW tags, Reloads(q, x, p, tags),
           y.loaded = x.loaded, y.shown = x.shown, y.provides = x.provides,
           y.fetch # "none" \/ (y.fetch = x.fetch /\ y.failed = x.failed)
    PROVE  Reloads(q, y, p, tags)
BY DEF Reloads, ShowsUnserved

LEMMA ReloadingView ==
    ASSUME Typed, RefusedInv, NEW q \in scene.views,
           Mount(q) \/ Unmount(q) \/ Evict(q) \/ Answer(q) \/ Arrive(q) \/ QueryFails(q)
    PROVE  Reloading(entry, phase, owed)'
<1>a. UNCHANGED <<scene, phase>>
  BY DEF Mount, Unmount, Evict, Answer, Arrive, QueryFails
<1>0. /\ entry[q] \in Shape(q) /\ Shaped(entry) /\ Reloading(entry, phase, owed)
      /\ Reloads(q, entry[q], phase, owed) /\ UNCHANGED <<scene, phase>>
  BY <1>a DEF Typed, Shaped, RefusedInv, Reloading
<1>1. CASE Mount(q) \/ Unmount(q) \/ Answer(q)
  <2>1. PICK x : /\ entry' = [entry EXCEPT ![q] = x]
                 /\ x \in Shape(q)
                 /\ x.loaded = entry[q].loaded /\ x.shown = entry[q].shown
                 /\ x.provides = entry[q].provides
                 /\ x.fetch # "none" \/ (x.fetch = entry[q].fetch /\ x.failed = entry[q].failed)
    <3>1. CASE Mount(q) /\ (entry[q].loaded \/ entry[q].fetch # "none")
      <4> DEFINE x == [entry[q] EXCEPT !.mounted = TRUE]
      <4>1. entry' = [entry EXCEPT ![q] = x]
        BY <1>0, <3>1 DEF Mount, Shaped
      <4>2. x \in Shape(q) /\ x.fetch = entry[q].fetch /\ x.failed = entry[q].failed
            /\ x.loaded = entry[q].loaded /\ x.shown = entry[q].shown
            /\ x.provides = entry[q].provides
        BY <1>0 DEF Shape
      <4> HIDE DEF x
      <4> QED
        BY <4>1, <4>2
    <3>2. CASE Mount(q) /\ ~(entry[q].loaded \/ entry[q].fetch # "none")
      <4> DEFINE x == [entry[q] EXCEPT !.mounted = TRUE, !.fetch = "sent"]
      <4>1. entry' = [entry EXCEPT ![q] = x]
        BY <1>0, <3>2 DEF Mount, Shaped
      <4>2. x \in Shape(q) /\ x.fetch = "sent" /\ x.loaded = entry[q].loaded
            /\ x.shown = entry[q].shown /\ x.provides = entry[q].provides
        BY <1>0 DEF Shape
      <4> HIDE DEF x
      <4> QED
        BY <4>1, <4>2
    <3>3. CASE Unmount(q)
      <4> DEFINE x == [entry[q] EXCEPT !.mounted = FALSE]
      <4>1. entry' = [entry EXCEPT ![q] = x]
        BY <1>0, <3>3 DEF Unmount, Shaped
      <4>2. x \in Shape(q) /\ x.fetch = entry[q].fetch /\ x.failed = entry[q].failed
            /\ x.loaded = entry[q].loaded /\ x.shown = entry[q].shown
            /\ x.provides = entry[q].provides
        BY <1>0 DEF Shape
      <4> HIDE DEF x
      <4> QED
        BY <4>1, <4>2
    <3>4. CASE Answer(q)
      <4> DEFINE f == [r \in q.rows |-> stored[q.source][r]]
                 x == [entry[q] EXCEPT !.fetch = "answered", !.answer = f]
      <4>1. entry' = [entry EXCEPT ![q] = x]
        BY <1>0, <3>4 DEF Answer, Shaped
      <4>2. q.source \in Sources /\ q.rows \subseteq Rows
        BY KnownSources, RowsOfAll DEF Typed
      <4>3. f \in [q.rows -> Contents]
        BY <4>2 DEF Typed, StoredOK
      <4> HIDE DEF f
      <4>4. x \in Shape(q) /\ x.fetch = "answered" /\ x.loaded = entry[q].loaded
            /\ x.shown = entry[q].shown /\ x.provides = entry[q].provides
        BY <1>0, <4>3 DEF Shape
      <4> HIDE DEF x
      <4> QED
        BY <4>1, <4>4
    <3> QED
      BY <1>1, <3>1, <3>2, <3>3, <3>4
  <2>2. Reloads(q, x, phase, owed)
    BY <1>0, <2>1, ReloadsSame
  <2>3. UNCHANGED owed
    BY <1>1 DEF Mount, Unmount, Answer
  <2> QED
    BY <1>0, <2>1, <2>2, <2>3, ReloadingOne
<1>2. CASE Evict(q)
  BY <1>0, <1>2, EmptyShape, ReloadingEmpty, ReloadingOne DEF Evict
<1>3. CASE Arrive(q)
  <2> DEFINE x == Arrived(q, entry[q])
             e == [entry EXCEPT ![q] = x]
  <2>1. /\ x \in Shape(q) /\ x.loaded /\ x.shown = entry[q].answer
        /\ x.provides = Provided(q, entry[q].answer)
    BY <1>0, ArrivedShape
  <2>2. RequestEnded(e, phase, owed)
    BY <1>3 DEF Arrive, Arrived
  <2> HIDE DEF x
  <2>3. ~ShowsUnserved(q, x, phase)
    BY <2>1 DEF ShowsUnserved, RefusedInv, Origins
  <2>4. Reloads(q, x, phase, owed)
    BY <2>1, <2>3 DEF Reloads, Provided
  <2>5. Shaped(e) /\ e[q] = x /\ \A y \in scene.views \ {q} : e[y] = entry[y]
    BY <1>0, <2>1 DEF Shaped
  <2> HIDE DEF e
  <2>6. Reloading(e, phase, owed)
    BY <1>0, <2>4, <2>5 DEF Reloading
  <2> QED
    BY <1>0, <2>2, <2>5, <2>6, ReloadingEnds
<1>4. CASE QueryFails(q)
  <2> DEFINE x == [entry[q] EXCEPT !.fetch = "none", !.failed = TRUE, !.provides = q.tags]
             e == [entry EXCEPT ![q] = x]
  <2>1. /\ x \in Shape(q) /\ x.failed /\ x.loaded = entry[q].loaded
        /\ x.shown = entry[q].shown /\ x.provides = q.tags
    BY <1>0 DEF Shape
  <2>2. RequestEnded(e, phase, owed)
    BY <1>4 DEF QueryFails
  <2> HIDE DEF x
  <2>3. Reloads(q, x, phase, owed)
    BY <1>0, <2>1 DEF Reloads
  <2>4. Shaped(e) /\ e[q] = x /\ \A y \in scene.views \ {q} : e[y] = entry[y]
    BY <1>0, <2>1 DEF Shaped
  <2> HIDE DEF e
  <2>5. Reloading(e, phase, owed)
    BY <1>0, <2>3, <2>4 DEF Reloading
  <2> QED
    BY <1>0, <2>2, <2>4, <2>5, ReloadingEnds
<1> QED
  BY <1>1, <1>2, <1>3, <1>4

\* An overwritten entry, one of whose own tags is awaited.
LEMMA ReloadsOverwritten ==
    ASSUME NEW q, NEW x \in Shape(q), NEW f \in [q.rows -> Contents], NEW p, NEW tags,
           Reloads(q, x, p, tags), x.loaded, NEW p2, NEW tags2,
           q.tags \cap Awaited(p2, tags2) # {}
    PROVE  Reloads(q, [x EXCEPT !.shown = f], p2, tags2)
<1> DEFINE y == [x EXCEPT !.shown = f]
<1>1. y.loaded = x.loaded /\ y.provides = x.provides
  BY DEF Shape
<1> HIDE DEF y
<1>2. Reloads(q, y, p2, tags2)
  BY <1>1 DEF Reloads
<1> QED
  BY <1>2 DEF y

LEMMA ReloadingStart ==
    ASSUME Typed, RefusedInv, NEW c \in scene.calls, StartCall(c)
    PROVE  Reloading(entry, phase, owed)'
<1>1. /\ phase' = [phase EXCEPT ![c] = "sent"] /\ phase[c] = "idle"
      /\ UNCHANGED <<scene, owed>>
      /\ \A q \in scene.views : entry'[q] = IF q \in PatchedViews(c) THEN Patched(c, q, entry[q])
                                            ELSE entry[q]
  BY DEF StartCall
<1>2. \A d \in scene.calls : phase'[d] = IF d = c THEN "sent" ELSE phase[d]
  BY <1>1 DEF Typed, CallsOK
<1>3. /\ Awaited(phase, owed) \cup c.invalidates \subseteq Awaited(phase', owed)
      /\ \A d \in scene.calls : Served(phase, d) => Served(phase', d)
  BY <1>1, <1>2 DEF Awaited, Served
<1>4. ASSUME NEW q \in scene.views PROVE Reloads(q, entry'[q], phase', owed)
  <2>1. entry[q] \in Shape(q) /\ Reloads(q, entry[q], phase, owed)
    BY DEF Typed, Shaped, RefusedInv, Reloading
  <2>2. CASE q \in PatchedViews(c)
    <3> DEFINE f == [r \in q.rows |-> IF r \in c.writes THEN Written(c, r) ELSE entry[q].shown[r]]
    <3>1. f \in [q.rows -> Contents]
      BY <2>1, WrittenType DEF Shape
    <3>2. entry'[q] = [entry[q] EXCEPT !.shown = f]
      BY <1>1, <2>2 DEF Patched
    <3>3. c.invalidates \cap q.tags # {} /\ entry[q].loaded
      BY <2>2, PatchedTag DEF PatchedViews
    <3>4. q.tags \cap Awaited(phase', owed) # {}
      BY <1>3, <3>3
    <3> HIDE DEF f
    <3> QED
      BY <2>1, <3>1, <3>2, <3>3, <3>4, ReloadsOverwritten
  <2>3. CASE q \notin PatchedViews(c)
    BY <1>1, <1>3, <2>1, <2>3, ReloadsMonotone
  <2> QED
    BY <2>2, <2>3
<1>5. Reloading(entry', phase', owed)
  BY <1>4 DEF Reloading
<1> QED
  BY <1>1, <1>5, ReloadingNext

LEMMA ReloadingServe ==
    ASSUME Typed, RefusedInv, NEW c \in scene.calls, Serve(c)
    PROVE  Reloading(entry, phase, owed)'
<1>1. /\ UNCHANGED <<scene, entry, owed>> /\ phase[c] = "sent"
      /\ \A d \in scene.calls : phase'[d] = IF d = c THEN "applied" ELSE phase[d]
  BY DEF Serve, Typed, CallsOK
<1>2. {d \in scene.calls : phase'[d] \in {"sent", "applied"}}
        = {d \in scene.calls : phase[d] \in {"sent", "applied"}}
  BY <1>1
<1>3. /\ Awaited(phase', owed) = Awaited(phase, owed)
      /\ \A d \in scene.calls : Served(phase, d) => Served(phase', d)
  BY <1>1, <1>2 DEF Awaited, Served
<1>4. Reloading(entry, phase', owed)
  BY <1>3, ReloadsMonotone DEF RefusedInv, Reloading
<1> QED
  BY <1>1, <1>4, ReloadingNext

LEMMA ReloadingCallEnds ==
    ASSUME Typed, RefusedInv, NEW c \in scene.calls, CallSucceeds(c) \/ CallFails(c)
    PROVE  Reloading(entry, phase, owed)'
<1> DEFINE tags == owed \cup c.invalidates
<1>1. /\ UNCHANGED scene
      /\ \A d \in scene.calls \ {c} : phase'[d] = phase[d]
      /\ Served(phase, c) => Served(phase', c)
  BY DEF CallSucceeds, CallFails, Typed, CallsOK, Served
<1>2. /\ Awaited(phase, owed) \subseteq Awaited(phase', tags)
      /\ c.invalidates \subseteq Awaited(phase', tags)
      /\ \A d \in scene.calls : Served(phase, d) => Served(phase', d)
  BY <1>1 DEF Awaited, Served
<1>3. \A q \in scene.views : entry[q] \in Shape(q) /\ Reloads(q, entry[q], phase, owed)
  BY DEF Typed, Shaped, RefusedInv, Reloading
<1>4. CASE CallSucceeds(c)
  <2>1. RequestEnded(entry, phase', tags) /\ Shaped(entry)
    BY <1>4 DEF CallSucceeds, Invalidation, Typed
  <2> HIDE DEF tags
  <2>2. Reloading(entry, phase', tags)
    BY <1>2, <1>3, ReloadsMonotone DEF Reloading
  <2> QED
    BY <1>1, <2>1, <2>2, ReloadingEnds
<1>5. CASE CallFails(c)
  <2> DEFINE e == [q \in scene.views |-> Undone(c, q)]
  <2>1. RequestEnded(e, phase', tags)
    BY <1>5 DEF CallFails, Invalidation
  <2>2. Shaped(e) /\ \A q \in scene.views : e[q] = Undone(c, q)
    BY UndoneShape DEF Shaped
  <2> HIDE DEF e, tags
  <2>3. ASSUME NEW q \in scene.views PROVE Reloads(q, Undone(c, q), phase', tags)
    <3>1. CASE q \in DOMAIN undo[c] /\ entry[q].loaded
      <4> DEFINE f == [r \in q.rows |-> IF r \in c.writes THEN undo[c][q][r] ELSE entry[q].shown[r]]
      <4>0. /\ undo[c][q] \in [q.rows -> Contents] /\ entry[q].shown \in [q.rows -> Contents]
            /\ Patches(c, q)
        BY <1>3, <3>1 DEF Typed, CallsOK, Shape
      <4>1. f \in [q.rows -> Contents]
        BY <4>0
      <4>2. Undone(c, q) = [entry[q] EXCEPT !.shown = f]
        BY <3>1 DEF Undone
      <4>3. q.tags \cap Awaited(phase', tags) # {}
        BY <1>2, <4>0, PatchedTag
      <4> HIDE DEF f
      <4> QED
        BY <1>3, <3>1, <4>1, <4>2, <4>3, ReloadsOverwritten
    <3>2. CASE ~(q \in DOMAIN undo[c] /\ entry[q].loaded)
      <4>1. Undone(c, q) = entry[q]
        BY <3>2 DEF Undone
      <4> QED
        BY <1>2, <1>3, <4>1, ReloadsMonotone
    <3> QED
      BY <3>1, <3>2
  <2>4. Reloading(e, phase', tags)
    BY <2>2, <2>3 DEF Reloading
  <2> QED
    BY <1>1, <2>1, <2>2, <2>4, ReloadingEnds
<1> QED
  BY <1>4, <1>5

LEMMA RefusedInit == Init => RefusedInv
<1> SUFFICES ASSUME Init PROVE RefusedInv
  OBVIOUS
<1>1. Typed /\ Origins
  BY TypedInit, OriginsInit
<1>2. \A q \in scene.views : entry[q] = Empty(q)
  BY DEF Init
<1>3. Reloading(entry, phase, owed)
  BY <1>1, <1>2, ReloadingEmpty DEF Reloading
<1> QED
  BY <1>1, <1>3 DEF RefusedInv

LEMMA RefusedStep == Typed /\ RefusedInv /\ [Next]_vars => RefusedInv'
<1> SUFFICES ASSUME Typed, RefusedInv, [Next]_vars PROVE RefusedInv'
  OBVIOUS
<1>0. Origins /\ Reloading(entry, phase, owed)
  BY DEF RefusedInv
<1>1. CASE UNCHANGED vars
  <2>1. Origins'
    BY <1>0, <1>1, OriginsNext DEF vars, Origins
  <2>2. Reloading(entry, phase, owed)'
    BY <1>0, <1>1, ReloadingNext DEF vars
  <2> QED
    BY <2>1, <2>2 DEF RefusedInv
<1>2. ASSUME NEW q \in scene.views,
             Mount(q) \/ Unmount(q) \/ Evict(q) \/ Answer(q) \/ Arrive(q) \/ QueryFails(q)
      PROVE  RefusedInv'
  BY <1>0, <1>2, OriginsView, ReloadingView DEF RefusedInv
<1>3. ASSUME NEW c \in scene.calls, StartCall(c) \/ Serve(c) PROVE RefusedInv'
  BY <1>0, <1>3, OriginsStart, OriginsServe, ReloadingStart, ReloadingServe DEF RefusedInv
<1>4. ASSUME NEW c \in scene.calls, CallSucceeds(c) \/ CallFails(c) PROVE RefusedInv'
  BY <1>0, <1>4, OriginsSucceeds, OriginsFails, ReloadingCallEnds DEF RefusedInv
<1> QED
  BY <1>1, <1>2, <1>3, <1>4 DEF Next, QueryEnds, CallEnds

(* Whatever calls are under way together, and whatever fails: a refused value *)
(* stays on the screen only if its view could not be fetched again and        *)
(* another call that patched it did not end well.                             *)
THEOREM CacheRefusedOnlyByOverlap == Spec => []RefusedOnlyByOverlap
<1>1. Spec => [](Typed /\ CacheFine /\ RefusedInv)
  BY TypedInit, TypedStep, FineInit, FineStep, RefusedInit, RefusedStep, PTL DEF Spec
<1>2. Typed /\ CacheFine /\ RefusedInv => RefusedOnlyByOverlap
  <2> SUFFICES ASSUME Typed, CacheFine, RefusedInv, ~Busy(entry, phase),
                      NEW q \in scene.views, NEW c \in scene.calls, entry[q].loaded,
                      phase[c] = "refused", NEW r \in q.rows, entry[q].shown[r] = Id(c)
               PROVE  /\ entry[q].failed
                      /\ \E d \in scene.calls \ {c} :
                           phase[d] \in {"refused", "lost"} /\ Patches(d, q)
    BY DEF RefusedOnlyByOverlap
  <2>1. entry[q].fetch = "none" /\ Awaited(phase, owed) = {}
    BY DEF Busy, Awaited, CacheFine, Typed, Shaped, Shape
  <2>2. ~Served(phase, c) /\ ShowsUnserved(q, entry[q], phase)
    BY DEF Served, ShowsUnserved
  <2>3. entry[q].failed
    BY <2>1, <2>2 DEF RefusedInv, Reloading, Reloads
  <2>4. Explained(phase, undo, c, q, r)
    BY DEF RefusedInv, Origins
  <2> QED
    BY <2>2, <2>3, <2>4 DEF Explained, Overlapped
<1> QED
  BY <1>1, <1>2, PTL
================================================================================
