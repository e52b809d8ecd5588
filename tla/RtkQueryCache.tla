---------------------------- MODULE RtkQueryCache ----------------------------
(* The response cache of src/serp_web: one createApi (lib/store/api), whose   *)
(* endpoints are the tables of the *Api modules. The cache itself is RTK      *)
(* Query 2.8, modelled by what the code relies on: a query is kept while a    *)
(* component shows it; a mutation that has ended leaves its tags to be        *)
(* invalidated, which happens when no request is under way; an invalidated    *)
(* query is fetched again while it is shown and forgotten otherwise.          *)
(* A behaviour is that of one scene: a few views and a few calls.             *)
EXTENDS Naturals, FiniteSets, Sequences

CONSTANTS Scenes,    \* what is open and called: [views |-> ..., calls |-> ...]
          Seed,      \* the content of a row when the page is opened
          Absent,    \* the content of a row that does not exist
          MaxOpens   \* how often the user opens a view that has to be fetched

Sources == {"service", "mock"}

\* The content a call leaves behind is the call.
Id(c) == <<c.api, c.name, c.turn>>

ASSUME ContentsDiffer ==
    /\ Seed # Absent
    /\ \A s \in Scenes : \A c \in s.calls : Id(c) \notin {Seed, Absent}
    /\ \A s \in Scenes : \A c, d \in s.calls : c # d => Id(c) # Id(d)

ASSUME KnownSources ==
    /\ \A s \in Scenes : \A q \in s.views : q.source \in Sources
    /\ MaxOpens \in Nat

VARIABLES scene,   \* the views and the calls of this behaviour
          entry,   \* [views -> what the cache holds of the query]
          phase,   \* [calls -> idle, sent, applied, done, lost, refused]
          undo,    \* [calls -> [views -> the rows an undo would write back]]
          owed,    \* pendingTagInvalidations
          stored,  \* [Sources -> [rows -> content]]
          latest,  \* [rows -> the last content written anywhere]
          opens

vars == <<scene, entry, phase, undo, owed, stored, latest, opens>>

Rows == (UNION {q.rows : q \in scene.views}) \cup (UNION {c.writes : c \in scene.calls})
Contents == {Seed, Absent} \cup {Id(c) : c \in scene.calls}

Applied(c) == phase[c] \in {"applied", "done", "lost"}

-----------------------------------------------------------------------------
(* What a call has to do with a view. *)

\* Object.assign(draft, patch) in the cached answer of the named query.
Patches(c, q) == q.api = c.api /\ q.name \in c.patches /\ c.writes \cap q.rows # {}
Touches(c, q) == c.writes \cap q.rows # {}

\* The tags a view provides with an answer.
Provided(q, data) == q.tags \cup {r \in q.items : data[r] # Absent}

\* The call and the view work on the same source, and a tag the call names is
\* one the view has whatever its answer, or one of every row that changes.
Covers(c, q) ==
    /\ c.source = q.source
    /\ \/ c.invalidates \cap q.tags # {}
       \/ /\ c.adds \cap q.rows = {}
          /\ c.writes \cap q.rows \subseteq q.items \cap c.invalidates

Covered(q) == \A c \in scene.calls : Touches(c, q) => Covers(c, q)

\* A call that patches an answer names a tag that its view has whatever the answer
\* is: that of its argument, or of the calendar.
ASSUME PatchedByTag ==
    \A s \in Scenes : \A q \in s.views : \A c \in s.calls :
      Patches(c, q) => c.invalidates \cap q.tags # {}

-----------------------------------------------------------------------------

Empty(q) == [mounted |-> FALSE, fetch |-> "none", loaded |-> FALSE, failed |-> FALSE,
             shown |-> [r \in q.rows |-> Absent], answer |-> [r \in q.rows |-> Absent],
             provides |-> {}]

NoUndo == [q \in {} |-> Absent]

Init ==
    /\ scene \in Scenes
    /\ entry = [q \in scene.views |-> Empty(q)]
    /\ phase = [c \in scene.calls |-> "idle"]
    /\ undo = [c \in scene.calls |-> NoUndo]
    /\ owed = {}
    /\ latest = [r \in Rows |-> IF \E c \in scene.calls : r \in c.adds THEN Absent ELSE Seed]
    /\ stored = [s \in Sources |-> latest]
    /\ opens = 0

Busy(e, p) ==
    \/ \E q \in scene.views : e[q].fetch # "none"
    \/ \E c \in scene.calls : p[c] \in {"sent", "applied"}

\* A query whose tags are invalidated is fetched again if some component shows
\* it, and removed from the cache if none does.
Invalidated(q, x, tags) ==
    IF x.provides \cap tags = {} THEN x
    ELSE IF x.mounted THEN [x EXCEPT !.fetch = "sent"] ELSE Empty(q)

\* The end of a request: the tags wait until no other request is under way.
RequestEnded(e, p, tags) ==
    \/ /\ Busy(e, p)
       /\ entry' = e
       /\ owed' = tags
    \/ /\ ~Busy(e, p)
       /\ entry' = [q \in scene.views |-> Invalidated(q, e[q], tags)]
       /\ owed' = {}

\* A component that uses the query appears. What is cached is not fetched again.
Mount(q) ==
    /\ ~entry[q].mounted
    /\ IF entry[q].loaded \/ entry[q].fetch # "none"
         THEN entry' = [entry EXCEPT ![q].mounted = TRUE] /\ UNCHANGED opens
         ELSE /\ opens < MaxOpens
              /\ opens' = opens + 1
              /\ entry' = [entry EXCEPT ![q].mounted = TRUE, ![q].fetch = "sent"]
    /\ UNCHANGED <<scene, phase, undo, owed, stored, latest>>

Unmount(q) ==
    /\ entry[q].mounted
    /\ entry' = [entry EXCEPT ![q].mounted = FALSE]
    /\ UNCHANGED <<scene, phase, undo, owed, stored, latest, opens>>

\* Nobody has shown the query for a minute; its request is over by then.
Evict(q) ==
    /\ ~entry[q].mounted /\ entry[q].fetch = "none"
    /\ entry' = [entry EXCEPT ![q] = Empty(q)]
    /\ UNCHANGED <<scene, phase, undo, owed, stored, latest, opens>>

\* The service, or the mock, computes the answer.
Answer(q) ==
    /\ entry[q].fetch = "sent"
    /\ entry' = [entry EXCEPT ![q].fetch = "answered",
                              ![q].answer = [r \in q.rows |-> stored[q.source][r]]]
    /\ UNCHANGED <<scene, phase, undo, owed, stored, latest, opens>>

\* The answer replaces what was cached, whatever was patched in the meantime.
Arrive(q) ==
    /\ entry[q].fetch = "answered"
    /\ LET x == [entry[q] EXCEPT !.fetch = "none", !.loaded = TRUE, !.failed = FALSE,
                                 !.shown = entry[q].answer,
                                 !.provides = Provided(q, entry[q].answer)]
       IN  RequestEnded([entry EXCEPT ![q] = x], phase, owed)
    /\ UNCHANGED <<scene, phase, undo, stored, latest, opens>>

\* A query that fails keeps its data, and provides what it does without a result.
QueryFails(q) ==
    /\ entry[q].fetch # "none"
    /\ LET x == [entry[q] EXCEPT !.fetch = "none", !.failed = TRUE, !.provides = q.tags]
       IN  RequestEnded([entry EXCEPT ![q] = x], phase, owed)
    /\ UNCHANGED <<scene, phase, undo, stored, latest, opens>>

-----------------------------------------------------------------------------
(* Calls. *)

\* Mutant: a mark in the place of the removed row.
WrittenMark(c, r) == IF r \in c.removes THEN "removed" ELSE Id(c)

Written(c, r) == IF r \in c.removes THEN Absent ELSE Id(c)

Patched(c, q, x) ==
    [x EXCEPT !.shown = [r \in q.rows |-> IF r \in c.writes THEN Written(c, r) ELSE @[r]]]

\* onQueryStarted: the cached answers the call patches, if there are any.
PatchedViews(c) == {q \in scene.views : Patches(c, q) /\ entry[q].loaded}

StartCall(c) ==
    /\ phase[c] = "idle"
    /\ phase' = [phase EXCEPT ![c] = "sent"]
    /\ entry' = [q \in scene.views |->
                   IF q \in PatchedViews(c) THEN Patched(c, q, entry[q]) ELSE entry[q]]
    /\ undo' = [undo EXCEPT ![c] = [q \in PatchedViews(c) |-> entry[q].shown]]
    /\ UNCHANGED <<scene, owed, stored, latest, opens>>

\* A service changes rows that exist and creates rows that do not.
Accepts(c) ==
    \A r \in c.writes : (stored[c.source][r] = Absent) <=> (r \in c.adds)

\* A loop of requests may have done a part of its rows when the last one ends.
WhatIsDone(c) == IF c.partial THEN (SUBSET c.writes) \ {{}} ELSE {c.writes}

Serve(c) ==
    /\ phase[c] = "sent"
    /\ Accepts(c)
    /\ \E rows \in WhatIsDone(c) :
         /\ stored' = [stored EXCEPT ![c.source] =
                         [r \in Rows |-> IF r \in rows THEN Written(c, r) ELSE @[r]]]
         /\ latest' = [r \in Rows |-> IF r \in rows THEN Written(c, r) ELSE latest[r]]
    /\ phase' = [phase EXCEPT ![c] = "applied"]
    /\ UNCHANGED <<scene, entry, undo, owed, opens>>

\* Mutants: tags for a result, or for an error, only.
InvalidationOfResult(c, outcome) == IF outcome = "failed" THEN {} ELSE c.invalidates
InvalidationOfError(c, outcome) == IF outcome = "failed" THEN c.invalidates ELSE {}

\* invalidatesTags is given the error of a failed call and looks at the
\* arguments only.
Invalidation(c, outcome) == c.invalidates

CallSucceeds(c) ==
    /\ phase[c] = "applied"
    /\ phase' = [phase EXCEPT ![c] = "done"]
    /\ RequestEnded(entry, phase', owed \cup Invalidation(c, "done"))
    /\ undo' = [undo EXCEPT ![c] = NoUndo]
    /\ UNCHANGED <<scene, stored, latest, opens>>

\* Mutant: no undo.
NotUndone(c, q) == entry[q]

\* patchResult.undo(): the old values of the patched fields are written back.
Undone(c, q) ==
    IF q \in DOMAIN undo[c] /\ entry[q].loaded
      THEN [entry[q] EXCEPT !.shown =
              [r \in q.rows |-> IF r \in c.writes THEN undo[c][q][r] ELSE @[r]]]
      ELSE entry[q]

\* The call is refused, or it was applied and its answer is lost.
CallFails(c) ==
    /\ phase[c] \in {"sent", "applied"}
    /\ phase' = [phase EXCEPT ![c] = IF @ = "applied" THEN "lost" ELSE "refused"]
    /\ RequestEnded([q \in scene.views |-> Undone(c, q)], phase',
                    owed \cup Invalidation(c, "failed"))
    /\ undo' = [undo EXCEPT ![c] = NoUndo]
    /\ UNCHANGED <<scene, stored, latest, opens>>

-----------------------------------------------------------------------------

QueryEnds(q) == Arrive(q) \/ QueryFails(q)
CallEnds(c) == CallSucceeds(c) \/ CallFails(c)

Next ==
    \/ \E q \in scene.views : \/ Mount(q) \/ Unmount(q) \/ Evict(q)
                              \/ Answer(q) \/ QueryEnds(q)
    \/ \E c \in scene.calls : StartCall(c) \/ Serve(c) \/ CallEnds(c)

Spec == Init /\ [][Next]_vars

-----------------------------------------------------------------------------
(* Properties. *)

TypeOK ==
    /\ scene \in Scenes
    /\ DOMAIN entry = scene.views
    /\ \A q \in scene.views :
         /\ entry[q].mounted \in BOOLEAN /\ entry[q].loaded \in BOOLEAN
         /\ entry[q].failed \in BOOLEAN
         /\ entry[q].fetch \in {"none", "sent", "answered"}
         /\ entry[q].shown \in [q.rows -> Contents]
         /\ entry[q].answer \in [q.rows -> Contents]
    /\ phase \in [scene.calls -> {"idle", "sent", "applied", "done", "lost", "refused"}]
    /\ \A c \in scene.calls : \A q \in DOMAIN undo[c] :
         q \in scene.views /\ undo[c][q] \in [q.rows -> Contents]
    /\ stored \in [Sources -> [Rows -> Contents]]
    /\ latest \in [Rows -> Contents]
    /\ opens \in 0 .. MaxOpens

Fresh(q) == \A r \in q.rows : entry[q].shown[r] = latest[r]

\* The last fetch of the view brought an answer.
Good(q) == entry[q].loaded /\ ~entry[q].failed

\* When no request is under way and the last fetch of a view succeeded, the view
\* is out of date only if a call has changed rows of it that its tags miss:
\* whatever the order of answers, optimistic patches, undos, lost answers and
\* invalidations was. (invalidatesTags and onQueryStarted of the mutations, the
\* cache as the store configures it.)
FreshWhenIdle ==
    ~Busy(entry, phase) =>
      \A q \in scene.views : Good(q) /\ ~Fresh(q) =>
        \E c \in scene.calls : Applied(c) /\ Touches(c, q) /\ ~Covers(c, q)

\* A value that was refused is shown when no request is under way only if the
\* view has failed to load again and another refused call had patched it: undoing
\* overlapping optimistic updates writes one of them back. (onQueryStarted of
\* updateTask, updateNote, updateScheduleEvent.)
RefusedOnlyByOverlap ==
    ~Busy(entry, phase) =>
      \A q \in scene.views : \A c \in scene.calls :
        /\ entry[q].loaded
        /\ phase[c] = "refused"
        /\ \E r \in q.rows : entry[q].shown[r] = Id(c)
        => /\ entry[q].failed
           /\ \E d \in scene.calls \ {c} : phase[d] \in {"refused", "lost"} /\ Patches(d, q)

\* Once the user opens nothing more, every view that covers its writers ends up
\* showing what was written last, or having failed: no invalidation is lost among
\* the requests it waits for.
ViewsSettle ==
    <>[](\A q \in scene.views :
           entry[q].mounted /\ Covered(q) => entry[q].failed \/ (Good(q) /\ Fresh(q)))
=============================================================================
