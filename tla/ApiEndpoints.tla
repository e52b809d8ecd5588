---------------------------- MODULE ApiEndpoints ----------------------------
(* The shapes the endpoints of src/serp_web take: a view is a query endpoint  *)
(* with an argument, a call a mutation endpoint with an argument. A row of    *)
(* the services is <<type, id>>, a cache tag is a pair of the same form: the  *)
(* tag that names one row is the row itself. "old" is a row that exists when  *)
(* the page is opened, "new" one that some call creates.                      *)
EXTENDS Sequences

Row(type, id) == <<type, id>>
Old(type) == {Row(type, "old")}
New(type) == {Row(type, "new")}
AllRows(type) == Old(type) \cup New(type)
ListTag(type) == {<<type, "LIST">>}

\* What a query shows (`rows`), where its answer comes from (`source`), the
\* tags it always provides (`tags`), and the rows it provides a tag of when
\* its answer holds them (`items`).
View(api, name, rows, tags, items) ==
    [api |-> api, name |-> name, source |-> "service",
     rows |-> rows, tags |-> tags, items |-> items]

\* { type: 'X', id } of every item and { type: 'X', id: 'LIST' }.
ListView(api, name, type) ==
    View(api, name, AllRows(type), ListTag(type), AllRows(type))

\* { type: 'X', id } of the row asked for.
DetailView(api, name, type) == View(api, name, Old(type), Old(type), {})

\* What a mutation writes (`writes`), which of these rows it creates or
\* removes, the tags it invalidates, and the views it patches before the
\* service has answered. `partial`: a loop of requests that may stop halfway.
Call(api, name, writes, invalidates) ==
    [api |-> api, name |-> name, source |-> "service", turn |-> 1,
     writes |-> writes, adds |-> {r \in writes : r[2] = "new"}, removes |-> {},
     invalidates |-> invalidates, patches |-> {}, partial |-> FALSE]

CreateCall(api, name, type) == Call(api, name, New(type), ListTag(type))

UpdateCall(api, name, type) ==
    Call(api, name, Old(type), Old(type) \cup ListTag(type))

\* The tags do not depend on what the call removes.
Removing(call) == [call EXCEPT !.removes = {r \in call.writes : r[2] = "old"}]

DeleteCall(api, name, type) == Removing(UpdateCall(api, name, type))

\* Other rows the service writes in the same request, whose tags are not named.
AlsoWriting(call, rows) ==
    [call EXCEPT !.writes = @ \cup rows,
                 !.adds = @ \cup {r \in rows : r[2] = "new"}]

\* An endpoint with a queryFn that works on the mocks of the PTM module.
Mocked(endpoint) == [endpoint EXCEPT !.source = "mock"]

\* A second or third call of an endpoint while the first is under way.
Again(call, turn) == [call EXCEPT !.turn = turn]

Table(views, calls) == [views |-> views, calls |-> calls]

\* The usual five endpoints of an entity.
Crud(api, type, list, detail, create, update, delete) ==
    Table({ListView(api, list, type), DetailView(api, detail, type)},
          {CreateCall(api, create, type), UpdateCall(api, update, type),
           DeleteCall(api, delete, type)})

ReadOnly(api, type, list, detail) ==
    Table({ListView(api, list, type), DetailView(api, detail, type)}, {})

Merged(tables) == Table(UNION {t.views : t \in tables}, UNION {t.calls : t \in tables})
=============================================================================
