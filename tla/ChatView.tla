------------------------------ MODULE ChatView ------------------------------
(* What ChatWindow.tsx of src/serp_web does to its list of messages. The list *)
(* is a bag: MessageList sorts what it draws by createdAt, so the order the   *)
(* merge keeps older and newer messages in is not seen. An entry is a message *)
(* in the version the client holds, or an optimistic one, whose id starts     *)
(* with "temp-": here a negative number. `text` stands for sender and content.*)
EXTENDS Integers, Bags, FiniteSets

Entry(n, v, t) == [id |-> n, version |-> v, text |-> t]
Temp(k, t) == Entry(0 - k, "temp", t)
IsTemp(e) == e.id < 0

Shown(list) == BagToSet(list)
ShownIds(list) == {e.id : e \in Shown(list)}
IsOldest(n, list) == n > 0 /\ n \in ShownIds(list) /\ \A i \in ShownIds(list) : 0 < i => n <= i

Has(items, n) == \E e \in items : e.id = n

\* setMessages of the unified effect when the cached page has changed.
Merged(list, items) ==
    SetToBag(items)
        (+) [e \in {e \in Shown(list) : ~Has(items, e.id)} |-> list[e]]

\* The callback of a MESSAGE_NEW: the oldest optimistic entry of the same
\* sender and content becomes the message, else a message not listed is added.
Matching(list, m) == {e \in Shown(list) : IsTemp(e) /\ e.text = m.text}

Replaced(list, m) ==
    LET first == CHOOSE e \in Matching(list, m) : \A f \in Matching(list, m) : e.id >= f.id
    IN  (list (-) SetToBag({first})) (+) SetToBag({m})

\* Mutants of Received: the optimistic entry stays; a message listed is listed again.
ReceivedAnew(list, m) ==
    IF m.id \in ShownIds(list) THEN list ELSE list (+) SetToBag({m})

ReceivedTwice(list, m) ==
    IF Matching(list, m) # {} THEN Replaced(list, m) ELSE list (+) SetToBag({m})

Received(list, m) ==
    IF Matching(list, m) # {} THEN Replaced(list, m)
    ELSE IF m.id \in ShownIds(list) THEN list
    ELSE list (+) SetToBag({m})

\* setAllMessages((prev) => [...result.data, ...prev]) of handleLoadMore.
Prepended(list, items) == SetToBag(items) (+) list

-----------------------------------------------------------------------------
(* The cached page of getMessages. *)

Page(items, hasNext) == [items |-> items, hasNext |-> hasNext]

\* Mutants of Pushed and Rewritten: the page is not told; a deletion is not.
PushedNever(items, m) == items

RewrittenEdits(items, m) ==
    {IF e.id = m.id /\ m.version = "edited" THEN m ELSE e : e \in items}

\* MESSAGE_NEW pushes a message the page does not hold.
Pushed(items, m) == IF Has(items, m.id) THEN items ELSE items \cup {m}

\* MESSAGE_UPDATED and MESSAGE_DELETED rewrite the message if the page holds it.
Rewritten(items, m) == {IF e.id = m.id THEN m ELSE e : e \in items}

Told(items, m) == IF m.version = "sent" THEN Pushed(items, m) ELSE Rewritten(items, m)
=============================================================================
