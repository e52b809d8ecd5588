----------------------------- MODULE DiscussChat -----------------------------
(* The chat window of src/serp_web (modules/discuss): the messages the user   *)
(* sees, the cached page of each channel, the STOMP client that carries what  *)
(* is sent and pushed, and the requests that load a page or older messages.   *)
(*                                                                            *)
(* Every handler is one action together with the effects React runs before    *)
(* the next one (Rendered): the update of the cache, the callback and the     *)
(* merge reach the list in the order they were queued. The service            *)
(* (discuss_service) keeps the messages and pushes an event per change, in    *)
(* order within a channel (Kafka keyed by channel).                           *)
EXTENDS ChatView, Sequences

CONSTANTS
    Channels,
    FirstChannel,   \* the channel the window is opened with
    Backlog,        \* the channels of the messages that exist then, oldest first
    Texts,          \* (sender, content) of the user's own messages
    Peer,           \* (sender, content) of everybody else's
    Typists,        \* members whose typing indicator is followed
    PageSize,       \* limit: 50
    MaxRetries,     \* maxRetries: 3
    None,
    MaxSends,       \* bound: messages sent through the socket
    MaxScrolls,     \* bound: times the user scrolls to the top
    Budgets         \* bound: what may happen from outside, per behaviour

AllTexts == Texts \cup {Peer}
Versions == {"sent", "edited", "deleted"}
Entries == [id : Int, version : Versions, text : AllTexts]
Pages == [items : SUBSET Entries, hasNext : BOOLEAN]
Loads == [channel : Channels, before : Int, attempt : 0 .. MaxRetries - 1,
          stage : {"asking", "waiting", "offered"}, by : {"scroll", "toast"}]
Requests == [op : Versions, id : Int, text : AllTexts, channel : Channels, applied : BOOLEAN]

ASSUME ChannelsAssumption == FirstChannel \in Channels /\ Backlog \in Seq(Channels)
ASSUME PeerAssumption == Peer \notin Texts
ASSUME SizesAssumption == PageSize \in Nat \ {0} /\ MaxRetries \in Nat \ {0}
ASSUME NoneAssumption == None \notin Pages /\ None \notin Loads /\ None \notin Requests
ASSUME BoundsAssumption ==
    /\ MaxSends \in Nat /\ MaxScrolls \in Nat
    /\ Budgets \subseteq [posts : Nat, changes : Nat, sends : 0 .. MaxSends, mutations : Nat,
                          opens : Nat, scrolls : 0 .. MaxScrolls, faults : Nat, typings : Nat]

VARIABLES
    \* the service
    posted,         \* the messages: channel, version, text
    events,         \* pushed to this client, not handled yet
    outbox,         \* published by this client, not received yet
    \* the STOMP client of useDiscussWebSocket
    link,           \* up, broken (not noticed yet) or down
    isConnected,
    closing,        \* the socket of the previous token has yet to close
    rest,           \* the mutation under way, or None
    \* the query cache and the hooks of the window
    cache,          \* [Channels -> the getMessages entry]
    channel,        \* the channel shown
    hook,           \* data of useGetMessagesQuery, or None
    initial,        \* isInitialLoadRef
    list,           \* allMessages
    hasMore,        \* hasMoreMessages
    loads,          \* [loops of handleLoadMore -> what each is at, or its toast]
    lazy,           \* useLazyGetMessagesBeforeQuery: unused, loading or used
    guard,          \* isLoadingRef of MessageList
    typing,         \* typingUsers
    timers,         \* typingTimeoutsRef
    \* bookkeeping
    budget,
    missed,         \* messages an event of which was lost or came too early
    dropped,        \* optimistic entries whose message was never published
    mixed,          \* the list was given messages of another channel
    freed,          \* isLoadingRef was cleared because the list had become empty
    cut             \* members whose timer was cleared with the callbacks

serviceVars == <<posted, events, outbox>>
clientVars == <<link, isConnected, closing, rest>>
windowVars == <<cache, channel, hook, initial, list, hasMore, mixed>>
loadVars == <<loads, lazy, guard, freed>>
typingVars == <<typing, timers, cut>>
vars == <<serviceVars, clientVars, windowVars, loadVars, typingVars, budget, missed, dropped>>

Loops == 1 .. MaxScrolls

Spend(what) == budget[what] > 0 /\ budget' = [budget EXCEPT ![what] = @ - 1]

Message(n) == Entry(n, posted[n].version, posted[n].text)

NoEntry == [data |-> None, fetch |-> "none", answer |-> None, owed |-> FALSE]
Fetching == [NoEntry EXCEPT !.fetch = "sent"]
Pending(c) == c.fetch \in {"sent", "answered"}

-----------------------------------------------------------------------------
(* The queries of the service. *)

Latest(S) == {n \in S : Cardinality({i \in S : i > n}) < PageSize}

InChannel(ch) == {n \in DOMAIN posted : posted[n].channel = ch /\ posted[n].version # "deleted"}

FirstPage(ch) ==
    Page({Message(n) : n \in Latest(InChannel(ch))}, Cardinality(InChannel(ch)) > PageSize)

Before(ch, id) == {Message(n) : n \in Latest({n \in InChannel(ch) : n < id})}

-----------------------------------------------------------------------------
(* Rendering. *)

\* `data` of the query hook: that of the entry once it has succeeded, else the
\* last the hook returned, whatever channel that was.
HookData(c) ==
    IF c.fetch = "none" /\ c.data # None THEN c.data
    ELSE IF hook # None THEN hook
    ELSE c.data

\* setAllMessages of the unified effect; the mutant merges after a switch too.
RefreshedMerging(switched, messages, data) ==
    IF initial THEN SetToBag(data.items) ELSE Merged(messages, data.items)

Refreshed(switched, messages, data) ==
    IF switched \/ initial THEN SetToBag(data.items) ELSE Merged(messages, data.items)

\* The unified effect runs when the channel or the data has changed, the effect
\* of MessageList when the list has become empty.
Rendered(ch, entries, messages) ==
    LET data == HookData(entries[ch])
        switched == ch # channel
    IN  /\ channel' = ch /\ cache' = entries /\ hook' = data
        /\ IF data # None /\ (switched \/ data # hook)
           THEN /\ list' = Refreshed(switched, messages, data)
                /\ hasMore' = data.hasNext /\ initial' = FALSE
           ELSE IF switched
           THEN list' = EmptyBag /\ hasMore' = TRUE /\ initial' = TRUE
           ELSE list' = messages /\ UNCHANGED <<hasMore, initial>>
        /\ mixed' = IF switched THEN data # None /\ data # entries[ch].data ELSE mixed
        /\ guard' = (guard /\ list' # EmptyBag)
        /\ freed' = (freed \/ (guard /\ list' = EmptyBag))
        /\ UNCHANGED <<loads, lazy>>

\* A new `wsApi` object: the callbacks are registered again.
Reconnected(b) ==
    /\ isConnected' = b
    /\ IF b # isConnected
       THEN timers' = {} /\ cut' = cut \cup timers /\ UNCHANGED typing
       ELSE UNCHANGED typingVars

IsLoading == (hook = None /\ Pending(cache[channel])) \/ lazy = "loading"

-----------------------------------------------------------------------------

Init ==
    /\ budget \in Budgets
    /\ posted = [n \in DOMAIN Backlog |->
                   [channel |-> Backlog[n], version |-> "sent", text |-> Peer]]
    /\ events = <<>> /\ outbox = <<>>
    /\ link = "down" /\ isConnected = FALSE /\ closing = FALSE /\ rest = None
    /\ channel = FirstChannel
    /\ cache = [ch \in Channels |-> IF ch = FirstChannel THEN Fetching ELSE NoEntry]
    /\ hook = None /\ initial = TRUE /\ list = EmptyBag /\ hasMore = TRUE
    /\ loads = [j \in Loops |-> None] /\ lazy = "unused" /\ guard = FALSE /\ freed = FALSE
    /\ typing = {} /\ timers = {}
    /\ missed = {} /\ dropped = {} /\ mixed = FALSE /\ cut = {}

-----------------------------------------------------------------------------
(* The service. *)

Posts(ch, t) ==
    /\ posted' = Append(posted, [channel |-> ch, version |-> "sent", text |-> t])
    /\ events' = Append(events, [id |-> Len(posted) + 1, version |-> "sent"])

Changes(n, v) ==
    /\ posted' = [posted EXCEPT ![n].version = v]
    /\ events' = Append(events, [id |-> n, version |-> v])

\* Somebody posts: a peer, or the user in another tab.
Post(ch, t) ==
    /\ Spend("posts")
    /\ Posts(ch, t)
    /\ UNCHANGED <<outbox, clientVars, windowVars, loadVars, typingVars, missed, dropped>>

Changeable(n, v) ==
    \/ v = "edited" /\ posted[n].version = "sent"
    \/ v = "deleted" /\ posted[n].version # "deleted"

Change(n, v) ==
    /\ Spend("changes")
    /\ Changeable(n, v) /\ Changes(n, v)
    /\ UNCHANGED <<outbox, clientVars, windowVars, loadVars, typingVars, missed, dropped>>

\* handleMessage of the WebSocket controller: a message, or an ERROR event.
ServerReceives ==
    /\ outbox # <<>> /\ outbox' = Tail(outbox)
    /\ LET m == Head(outbox) IN
       \/ Posts(m.channel, m.text) /\ UNCHANGED <<budget, dropped>>
       \/ /\ Spend("faults") /\ dropped' = dropped \cup {m.key}
          /\ UNCHANGED <<posted, events>>
    /\ UNCHANGED <<clientVars, windowVars, loadVars, typingVars, missed>>

-----------------------------------------------------------------------------
(* The connection. *)

\* Events pushed while there was no connection are lost, those still in Kafka
\* are not: a suffix of them comes.
Connect ==
    /\ link = "down" /\ link' = "up"
    /\ Reconnected(TRUE)
    /\ \E k \in 0 .. Len(events) :
         /\ events' = SubSeq(events, k + 1, Len(events))
         /\ missed' = missed \cup {events[i].id : i \in 1 .. k}
    /\ UNCHANGED <<posted, outbox, closing, rest, windowVars, loadVars, budget, dropped>>

Break ==
    /\ Spend("faults")
    /\ link = "up" /\ link' = "broken"
    /\ outbox' = <<>> /\ dropped' = dropped \cup {outbox[i].key : i \in DOMAIN outbox}
    /\ UNCHANGED <<posted, events, isConnected, closing, rest, windowVars, loadVars,
                   typingVars, missed>>

\* onWebSocketClose, when the socket fails or the heartbeats stay away.
Noticed ==
    /\ link = "broken" /\ link' = "down"
    /\ Reconnected(FALSE)
    /\ UNCHANGED <<serviceVars, closing, rest, windowVars, loadVars, budget, missed, dropped>>

\* The token was refreshed: the old client is deactivated, a new one activated.
RenewToken ==
    /\ Spend("faults")
    /\ link # "down" /\ ~closing
    /\ link' = "down" /\ closing' = TRUE
    /\ UNCHANGED <<serviceVars, isConnected, rest, windowVars, loadVars, typingVars,
                   missed, dropped>>

OldCloses ==
    /\ closing /\ closing' = FALSE
    /\ Reconnected(FALSE)
    /\ UNCHANGED <<serviceVars, link, rest, windowVars, loadVars, budget, missed, dropped>>

-----------------------------------------------------------------------------
(* handleEvent. *)

\* The page the service has sent does not have the event, or the hook hides
\* what the entry holds while it is fetched.
TooEarly(m) ==
    LET page == cache[posted[m.id].channel] IN
    \/ page.fetch = "answered" /\ m \notin page.answer.items
    \/ /\ m.version # "sent"
       /\ page.fetch # "none" \/ page.data = None \/ ~Has(page.data.items, m.id)

\* The message of the event to be handled, the cached page after updateQueryData
\* and the list after the callback, which only a MESSAGE_NEW has.
Handled == Entry(Head(events).id, Head(events).version, posted[Head(events).id].text)

CacheTold(m) ==
    LET ch == posted[m.id].channel IN
    IF cache[ch].data = None THEN cache
    ELSE [cache EXCEPT ![ch].data.items = Told(cache[ch].data.items, m)]

ListTold(m) ==
    IF m.version = "sent" /\ posted[m.id].channel = channel THEN Received(list, m) ELSE list

Receive ==
    /\ link = "up" /\ events # <<>> /\ events' = Tail(events)
    /\ Rendered(channel, CacheTold(Handled), ListTold(Handled))
    /\ missed' = IF TooEarly(Handled) THEN missed \cup {Handled.id} ELSE missed
    /\ UNCHANGED <<posted, outbox, clientVars, typingVars, budget, dropped>>

-----------------------------------------------------------------------------
(* handleSendMessage, handleDeleteMessage. *)

\* Through the socket: published if the client is connected, shown in any case.
Send(t) ==
    /\ isConnected
    /\ Spend("sends")
    /\ LET k == MaxSends - budget.sends + 1 IN
       /\ list' = list (+) SetToBag({Temp(k, t)})
       /\ IF link = "up"
          THEN outbox' = Append(outbox, [channel |-> channel, text |-> t, key |-> k])
               /\ UNCHANGED dropped
          ELSE dropped' = dropped \cup {k}
               /\ UNCHANGED outbox
    /\ UNCHANGED <<posted, events, clientVars, cache, channel, hook, initial, hasMore, mixed,
                   loadVars, typingVars, missed>>

Mutation(op, n, t) ==
    /\ Spend("mutations")
    /\ rest = None
    /\ rest' = [op |-> op, id |-> n, text |-> t, channel |-> channel, applied |-> FALSE]
    /\ UNCHANGED <<serviceVars, link, isConnected, closing, windowVars, loadVars, typingVars,
                   missed, dropped>>

\* A message with files always, a text when the socket is not connected.
SendByRest(t) == Mutation("sent", 0, t)

ChangeByRest(n, v) ==
    /\ n \in ShownIds(list) /\ n > 0
    /\ Mutation(v, n, Peer)

MutationApplied ==
    /\ rest # None /\ ~rest.applied
    /\ rest' = [rest EXCEPT !.applied = TRUE]
    /\ IF rest.op = "sent" THEN Posts(rest.channel, rest.text)
       ELSE IF Changeable(rest.id, rest.op) THEN Changes(rest.id, rest.op)
       ELSE UNCHANGED <<posted, events>>
    /\ UNCHANGED <<outbox, link, isConnected, closing, windowVars, loadVars, typingVars,
                   budget, missed, dropped>>

\* Both an answer and an error invalidate the tag of the channel.
MutationEnds ==
    /\ rest # None /\ rest' = None
    /\ IF rest.applied THEN UNCHANGED budget ELSE Spend("faults")
    /\ cache' = [cache EXCEPT ![rest.channel].owed = TRUE]
    /\ UNCHANGED <<serviceVars, link, isConnected, closing, channel, hook, initial, list,
                   hasMore, mixed, loadVars, typingVars, missed, dropped>>

-----------------------------------------------------------------------------
(* The channel and its page. *)

Open(ch) ==
    /\ ch # channel
    /\ Spend("opens")
    /\ Rendered(ch, IF cache[ch].data = None /\ ~Pending(cache[ch])
                    THEN [cache EXCEPT ![ch].fetch = "sent"] ELSE cache, list)
    /\ UNCHANGED <<serviceVars, clientVars, typingVars, missed, dropped>>

PageRead(ch) ==
    /\ cache[ch].fetch = "sent"
    /\ cache' = [cache EXCEPT ![ch].fetch = "answered", ![ch].answer = FirstPage(ch)]
    /\ UNCHANGED <<serviceVars, clientVars, channel, hook, initial, list, hasMore, mixed,
                   loadVars, typingVars, budget, missed, dropped>>

PageArrives(ch) ==
    /\ cache[ch].fetch = "answered"
    /\ Rendered(channel,
                [cache EXCEPT ![ch].data = cache[ch].answer, ![ch].fetch = "none",
                              ![ch].answer = None], list)
    /\ UNCHANGED <<serviceVars, clientVars, typingVars, budget, missed, dropped>>

PageFails(ch) ==
    /\ Pending(cache[ch])
    /\ Spend("faults")
    /\ Rendered(channel, [cache EXCEPT ![ch].fetch = "failed", ![ch].answer = None], list)
    /\ UNCHANGED <<serviceVars, clientVars, typingVars, missed, dropped>>

\* A loop has a request under way, is at an attempt at all (one that has used
\* them up leaves a toast), or was started by scrolling and not by the toast.
Asking(l) == l # None /\ l.stage = "asking"
UnderWay(l) == l # None /\ l.stage # "offered"
ByScroll(l) == l # None /\ l.by = "scroll"

\* RTK Query invalidates when nothing is under way: a page shown is fetched
\* again, one that is not is forgotten.
Quiet ==
    /\ rest = None
    /\ \A ch \in Channels : ~Pending(cache[ch])
    /\ \A j \in Loops : ~Asking(loads[j])

Revalidated(ch) ==
    IF ~cache[ch].owed THEN cache[ch]
    ELSE IF ch = channel THEN [cache[ch] EXCEPT !.fetch = "sent", !.owed = FALSE]
    ELSE NoEntry

Invalidate ==
    /\ Quiet
    /\ \E ch \in Channels : cache[ch].owed
    /\ Rendered(channel, [ch \in Channels |-> Revalidated(ch)], list)
    /\ UNCHANGED <<serviceVars, clientVars, typingVars, budget, missed, dropped>>

\* keepUnusedDataFor
Expire(ch) ==
    /\ ch # channel /\ ~Pending(cache[ch]) /\ ~cache[ch].owed
    /\ cache[ch] # NoEntry
    /\ cache' = [cache EXCEPT ![ch] = NoEntry]
    /\ UNCHANGED <<serviceVars, clientVars, channel, hook, initial, list, hasMore, mixed,
                   loadVars, typingVars, budget, missed, dropped>>

-----------------------------------------------------------------------------
(* handleLoadMore of MessageList and of ChatWindow. *)

Scrolled == MaxScrolls - budget.scrolls

\* The list is drawn and has a message; the mutant forgets isLoadingRef.
Drawn == cache[channel].fetch # "failed" /\ \E n \in ShownIds(list) : n > 0
MayLoadTwice == Drawn /\ hasMore /\ ~IsLoading

MayLoad == Drawn /\ hasMore /\ ~IsLoading /\ ~guard

ScrollToTop ==
    /\ MayLoad
    /\ Spend("scrolls")
    /\ guard' = TRUE
    /\ lazy' = IF lazy = "unused" THEN "loading" ELSE lazy
    /\ \E n \in ShownIds(list) :
         /\ IsOldest(n, list)
         /\ loads' = [loads EXCEPT ![Scrolled + 1] =
              [channel |-> channel, before |-> n, attempt |-> 0, stage |-> "asking",
               by |-> "scroll"]]
    /\ UNCHANGED <<freed, serviceVars, clientVars, windowVars, typingVars, missed, dropped>>

\* Mutant: the guard stays.
ReleasedNever == lazy' = "used" /\ UNCHANGED <<guard, freed>>

\* The first answer, good or bad, is the last change of isLoading: the effect
\* of MessageList clears its guard then.
Released ==
    /\ lazy' = "used"
    /\ guard' = (guard /\ lazy # "loading")
    /\ UNCHANGED freed

\* Nothing older has come since, and the channel is still shown.
InStep(l) == l.channel = channel /\ IsOldest(l.before, list)

LoadArrives(j) ==
    /\ Asking(loads[j])
    /\ loads' = [loads EXCEPT ![j] = None]
    /\ Released
    /\ LET older == Before(loads[j].channel, loads[j].before) IN
       /\ list' = Prepended(list, older)
       /\ hasMore' = (Cardinality(older) = PageSize)
       /\ mixed' = (mixed \/ ~InStep(loads[j]))
    /\ UNCHANGED <<serviceVars, clientVars, cache, channel, hook, initial, typingVars, budget,
                   missed, dropped>>

\* Mutant: one attempt too many.
LoadFailsAgain(j) ==
    /\ Asking(loads[j])
    /\ Spend("faults")
    /\ loads' = [loads EXCEPT ![j].attempt = @ + 1, ![j].stage = "waiting"]
    /\ Released
    /\ UNCHANGED <<serviceVars, clientVars, windowVars, typingVars, missed, dropped>>

\* The next attempt after a delay, or a toast that offers to begin again.
NextAttempt(l) ==
    IF l.attempt + 1 = MaxRetries
    THEN [l EXCEPT !.attempt = 0, !.stage = "offered", !.by = "toast"]
    ELSE [l EXCEPT !.attempt = l.attempt + 1, !.stage = "waiting"]

LoadFails(j) ==
    /\ Asking(loads[j])
    /\ Spend("faults")
    /\ loads' = [loads EXCEPT ![j] = NextAttempt(loads[j])]
    /\ Released
    /\ UNCHANGED <<serviceVars, clientVars, windowVars, typingVars, missed, dropped>>

LoadRetries(j) ==
    /\ loads[j] # None /\ loads[j].stage = "waiting"
    /\ loads' = [loads EXCEPT ![j].stage = "asking"]
    /\ UNCHANGED <<serviceVars, clientVars, windowVars, lazy, guard, freed, typingVars, budget,
                   missed, dropped>>

\* Retry of the toast: handleLoadMore of the render the loop was started in, so
\* for that channel and that message, past MessageList and its guard.
PressRetry(j) ==
    /\ loads[j] # None /\ loads[j].stage = "offered"
    /\ loads' = [loads EXCEPT ![j].stage = "asking"]
    /\ UNCHANGED <<serviceVars, clientVars, windowVars, lazy, guard, freed, typingVars, budget,
                   missed, dropped>>

-----------------------------------------------------------------------------
(* Typing indicators. *)

TypingUpdate(u, isTyping) ==
    /\ Spend("typings")
    /\ link = "up"
    /\ IF isTyping
       THEN typing' = typing \cup {u} /\ timers' = timers \cup {u}
       ELSE typing' = typing \ {u} /\ timers' = timers \ {u}
    /\ cut' = cut \ {u}
    /\ UNCHANGED <<serviceVars, clientVars, windowVars, loadVars, missed, dropped>>

\* Mutant: the timer forgets whom it was for.
TypingTimeoutOnly(u) ==
    /\ u \in timers
    /\ timers' = timers \ {u} /\ UNCHANGED <<typing, cut>>
    /\ UNCHANGED <<serviceVars, clientVars, windowVars, loadVars, budget, missed, dropped>>

TypingTimeout(u) ==
    /\ u \in timers
    /\ typing' = typing \ {u} /\ timers' = timers \ {u} /\ UNCHANGED cut
    /\ UNCHANGED <<serviceVars, clientVars, windowVars, loadVars, budget, missed, dropped>>

-----------------------------------------------------------------------------

Environment ==
    \/ \E ch \in Channels, t \in Texts \cup {Peer} : Post(ch, t)
    \/ \E n \in DOMAIN posted, v \in {"edited", "deleted"} : Change(n, v) \/ ChangeByRest(n, v)
    \/ \E t \in Texts : Send(t) \/ SendByRest(t)
    \/ \E ch \in Channels : Open(ch) \/ PageFails(ch) \/ Expire(ch)
    \/ Break \/ RenewToken
    \/ ScrollToTop
    \/ \E j \in Loops : LoadFails(j) \/ PressRetry(j)
    \/ \E u \in Typists, b \in BOOLEAN : TypingUpdate(u, b)

Progress ==
    \/ ServerReceives \/ Connect \/ Noticed \/ OldCloses \/ Receive
    \/ MutationApplied \/ MutationEnds \/ Invalidate
    \/ \E ch \in Channels : PageRead(ch) \/ PageArrives(ch)
    \/ \E j \in Loops : LoadArrives(j) \/ LoadRetries(j)
    \/ \E u \in Typists : TypingTimeout(u)

Next == Environment \/ Progress

Spec == Init /\ [][Next]_vars

\* The service works off what it receives, the client reconnects (reconnectDelay),
\* notices a dead socket (heartbeats) and handles what was pushed; the user, the
\* peers and the faults owe nothing.
Fairness ==
    /\ WF_vars(ServerReceives) /\ WF_vars(Connect) /\ WF_vars(Noticed) /\ WF_vars(Receive)

FairSpec == Spec /\ Fairness

-----------------------------------------------------------------------------

ChannelOf(n) == posted[n].channel

PageOrNone(p) == p = None \/ (p.hasNext \in BOOLEAN /\ \A e \in p.items : e.id \in DOMAIN posted)

\* Types: the list is a bag of messages of the service and optimistic entries
\* and a loop of handleLoadMore is at one of its MaxRetries attempts.
TypeOK ==
    /\ IsABag(list) /\ \A n \in ShownIds(list) : n \in DOMAIN posted \/ 0 - n \in 1 .. MaxSends
    /\ channel \in Channels /\ PageOrNone(hook) /\ {initial, hasMore, guard, freed, mixed} \subseteq BOOLEAN
    /\ \A ch \in Channels : PageOrNone(cache[ch].data) /\ PageOrNone(cache[ch].answer)
    /\ \A j \in Loops : loads[j] # None => loads[j].attempt \in 0 .. MaxRetries - 1
    /\ link \in {"up", "broken", "down"} /\ {isConnected, closing} \subseteq BOOLEAN
    /\ lazy \in {"unused", "loading", "used"} /\ timers \cup typing \cup cut \subseteq Typists

\* The window lists messages of its channel only, unless it was opened before
\* the channel's page had come (the hook hands it the page of the channel
\* before, ChatWindow 165-215) or a load-more came out of step.
OfChannel == ~mixed => \A n \in ShownIds(list) : n > 0 => ChannelOf(n) = channel

\* What was pushed has been handled.
AtRest == events = <<>>

\* From the oldest message listed on, none is missing: what is pushed while the
\* socket is connected is seen in its channel, now or when it is opened, unless
\* a page the service had read before overtakes the event.
NoHole ==
    AtRest /\ ~mixed =>
        \A n \in ShownIds(list), i \in InChannel(channel) :
            0 < n /\ n < i /\ i \notin missed => i \in ShownIds(list)

\* A message listed is listed as the service has it, edits and deletions
\* included, unless the event met a page that did not hold the message (one
\* loaded by scrolling, or dropped by a refetch) or was being fetched.
UpToDate ==
    AtRest /\ ~mixed =>
        \A n \in ShownIds(list) : n > 0 /\ n \notin missed => Message(n) \in Shown(list)

\* A message of somebody else is listed once, whichever of the page, the event
\* and a load-more brings it first. One's own may be listed twice: an event
\* takes an optimistic entry of the same text before it looks for its id.
ListedOnce ==
    ~mixed => \A e, f \in Shown(list) :
                e.text = Peer => list[e] = 1 /\ (f.id = e.id => f = e)

\* Two loops of handleLoadMore that scrolling started are never at their first
\* attempt together (a failure releases the ref, and the loop goes on), unless
\* an empty channel was shown in between (MessageList 307-316 clears the ref).
\* The loop that Retry starts passes the ref by: it may have another beside it.
OneLoop ==
    ~freed => \A i, j \in Loops :
        i # j /\ ByScroll(loads[i]) /\ ByScroll(loads[j])
            => loads[i].attempt + loads[j].attempt > 0

\* isLoadingRef is released after the first page of history. It is not after
\* the second, when isLoading no longer changes: there is no third.
GuardReleased == guard /\ (\A j \in Loops : ~UnderWay(loads[j])) => Scrolled >= 2

\* Whoever is shown as typing has a timer that ends it, unless the connection
\* changed in between: the cleanup clears the timers and leaves the names.
TypingEnds == typing \subseteq timers \cup cut

\* An optimistic entry becomes the message, or goes with its channel, unless the
\* message was never published or an event of one like it was missed.
Settles ==
    \A k \in 1 .. MaxSends, t \in Texts :
        BagIn(Temp(k, t), list)
            ~> (\/ ~BagIn(Temp(k, t), list) \/ k \in dropped
                \/ \E n \in missed : posted[n].text = t)
=============================================================================
