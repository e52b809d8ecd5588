----------------------------- MODULE WebSession -----------------------------
(* One tab of the web client: who is signed in, the requests that renew the   *)
(* tokens, and the socket of the notifications, which is opened and closed by *)
(* the actions that pass the store.                                           *)
(*                                                                            *)
(* A token is [session, turn]: a sign-in starts a session, a refresh issues   *)
(* the next token of it. The refresh token goes with the access token: the    *)
(* code always sets and clears them together.                                 *)
EXTENDS FiniteSets, NotificationStore

CONSTANTS
    Requests,       \* API calls that may be under way
    Sockets,        \* bound: WebSocket objects whose onclose has not come yet
    Notes,          \* notifications
    None,
    MaxSessions,    \* bound: sign-ins
    MaxExpiries,    \* bound: tokens that expire, and tokens that replace them
    MaxFaults       \* bound: connections lost with a valid token, reloads of the page

VARIABLES
    auth,           \* the tokens in the store, or None
    request,        \* [Requests -> what baseQueryWithReauth is at]
    signingIn,      \* a login or a registration is under way
    revoking,       \* the session a logout is revoking, or 0
    issued,         \* [sessions -> tokens issued]
    expired,        \* tokens the services refuse
    ended,          \* sessions the client has signed out of
    straddled,      \* those of them a request was refreshing then
    socket,         \* [Sockets -> state, the token it was opened with, what is to come]
    current,        \* `socket` of the middleware, or None
    timer,          \* reconnectTimer
    forgotten,      \* live sockets the middleware has lost sight of
    strayed,        \* there was one since the page was loaded
    notified,       \* notifications the server has pushed
    store,          \* the notifications slice
    faults

authVars == <<request, signingIn, revoking, issued, expired>>
socketVars == <<socket, current, timer, forgotten, strayed>>
vars == <<auth, authVars, ended, straddled, socketVars, notified, store, faults>>

Sessions == 1 .. MaxSessions
Tokens == [session : Sessions, turn : 1 .. MaxExpiries + 1]
Token(s, turn) == [session |-> s, turn |-> turn]

ASSUME BoundsAreNumbers == MaxSessions \in Nat /\ MaxExpiries \in Nat
ASSUME NoneIsNothing == None \notin Tokens \cup Sockets

Stages == {"idle", "sent", "refreshing", "storing", "clearing", "again"}
Idle == [stage |-> "idle", with |-> None]
RequestStates == {q \in [stage : Stages, with : Tokens \cup {None}] :
                    q.with = None <=> q.stage \in {"idle", "clearing"}}

Closed == [state |-> "none", of |-> None, initial |-> FALSE, pushed |-> {}]
Live(k) == socket[k].state \in {"opening", "open"}
LiveSockets == {k \in Sockets : Live(k)}
Pending == {k \in Sockets : socket[k].state = "closing"}

Init ==
    /\ auth = None
    /\ request = [r \in Requests |-> Idle]
    /\ signingIn = FALSE /\ revoking = 0
    /\ issued = [s \in Sessions |-> 0] /\ expired = {}
    /\ ended = {} /\ straddled = {}
    /\ socket = [k \in Sockets |-> Closed]
    /\ current = None /\ timer = FALSE /\ forgotten = {} /\ strayed = FALSE
    /\ notified = {} /\ store = EmptyStore(Notes)
    /\ faults = 0

-----------------------------------------------------------------------------
(* What websocketMiddleware does after an action has reached the store.       *)

Opening(token) == [Closed EXCEPT !.state = "opening", !.of = token]
Unused == CHOOSE k \in Sockets : socket[k] = Closed

\* Mutant: connect() whether there is a socket or not.
ConnectAgain(token) ==
    IF token = None
      THEN UNCHANGED <<socket, current>>
      ELSE /\ \E k \in Sockets : socket[k] = Closed
           /\ socket' = [socket EXCEPT ![Unused] = Opening(token)]
           /\ current' = Unused

\* connect(): nothing while there is a socket.
Connect(token) ==
    IF current # None \/ token = None
      THEN UNCHANGED <<socket, current>>
      ELSE /\ \E k \in Sockets : socket[k] = Closed
           /\ socket' = [socket EXCEPT ![Unused] = Opening(token)]
           /\ current' = Unused

\* Mutant: the socket is forgotten and not closed.
DisconnectWithoutClose ==
    /\ current' = None
    /\ timer' = FALSE
    /\ UNCHANGED <<socket, forgotten, strayed>>

\* disconnect(): the socket is closed, its onclose is still to come.
Disconnect ==
    /\ socket' = IF current = None THEN socket
                 ELSE [socket EXCEPT ![current] = [Closed EXCEPT !.state = "closing"]]
    /\ current' = None
    /\ timer' = FALSE
    /\ UNCHANGED <<forgotten, strayed>>

SetTokens(token) ==
    /\ auth' = token
    /\ Connect(token)
    /\ UNCHANGED <<timer, forgotten, strayed>>

\* Requests that have read the refresh token, or hold a new token, of a session.
Refreshing(s) ==
    \E r \in Requests : /\ request[r].stage \in {"refreshing", "storing"}
                        /\ request[r].with.session = s

ClearAuth ==
    /\ auth' = None
    /\ IF auth = None THEN UNCHANGED <<ended, straddled>>
       ELSE /\ ended' = ended \cup {auth.session}
            /\ straddled' = straddled \cup {s \in {auth.session} : Refreshing(s)}
    /\ Disconnect

-----------------------------------------------------------------------------
(* baseQueryWithReauth. *)

Goto(r, stage, token) == request' = [request EXCEPT ![r] = [stage |-> stage, with |-> token]]

Send(r) ==
    /\ request[r] = Idle /\ auth # None
    /\ Goto(r, "sent", auth)
    /\ UNCHANGED <<auth, signingIn, revoking, issued, expired, ended, straddled,
                   socketVars, notified, store, faults>>

\* Any answer but a 401, or none.
Answered(r) ==
    /\ request[r].stage \in {"sent", "again"}
    /\ request' = [request EXCEPT ![r] = Idle]
    /\ UNCHANGED <<auth, signingIn, revoking, issued, expired, ended, straddled,
                   socketVars, notified, store, faults>>

\* Mutant: the refresh token the request was sent with.
RefreshTokenAtSend(r) == request[r].with

\* The refresh token is read when the answer is there.
RefreshToken(r) == auth

Unauthorized(r) ==
    /\ request[r].stage = "sent" /\ request[r].with \in expired
    /\ IF RefreshToken(r) = None THEN Goto(r, "clearing", None)
       ELSE Goto(r, "refreshing", RefreshToken(r))
    /\ UNCHANGED <<auth, signingIn, revoking, issued, expired, ended, straddled,
                   socketVars, notified, store, faults>>

\* The server issues the next tokens: also after a logout whose revocation failed,
\* or came later.
Refreshed(r) ==
    LET s == request[r].with.session
    IN  /\ request[r].stage = "refreshing"
        /\ \A t \in Sessions : issued[t] <= MaxExpiries
        /\ issued' = [issued EXCEPT ![s] = @ + 1]
        /\ Goto(r, "storing", Token(s, issued'[s]))
        /\ UNCHANGED <<auth, signingIn, revoking, expired, ended, straddled,
                       socketVars, notified, store, faults>>

\* It refuses, or there is no answer: both end the session of the client.
RefreshFails(r) ==
    /\ request[r].stage = "refreshing"
    /\ Goto(r, "clearing", None)
    /\ UNCHANGED <<auth, signingIn, revoking, issued, expired, ended, straddled,
                   socketVars, notified, store, faults>>

\* After await import(...): the tokens go to the store, the request is sent again.
StoreTokens(r) ==
    /\ request[r].stage = "storing"
    /\ SetTokens(request[r].with)
    /\ Goto(r, "again", request[r].with)
    /\ UNCHANGED <<signingIn, revoking, issued, expired, ended, straddled, notified,
                   store, faults>>

GiveUp(r) ==
    /\ request[r].stage = "clearing"
    /\ ClearAuth
    /\ Goto(r, "idle", None)
    /\ UNCHANGED <<signingIn, revoking, issued, expired, notified, store, faults>>

\* The services refuse a token some time after it was issued.
Expire(t) ==
    /\ t \notin expired /\ t.turn <= issued[t.session] /\ Cardinality(expired) < MaxExpiries
    /\ expired' = expired \cup {t}
    /\ UNCHANGED <<auth, request, signingIn, revoking, issued, ended, straddled,
                   socketVars, notified, store, faults>>

-----------------------------------------------------------------------------
(* login, register and logout of useAuth. *)

SignIn ==
    /\ auth = None /\ ~signingIn /\ revoking = 0
    /\ signingIn' = TRUE
    /\ UNCHANGED <<auth, request, revoking, issued, expired, ended, straddled,
                   socketVars, notified, store, faults>>

SignedIn ==
    /\ signingIn
    /\ \E s \in Sessions :
         /\ issued[s] = 0 /\ \A t \in Sessions : t < s => issued[t] > 0
         /\ issued' = [issued EXCEPT ![s] = 1]
         /\ SetTokens(Token(s, 1))
    /\ signingIn' = FALSE
    /\ UNCHANGED <<request, revoking, expired, ended, straddled, notified, store, faults>>

SignInFails ==
    /\ signingIn
    /\ signingIn' = FALSE
    /\ UNCHANGED <<auth, request, revoking, issued, expired, ended, straddled,
                   socketVars, notified, store, faults>>

\* revokeToken with the refresh token of the last rendering.
Logout ==
    /\ auth # None /\ revoking = 0
    /\ revoking' = auth.session
    /\ UNCHANGED <<auth, request, signingIn, issued, expired, ended, straddled,
                   socketVars, notified, store, faults>>

\* Whether the token was revoked or not. The notifications stay in the store.
LoggedOut ==
    /\ revoking # 0
    /\ ClearAuth
    /\ revoking' = 0
    /\ UNCHANGED <<request, signingIn, issued, expired, notified, store, faults>>

\* The page is loaded again: the tokens are read from localStorage (REHYDRATE).
Reload ==
    /\ faults < MaxFaults
    /\ faults' = faults + 1
    /\ request' = [r \in Requests |-> Idle]
    /\ signingIn' = FALSE /\ revoking' = 0
    /\ store' = EmptyStore(Notes)
    /\ timer' = FALSE /\ forgotten' = {} /\ strayed' = FALSE
    /\ \E k \in Sockets \cup {None} :
         /\ k = IF auth = None THEN None ELSE CHOOSE x \in Sockets : TRUE
         /\ socket' = [x \in Sockets |-> IF x = k THEN Opening(auth) ELSE Closed]
         /\ current' = k
    /\ UNCHANGED <<auth, issued, expired, ended, straddled, notified>>

-----------------------------------------------------------------------------
(* The handlers of a socket. *)

Opened(k) ==
    /\ socket[k].state = "opening" /\ socket[k].of \notin expired
    /\ socket' = [socket EXCEPT ![k].state = "open", ![k].initial = TRUE]
    /\ store' = WithConnection(store, TRUE)
    /\ timer' = FALSE
    /\ UNCHANGED <<auth, authVars, ended, straddled, current, forgotten, strayed, notified, faults>>

\* The server refuses an expired token; the connection is lost.
Lost(k) ==
    /\ Live(k)
    /\ \/ socket[k].state = "opening" /\ socket[k].of \in expired /\ UNCHANGED faults
       \/ faults < MaxFaults /\ faults' = faults + 1
    /\ socket' = [socket EXCEPT ![k] = [Closed EXCEPT !.state = "closing"]]
    /\ UNCHANGED <<auth, authVars, ended, straddled, current, timer, forgotten, strayed, notified, store>>

\* The live socket the middleware forgets because another one was closed.
Forgotten(k) == {x \in Sockets \ {k} : x = current /\ Live(x)}

\* Mutant: an event of a socket that was given up is ignored.
OnCloseOfCurrent(k) ==
    /\ k \in Pending
    /\ socket' = [socket EXCEPT ![k] = Closed]
    /\ IF current = k
         THEN /\ current' = None /\ timer' = (timer \/ auth # None)
              /\ store' = WithConnection(store, FALSE)
         ELSE UNCHANGED <<current, timer, store>>
    /\ UNCHANGED <<auth, authVars, ended, straddled, forgotten, strayed, notified, faults>>

\* Mutant: no reconnection.
OnCloseForGood(k) ==
    /\ k \in Pending
    /\ socket' = [socket EXCEPT ![k] = Closed]
    /\ current' = None
    /\ store' = WithConnection(store, FALSE)
    /\ UNCHANGED <<auth, authVars, ended, straddled, timer, forgotten, strayed, notified, faults>>

\* onclose: `socket` is set to null, whichever socket it was.
OnClose(k) ==
    /\ k \in Pending
    /\ socket' = [socket EXCEPT ![k] = Closed]
    /\ current' = None
    /\ forgotten' = (forgotten \ {k}) \cup Forgotten(k)
    /\ strayed' = (strayed \/ Forgotten(k) # {})
    /\ timer' = (timer \/ auth # None)
    /\ store' = WithConnection(store, FALSE)
    /\ UNCHANGED <<auth, authVars, ended, straddled, notified, faults>>

\* wsConnect, five seconds after a connection was lost.
TimerFires ==
    /\ timer
    /\ timer' = FALSE
    /\ Connect(auth)
    /\ UNCHANGED <<auth, authVars, ended, straddled, forgotten, strayed, notified, store, faults>>

\* The number sent with INITIAL_DATA is zero: the query is still to be written.
InitialData(k) ==
    /\ socket[k].state = "open" /\ socket[k].initial
    /\ socket' = [socket EXCEPT ![k].initial = FALSE]
    /\ store' = WithInitialData(store, 0)
    /\ UNCHANGED <<auth, authVars, ended, straddled, current, timer, forgotten, strayed, notified, faults>>

\* SendToUser: to every connection of the user, who is the one of a session.
\* Without one the client hears nothing of it.
Notify(n, s) ==
    /\ n \notin notified
    /\ \E k \in Sockets : socket[k].state = "open" /\ socket[k].of.session = s
    /\ notified' = notified \cup {n}
    /\ socket' = [k \in Sockets |->
                    IF socket[k].state = "open" /\ socket[k].of.session = s
                      THEN [socket[k] EXCEPT !.pushed = @ \cup {n}] ELSE socket[k]]
    /\ UNCHANGED <<auth, authVars, ended, straddled, current, timer, forgotten, strayed, store, faults>>

NewNotification(k, n) ==
    /\ socket[k].state = "open" /\ n \in socket[k].pushed
    /\ socket' = [socket EXCEPT ![k].pushed = @ \ {n}]
    /\ store' = WithNew(store, n)
    /\ UNCHANGED <<auth, authVars, ended, straddled, current, timer, forgotten, strayed, notified, faults>>

\* A click on one notification; the call of the service that follows does not
\* touch the store, and "mark all" is nothing but such a call.
MarkAsRead(n) ==
    /\ auth # None /\ n \in notified
    /\ store' = WithRead(store, n)
    /\ UNCHANGED <<auth, authVars, ended, straddled, socketVars, notified, faults>>

-----------------------------------------------------------------------------

RequestStep(r) ==
    \/ Answered(r) \/ Unauthorized(r) \/ Refreshed(r) \/ RefreshFails(r)
    \/ StoreTokens(r) \/ GiveUp(r)

SocketStep(k) == Opened(k) \/ OnClose(k) \/ InitialData(k) \/ \E n \in Notes : NewNotification(k, n)

Next ==
    \/ \E r \in Requests : Send(r) \/ RequestStep(r)
    \/ \E t \in Tokens : Expire(t)
    \/ SignIn \/ SignedIn \/ SignInFails \/ Logout \/ LoggedOut \/ Reload
    \/ \E k \in Sockets : Lost(k) \/ SocketStep(k)
    \/ TimerFires
    \/ \E n \in Notes : MarkAsRead(n) \/ \E s \in Sessions : Notify(n, s)

Spec == Init /\ [][Next]_vars

\* The browser delivers the events of the sockets and fires the timer; the
\* server accepts a valid token and closes a connection it refuses.
FairSpec == Spec /\ WF_vars(TimerFires)
                 /\ \A k \in Sockets : WF_vars(SocketStep(k))
                                       /\ WF_vars(socket[k].of \in expired /\ Lost(k))

-----------------------------------------------------------------------------
(* Properties. *)

TypeOK ==
    /\ auth \in Tokens \cup {None}
    /\ request \in [Requests -> RequestStates]
    /\ signingIn \in BOOLEAN /\ revoking \in 0 .. MaxSessions
    /\ ended \subseteq Sessions /\ straddled \subseteq ended
    /\ issued \in [Sessions -> 0 .. MaxExpiries + 1] /\ expired \subseteq Tokens
    /\ socket \in [Sockets -> [state : {"none", "opening", "open", "closing"},
                               of : Tokens \cup {None}, initial : BOOLEAN,
                               pushed : SUBSET Notes]]
    /\ current \in Sockets \cup {None} /\ timer \in BOOLEAN /\ forgotten \subseteq Sockets /\ strayed \in BOOLEAN
    /\ notified \subseteq Notes
    /\ store \in [list : [Notes -> [unread : Nat, read : Nat]], unreadCount : Nat,
                  wsConnected : BOOLEAN]

\* A session the client has signed out of comes back only through a refresh that
\* was under way at that moment. (baseQueryWithReauth stores what it gets,
\* useAuth.logout does not wait for it.)
BackOnlyByRefresh ==
    auth # None /\ auth.session \in ended => auth.session \in straddled

\* Of all sockets, old and new, only the one of the middleware is live, but for
\* those it forgot when the onclose of a socket it had given up came late.
\* (websocketMiddleware: connect, disconnect, onclose.)
OneSocket == LiveSockets \subseteq {current} \cup forgotten

\* Nobody listens with the token of a session that is over: a live socket is of
\* the session that is signed in, unless it was forgotten, or a late refresh
\* brought another session back.
SocketsOfSession ==
    straddled = {} =>
      \A k \in LiveSockets \ forgotten : auth # None /\ socket[k].of.session = auth.session

\* The pushes this page has handled and no click has marked since: the unread
\* entries of the slice's own array, which no answer of the API changes.
UnmarkedPushes(s) == UNION {{n} \X (1 .. s.list[n].unread) : n \in Notes}

\* The number on the bell counts only pushes that this page has handled and no
\* click has marked since, with connections that come and go, marks, and doubled
\* pushes. What is in the menu below it is the answer of the API, which the number
\* follows in nothing: "mark all" leaves it as it is. (notificationSlice:
\* INITIAL_DATA, NEW_NOTIFICATION, markAsRead.)
BadgeOfUnmarkedPushes == store.unreadCount <= Cardinality(UnmarkedPushes(store))

\* A notification is in the list of the slice once, unless a socket was forgotten and its
\* push came twice.
ListedOnce ==
    ~strayed => \A n \in Notes : store.list[n].unread + store.list[n].read <= 1

\* When every onclose was handled, the client that says it is connected is.
ConnectedIsOpen ==
    Pending = {} /\ store.wsConnected => \E k \in Sockets : socket[k].state = "open"

\* Whoever is signed in with a valid token is connected in the end, or signs out.
Reconnects ==
    auth # None ~> (auth = None \/ auth \in expired \/ \E k \in Sockets : socket[k].state = "open")
=============================================================================
