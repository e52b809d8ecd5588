--------------------------- MODULE WebSession_proofs ---------------------------
(* Proofs about the session of the web client: for any requests, sockets,     *)
(* notifications and bounds.                                                  *)
EXTENDS WebSession, FiniteSetTheorems, TLAPS

-----------------------------------------------------------------------------
(* Type correctness, in the three parts the steps disturb.                    *)

SocketStates == [state : {"none", "opening", "open", "closing"}, of : Tokens \cup {None},
                 initial : BOOLEAN, pushed : SUBSET Notes]

StoreStates == [list : [Notes -> [unread : Nat, read : Nat]], unreadCount : Nat,
                wsConnected : BOOLEAN]

SocketsOK ==
    /\ socket \in [Sockets -> SocketStates]
    /\ current \in Sockets \cup {None} /\ timer \in BOOLEAN
    /\ forgotten \subseteq Sockets /\ strayed \in BOOLEAN

RequestsOK == request \in [Requests -> RequestStates]

StoreOK == store \in StoreStates /\ notified \subseteq Notes

LEMMA ClosedType == Closed \in SocketStates
BY DEF Closed, SocketStates

LEMMA OpeningType ==
    ASSUME NEW t \in Tokens \cup {None}
    PROVE  /\ Opening(t) \in SocketStates
           /\ Opening(t).state = "opening" /\ Opening(t).of = t /\ Opening(t).pushed = {}
BY DEF Opening, Closed, SocketStates

LEMMA IdleType == Idle \in RequestStates
BY DEF Idle, RequestStates, Stages

\* What connect() does: nothing, or it opens a socket that was not in use.
LEMMA ConnectEffect ==
    ASSUME SocketsOK, NEW t \in Tokens \cup {None}, Connect(t)
    PROVE  \/ (current # None \/ t = None) /\ UNCHANGED <<socket, current>>
           \/ /\ current = None /\ t # None
              /\ current' \in Sockets /\ socket[current'] = Closed
              /\ socket' = [socket EXCEPT ![current'] = Opening(t)]
<1>1. CASE current # None \/ t = None
  BY <1>1 DEF Connect
<1>2. CASE ~(current # None \/ t = None)
  <2>1. \E k \in Sockets : socket[k] = Closed
    BY <1>2 DEF Connect
  <2>2. Unused \in Sockets /\ socket[Unused] = Closed
    BY <2>1 DEF Unused
  <2> QED
    BY <1>2, <2>2 DEF Connect
<1> QED
  BY <1>1, <1>2

LEMMA ConnectType ==
    ASSUME SocketsOK, NEW t \in Tokens \cup {None}, Connect(t),
           UNCHANGED <<forgotten, strayed>>, timer' \in BOOLEAN
    PROVE  SocketsOK'
<1>1. Opening(t) \in SocketStates
  BY OpeningType
<1> QED
  BY <1>1, ConnectEffect DEF SocketsOK

LEMMA DisconnectType ==
    ASSUME SocketsOK, Disconnect
    PROVE  SocketsOK'
<1>1. [Closed EXCEPT !.state = "closing"] \in SocketStates
  BY DEF Closed, SocketStates
<1> QED
  BY <1>1 DEF Disconnect, SocketsOK

LEMMA ClearAuthType ==
    ASSUME TypeOK, SocketsOK, ClearAuth
    PROVE  /\ SocketsOK' /\ auth' = None
           /\ ended' \subseteq Sessions /\ straddled' \subseteq ended'
<1>1. SocketsOK'
  BY DisconnectType DEF ClearAuth
<1>2. CASE auth = None
  BY <1>1, <1>2 DEF ClearAuth, TypeOK
<1>3. CASE auth # None
  <2>1. auth.session \in Sessions
    BY <1>3 DEF TypeOK, Tokens
  <2> QED
    BY <1>1, <1>3, <2>1 DEF ClearAuth, TypeOK
<1> QED
  BY <1>2, <1>3

LEMMA GotoType ==
    ASSUME RequestsOK, NEW r, NEW s \in Stages, NEW t \in Tokens \cup {None},
           t = None <=> s \in {"idle", "clearing"}, Goto(r, s, t)
    PROVE  RequestsOK'
BY DEF RequestsOK, Goto, RequestStates

LEMMA StoreSteps ==
    ASSUME NEW s \in StoreStates, NEW n \in Notes
    PROVE  WithNew(s, n) \in StoreStates /\ WithRead(s, n) \in StoreStates
<1>1. WithNew(s, n) \in StoreStates
  <2>1. [unread |-> s.list[n].unread + 1, read |-> s.list[n].read] \in [unread : Nat, read : Nat]
    BY DEF StoreStates
  <2>2. s.unreadCount + 1 \in Nat
    BY DEF StoreStates
  <2> QED
    BY <2>1, <2>2 DEF WithNew, StoreStates
<1>2. Less(s.unreadCount, s.list[n].unread) \in Nat
  BY DEF Less, StoreStates
<1>3. [unread |-> 0, read |-> s.list[n].unread + s.list[n].read] \in [unread : Nat, read : Nat]
  BY DEF StoreStates
<1>4. WithRead(s, n) \in StoreStates
  BY <1>2, <1>3 DEF WithRead, StoreStates
<1> QED
  BY <1>1, <1>4

LEMMA StoreConnection ==
    ASSUME NEW s \in StoreStates, NEW b \in BOOLEAN
    PROVE  WithInitialData(s, 0) \in StoreStates /\ WithConnection(s, b) \in StoreStates
BY DEF WithInitialData, WithConnection, StoreStates

LEMMA EmptyStoreType == EmptyStore(Notes) \in StoreStates
BY DEF EmptyStore, NoEntries, StoreStates

TheRest ==
    /\ auth \in Tokens \cup {None}
    /\ signingIn \in BOOLEAN /\ revoking \in 0 .. MaxSessions
    /\ ended \subseteq Sessions /\ straddled \subseteq ended
    /\ issued \in [Sessions -> 0 .. MaxExpiries + 1] /\ expired \subseteq Tokens

LEMMA TypeParts == TypeOK <=> TheRest /\ RequestsOK /\ SocketsOK /\ StoreOK
BY DEF TypeOK, TheRest, RequestsOK, RequestStates, SocketsOK, SocketStates, StoreOK, StoreStates

LEMMA Types == TypeOK => TheRest /\ RequestsOK /\ SocketsOK /\ StoreOK
BY TypeParts

LEMMA TypesNext == TheRest' /\ RequestsOK' /\ SocketsOK' /\ StoreOK' => TypeOK'
BY TypeParts, PTL

LEMMA RequestType ==
    ASSUME RequestsOK, NEW r \in Requests
    PROVE  /\ request[r].stage \in Stages /\ request[r].with \in Tokens \cup {None}
           /\ request[r].with = None <=> request[r].stage \in {"idle", "clearing"}
BY DEF RequestsOK, RequestStates

LEMMA SocketType ==
    ASSUME SocketsOK, NEW k \in Sockets
    PROVE  socket[k] \in SocketStates
BY DEF SocketsOK

LEMMA TypeInit == Init => TypeOK
<1> SUFFICES ASSUME Init PROVE TypeOK
  OBVIOUS
<1>1. RequestsOK
  BY IdleType DEF Init, RequestsOK
<1>2. SocketsOK
  BY ClosedType DEF Init, SocketsOK
<1>3. StoreOK
  BY EmptyStoreType DEF Init, StoreOK
<1>4. 0 \in 0 .. MaxSessions /\ 0 \in 0 .. MaxExpiries + 1
  BY BoundsAreNumbers
<1>5. TheRest
  BY <1>4 DEF Init, TheRest
<1> QED
  BY <1>1, <1>2, <1>3, <1>5, TypeParts

\* The steps of a request.
LEMMA TypeRequest ==
    ASSUME TypeOK, NEW r \in Requests, Send(r) \/ RequestStep(r)
    PROVE  TypeOK'
<1> USE DEF authVars, socketVars
<1>0. TheRest /\ RequestsOK /\ SocketsOK /\ StoreOK
  BY Types
<1>1. CASE Send(r)
  <2>1. RequestsOK'
    BY <1>0, <1>1, GotoType DEF Send, Stages, TheRest
  <2> QED
    BY <1>0, <1>1, <2>1, TypesNext DEF Send, TheRest, SocketsOK, StoreOK
<1>2. CASE Answered(r)
  <2>1. RequestsOK'
    BY <1>0, <1>2, IdleType DEF Answered, RequestsOK
  <2> QED
    BY <1>0, <1>2, <2>1, TypesNext DEF Answered, TheRest, SocketsOK, StoreOK
<1>3. CASE Unauthorized(r)
  <2>1. RequestsOK'
    BY <1>0, <1>3, GotoType DEF Unauthorized, RefreshToken, Stages, TheRest
  <2> QED
    BY <1>0, <1>3, <2>1, TypesNext DEF Unauthorized, TheRest, SocketsOK, StoreOK
<1>4. CASE RefreshFails(r)
  <2>1. RequestsOK'
    BY <1>0, <1>4, GotoType DEF RefreshFails, Stages
  <2> QED
    BY <1>0, <1>4, <2>1, TypesNext DEF RefreshFails, TheRest, SocketsOK, StoreOK
<1>5. CASE StoreTokens(r)
  <2>1. request[r].with \in Tokens
    BY <1>0, <1>5, RequestType DEF StoreTokens
  <2>2. RequestsOK'
    BY <1>0, <1>5, <2>1, GotoType, NoneIsNothing DEF StoreTokens, Stages
  <2>3. SocketsOK'
    BY <1>0, <1>5, <2>1, ConnectType DEF StoreTokens, SetTokens, SocketsOK
  <2>4. TheRest'
    BY <1>0, <1>5, <2>1 DEF StoreTokens, SetTokens, TheRest
  <2> QED
    BY <1>0, <1>5, <2>2, <2>3, <2>4, TypesNext DEF StoreTokens, StoreOK
<1>6. CASE GiveUp(r)
  <2>1. RequestsOK'
    BY <1>0, <1>6, GotoType DEF GiveUp, Stages
  <2>2. SocketsOK' /\ auth' = None /\ ended' \subseteq Sessions /\ straddled' \subseteq ended'
    BY <1>0, <1>6, ClearAuthType DEF GiveUp
  <2> QED
    BY <1>0, <1>6, <2>1, <2>2, TypesNext DEF GiveUp, TheRest, StoreOK
<1>7. CASE Refreshed(r)
  <2> DEFINE s == request[r].with.session
             t == Token(s, issued'[s])
  <2>1. request[r].with \in Tokens
    BY <1>0, <1>7, RequestType DEF Refreshed
  <2>2. s \in Sessions /\ issued[s] \in Nat /\ issued[s] <= MaxExpiries
    BY <1>0, <1>7, <2>1, BoundsAreNumbers DEF Refreshed, Tokens, TheRest
  <2>3. issued' = [issued EXCEPT ![s] = issued[s] + 1]
    BY <1>7 DEF Refreshed
  <2>4. issued[s] + 1 \in 1 .. MaxExpiries + 1 /\ issued[s] + 1 \in 0 .. MaxExpiries + 1
    BY <2>2, BoundsAreNumbers
  <2>5. issued' \in [Sessions -> 0 .. MaxExpiries + 1] /\ issued'[s] = issued[s] + 1
    BY <1>0, <2>2, <2>3, <2>4 DEF TheRest
  <2>6. t \in Tokens
    BY <2>2, <2>4, <2>5 DEF Token, Tokens
  <2>7. Goto(r, "storing", t)
    BY <1>7 DEF Refreshed
  <2>8. RequestsOK'
    BY <1>0, <2>6, <2>7, GotoType, NoneIsNothing DEF Stages
  <2> QED
    BY <1>0, <1>7, <2>5, <2>8, TypesNext DEF Refreshed, TheRest, SocketsOK, StoreOK
<1> QED
  BY <1>1, <1>2, <1>3, <1>4, <1>5, <1>6, <1>7 DEF RequestStep

\* Signing in and out, the clock, the page.
LEMMA TypeUser ==
    ASSUME TypeOK,
           \/ SignIn \/ SignedIn \/ SignInFails \/ Logout \/ LoggedOut \/ Reload
           \/ \E t \in Tokens : Expire(t)
    PROVE  TypeOK'
<1> USE DEF authVars, socketVars
<1>0. TheRest /\ RequestsOK /\ SocketsOK /\ StoreOK
  BY Types
<1>1. CASE SignIn
  BY <1>0, <1>1, TypesNext DEF SignIn, TheRest, RequestsOK, SocketsOK, StoreOK
<1>2. CASE SignedIn
  <2>1. PICK s \in Sessions : /\ issued' = [issued EXCEPT ![s] = 1]
                              /\ SetTokens(Token(s, 1))
    BY <1>2 DEF SignedIn
  <2>2. Token(s, 1) \in Tokens /\ 1 \in 0 .. MaxExpiries + 1
    BY BoundsAreNumbers DEF Token, Tokens
  <2>3. SocketsOK'
    BY <1>0, <2>1, <2>2, ConnectType DEF SetTokens, SocketsOK
  <2>4. TheRest'
    BY <1>0, <1>2, <2>1, <2>2 DEF SignedIn, SetTokens, TheRest
  <2> QED
    BY <1>0, <1>2, <2>3, <2>4, TypesNext DEF SignedIn, RequestsOK, StoreOK
<1>3. CASE SignInFails
  BY <1>0, <1>3, TypesNext DEF SignInFails, TheRest, RequestsOK, SocketsOK, StoreOK
<1>4. CASE Logout
  <2>1. auth.session \in 0 .. MaxSessions
    BY <1>0, <1>4, BoundsAreNumbers DEF Logout, TheRest, Tokens, Sessions
  <2> QED
    BY <1>0, <1>4, <2>1, TypesNext DEF Logout, TheRest, RequestsOK, SocketsOK, StoreOK
<1>5. CASE LoggedOut
  <2>1. SocketsOK' /\ auth' = None /\ ended' \subseteq Sessions /\ straddled' \subseteq ended'
    BY <1>0, <1>5, ClearAuthType DEF LoggedOut
  <2>2. 0 \in 0 .. MaxSessions
    BY BoundsAreNumbers
  <2> QED
    BY <1>0, <1>5, <2>1, <2>2, TypesNext DEF LoggedOut, TheRest, RequestsOK, StoreOK
<1>6. CASE Reload
  <2>1. RequestsOK'
    BY <1>0, <1>6, IdleType DEF Reload, RequestsOK
  <2>2. StoreOK'
    BY <1>0, <1>6, EmptyStoreType DEF Reload, StoreOK
  <2>3. PICK k \in Sockets \cup {None} :
          /\ socket' = [x \in Sockets |-> IF x = k THEN Opening(auth) ELSE Closed]
          /\ current' = k
    BY <1>6 DEF Reload
  <2>4. Opening(auth) \in SocketStates
    BY <1>0, OpeningType DEF TheRest
  <2>5. SocketsOK'
    BY <1>6, <2>3, <2>4, ClosedType DEF Reload, SocketsOK
  <2>6. 0 \in 0 .. MaxSessions
    BY BoundsAreNumbers
  <2> QED
    BY <1>0, <1>6, <2>1, <2>2, <2>5, <2>6, TypesNext DEF Reload, TheRest
<1>7. ASSUME NEW t \in Tokens, Expire(t) PROVE TypeOK'
  BY <1>0, <1>7, TypesNext DEF Expire, TheRest, RequestsOK, SocketsOK, StoreOK
<1> QED
  BY <1>1, <1>2, <1>3, <1>4, <1>5, <1>6, <1>7

\* The events of the sockets, and what they do to the notifications.
LEMMA TypeSocket ==
    ASSUME TypeOK,
           \/ \E k \in Sockets : Lost(k) \/ SocketStep(k)
           \/ TimerFires
           \/ \E n \in Notes : MarkAsRead(n) \/ \E s \in Sessions : Notify(n, s)
    PROVE  TypeOK'
<1> USE DEF authVars, socketVars
<1>0. TheRest /\ RequestsOK /\ SocketsOK /\ StoreOK
  BY Types
<1>1. ASSUME NEW k \in Sockets, Opened(k) PROVE TypeOK'
  <2>1. [socket[k] EXCEPT !.state = "open", !.initial = TRUE] \in SocketStates
    BY <1>0, SocketType DEF SocketStates
  <2>2. SocketsOK'
    BY <1>0, <1>1, <2>1 DEF Opened, SocketsOK
  <2>3. StoreOK'
    BY <1>0, <1>1, StoreConnection DEF Opened, StoreOK
  <2> QED
    BY <1>0, <1>1, <2>2, <2>3, TypesNext DEF Opened, TheRest, RequestsOK
<1>2. ASSUME NEW k \in Sockets, Lost(k) PROVE TypeOK'
  <2>1. [Closed EXCEPT !.state = "closing"] \in SocketStates
    BY DEF Closed, SocketStates
  <2> QED
    BY <1>0, <1>2, <2>1, TypesNext DEF Lost, TheRest, RequestsOK, SocketsOK, StoreOK
<1>3. ASSUME NEW k \in Sockets, OnClose(k) PROVE TypeOK'
  <2>1. SocketsOK'
    BY <1>0, <1>3, ClosedType DEF OnClose, Forgotten, SocketsOK
  <2>2. StoreOK'
    BY <1>0, <1>3, StoreConnection DEF OnClose, StoreOK
  <2> QED
    BY <1>0, <1>3, <2>1, <2>2, TypesNext DEF OnClose, TheRest, RequestsOK
<1>4. ASSUME NEW k \in Sockets, InitialData(k) PROVE TypeOK'
  <2>1. [socket[k] EXCEPT !.initial = FALSE] \in SocketStates
    BY <1>0, SocketType DEF SocketStates
  <2>2. SocketsOK' /\ StoreOK'
    BY <1>0, <1>4, <2>1, StoreConnection DEF InitialData, SocketsOK, StoreOK
  <2> QED
    BY <1>0, <1>4, <2>2, TypesNext DEF InitialData, TheRest, RequestsOK
<1>5. ASSUME NEW k \in Sockets, NEW n \in Notes, NewNotification(k, n) PROVE TypeOK'
  <2>1. [socket[k] EXCEPT !.pushed = @ \ {n}] \in SocketStates
    BY <1>0, SocketType DEF SocketStates
  <2>2. SocketsOK' /\ StoreOK'
    BY <1>0, <1>5, <2>1, StoreSteps DEF NewNotification, SocketsOK, StoreOK
  <2> QED
    BY <1>0, <1>5, <2>2, TypesNext DEF NewNotification, TheRest, RequestsOK
<1>6. CASE TimerFires
  <2>1. SocketsOK'
    BY <1>0, <1>6, ConnectType DEF TimerFires, TheRest
  <2> QED
    BY <1>0, <1>6, <2>1, TypesNext DEF TimerFires, TheRest, RequestsOK, StoreOK
<1>7. ASSUME NEW n \in Notes, MarkAsRead(n) PROVE TypeOK'
  <2>1. StoreOK'
    BY <1>0, <1>7, StoreSteps DEF MarkAsRead, StoreOK
  <2> QED
    BY <1>0, <1>7, <2>1, TypesNext DEF MarkAsRead, TheRest, RequestsOK, SocketsOK
<1>8. ASSUME NEW n \in Notes, NEW s \in Sessions, Notify(n, s) PROVE TypeOK'
  <2>1. \A k \in Sockets : [socket[k] EXCEPT !.pushed = @ \cup {n}] \in SocketStates
    BY <1>0, SocketType DEF SocketStates
  <2>2. SocketsOK'
    BY <1>0, <1>8, <2>1 DEF Notify, SocketsOK
  <2> QED
    BY <1>0, <1>8, <2>2, TypesNext DEF Notify, TheRest, RequestsOK, StoreOK
<1> QED
  BY <1>1, <1>2, <1>3, <1>4, <1>5, <1>6, <1>7, <1>8 DEF SocketStep

LEMMA TypeStep == TypeOK /\ [Next]_vars => TypeOK'
<1> SUFFICES ASSUME TypeOK, [Next]_vars PROVE TypeOK'
  OBVIOUS
<1>1. CASE UNCHANGED vars
  BY <1>1, BoundsAreNumbers DEF vars, authVars, socketVars, TypeOK
<1>2. CASE Next
  BY <1>2, TypeRequest, TypeUser, TypeSocket DEF Next
<1> QED
  BY <1>1, <1>2

(* Every reachable state of the client has its type.                          *)
THEOREM SessionTypeCorrect == Spec => []TypeOK
BY TypeInit, TypeStep, PTL DEF Spec

-----------------------------------------------------------------------------
(* Who is signed in: a session that is over comes back only through a request *)
(* that was refreshing it then.                                               *)

\* A session that is in use was issued, and is not over unless it was straddled.
InUse(s) == s \in Sessions /\ issued[s] > 0 /\ (s \in ended => s \in straddled)

SessionsOK ==
    /\ auth # None => InUse(auth.session)
    /\ \A r \in Requests : request[r].stage \in {"refreshing", "storing"}
                             => InUse(request[r].with.session)
    /\ \A s \in ended : issued[s] > 0

LEMMA AuthType == TypeOK /\ auth # None => auth \in Tokens /\ auth.session \in Sessions
BY DEF TypeOK, Tokens

LEMMA RefreshingType ==
    ASSUME TypeOK, NEW r \in Requests, request[r].stage \notin {"idle", "clearing"}
    PROVE  request[r].with \in Tokens /\ request[r].with.session \in Sessions
BY DEF TypeOK, RequestStates, Tokens

LEMMA SessionsInit == Init => SessionsOK
BY DEF Init, SessionsOK, Idle

\* Of the sessions that are in use, clearAuth ends only those it straddles,
\* but for the one nobody refreshes.
LEMMA SessionsClear ==
    ASSUME TypeOK, SessionsOK, ClearAuth, UNCHANGED issued,
           \A r \in Requests : request'[r].stage \in {"refreshing", "storing"}
                                 => request'[r] = request[r]
    PROVE  SessionsOK'
<1>1. CASE auth = None
  BY <1>1 DEF ClearAuth, SessionsOK, InUse
<1>2. CASE auth # None
  <2>1. /\ ended' = ended \cup {auth.session}
        /\ straddled' = straddled \cup {s \in {auth.session} : Refreshing(s)}
        /\ auth' = None
    BY <1>2 DEF ClearAuth
  <2>2. ASSUME NEW r \in Requests, request'[r].stage \in {"refreshing", "storing"}
        PROVE  InUse(request[r].with.session)'
    <3>1. request[r].stage \in {"refreshing", "storing"} /\ request'[r] = request[r]
      BY <2>2
    <3>2. InUse(request[r].with.session)
      BY <3>1 DEF SessionsOK
    <3>3. request[r].with.session = auth.session => Refreshing(auth.session)
      BY <3>1 DEF Refreshing
    <3> QED
      BY <2>1, <3>1, <3>2, <3>3 DEF InUse
  <2>3. \A s \in ended' : issued'[s] > 0
    BY <1>2, <2>1 DEF SessionsOK, InUse
  <2> QED
    BY <2>1, <2>2, <2>3 DEF SessionsOK
<1> QED
  BY <1>1, <1>2

\* Steps that end no session and sign nobody in.
LEMMA SessionsKept ==
    ASSUME TypeOK, SessionsOK, UNCHANGED <<auth, issued, ended, straddled>>,
           \A r \in Requests : request'[r].stage \in {"refreshing", "storing"}
                                 => request'[r] = request[r]
    PROVE  SessionsOK'
<1>1. \A s : InUse(s) <=> InUse(s)'
  BY DEF InUse
<1>2. ASSUME NEW r \in Requests, request'[r].stage \in {"refreshing", "storing"}
      PROVE  InUse(request[r].with.session)'
  BY <1>1, <1>2 DEF SessionsOK, InUse
<1> QED
  BY <1>1, <1>2 DEF SessionsOK, InUse

LEMMA SessionsStep == TypeOK /\ SessionsOK /\ [Next]_vars => SessionsOK'
<1> SUFFICES ASSUME TypeOK, SessionsOK, [Next]_vars PROVE SessionsOK'
  OBVIOUS
<1> USE DEF authVars, socketVars
<1>r. \A r \in Requests : request[r] \in RequestStates
  BY DEF TypeOK
<1>1. ASSUME NEW r \in Requests, Send(r) PROVE SessionsOK'
  <2>1. request' = [request EXCEPT ![r] = [stage |-> "sent", with |-> auth]]
    BY <1>1 DEF Send, Goto
  <2>2. \A x \in Requests : request'[x].stage \in {"refreshing", "storing"}
                              => request'[x] = request[x]
    BY <2>1 DEF TypeOK
  <2> QED
    BY <1>1, <2>2, SessionsKept DEF Send
<1>2. ASSUME NEW r \in Requests, Answered(r) PROVE SessionsOK'
  <2>1. \A x \in Requests : request'[x].stage \in {"refreshing", "storing"}
                              => request'[x] = request[x]
    BY <1>2 DEF Answered, Idle, TypeOK
  <2> QED
    BY <1>2, <2>1, SessionsKept DEF Answered
<1>3. ASSUME NEW r \in Requests, Unauthorized(r) PROVE SessionsOK'
  <2>1. CASE auth = None
    <3>1. request' = [request EXCEPT ![r] = [stage |-> "clearing", with |-> None]]
      BY <1>3, <2>1 DEF Unauthorized, RefreshToken, Goto
    <3>2. \A x \in Requests : request'[x].stage \in {"refreshing", "storing"}
                                => request'[x] = request[x]
      BY <3>1 DEF TypeOK
    <3> QED
      BY <1>3, <3>2, SessionsKept DEF Unauthorized
  <2>2. CASE auth # None
    <3>1. request' = [request EXCEPT ![r] = [stage |-> "refreshing", with |-> auth]]
      BY <1>3, <2>2 DEF Unauthorized, RefreshToken, Goto
    <3>2. \A x \in Requests : request'[x] = request[x] \/ request'[x].with = auth
      BY <3>1 DEF TypeOK
    <3>3. \A x \in Requests \ {r} : request'[x] = request[x]
      BY <3>1 DEF TypeOK
    <3>4. request'[r].with = auth
      BY <3>1 DEF TypeOK
    <3> QED
      BY <1>3, <2>2, <3>3, <3>4 DEF Unauthorized, SessionsOK, InUse
  <2> QED
    BY <2>1, <2>2
<1>4. ASSUME NEW r \in Requests, Refreshed(r) PROVE SessionsOK'
  <2> DEFINE s == request[r].with.session
             t == Token(s, issued'[s])
  <2>1. s \in Sessions /\ InUse(s)
    BY <1>4, RefreshingType DEF Refreshed, SessionsOK
  <2>2. request' = [request EXCEPT ![r] = [stage |-> "storing", with |-> t]]
    BY <1>4 DEF Refreshed, Goto
  <2>3. \A x \in Requests \ {r} : request'[x] = request[x]
    BY <2>2 DEF TypeOK
  <2>4. request'[r].with = t /\ t.session = s
    BY <2>2 DEF TypeOK, Token
  <2>5. issued' = [issued EXCEPT ![s] = issued[s] + 1]
    BY <1>4 DEF Refreshed
  <2>6. \A x \in Sessions : issued[x] \in Nat /\ (issued[x] > 0 => issued'[x] > 0)
    BY <2>1, <2>5, BoundsAreNumbers DEF TypeOK
  <2>7. \A x : InUse(x) => InUse(x)'
    BY <1>4, <2>6 DEF Refreshed, InUse
  <2>8. \A x \in ended' : issued'[x] > 0
    BY <1>4, <2>6 DEF Refreshed, SessionsOK, TypeOK
  <2>9. ASSUME NEW x \in Requests, request'[x].stage \in {"refreshing", "storing"}
        PROVE  InUse(request[x].with.session)'
    <3>1. CASE x = r
      BY <3>1, <2>1, <2>4, <2>7 DEF InUse
    <3>2. CASE x # r
      BY <3>2, <2>3, <2>7, <2>9 DEF SessionsOK, InUse
    <3> QED
      BY <3>1, <3>2
  <2> QED
    BY <1>4, <2>7, <2>8, <2>9 DEF Refreshed, SessionsOK, InUse
<1>5. ASSUME NEW r \in Requests, RefreshFails(r) PROVE SessionsOK'
  <2>1. request' = [request EXCEPT ![r] = [stage |-> "clearing", with |-> None]]
    BY <1>5 DEF RefreshFails, Goto
  <2>2. \A x \in Requests : request'[x].stage \in {"refreshing", "storing"}
                              => request'[x] = request[x]
    BY <2>1 DEF TypeOK
  <2> QED
    BY <1>5, <2>2, SessionsKept DEF RefreshFails
<1>6. ASSUME NEW r \in Requests, StoreTokens(r) PROVE SessionsOK'
  <2>1. InUse(request[r].with.session)
    BY <1>6 DEF StoreTokens, SessionsOK
  <2>2. auth' = request[r].with
    BY <1>6 DEF StoreTokens, SetTokens
  <2>3. request' = [request EXCEPT ![r] = [stage |-> "again", with |-> request[r].with]]
    BY <1>6 DEF StoreTokens, Goto
  <2>4. \A x \in Requests : request'[x].stage \in {"refreshing", "storing"}
                              => request'[x] = request[x]
    BY <2>3 DEF TypeOK
  <2> QED
    BY <1>6, <2>1, <2>2, <2>4 DEF StoreTokens, SessionsOK, InUse
<1>7. ASSUME NEW r \in Requests, GiveUp(r) PROVE SessionsOK'
  <2>1. request' = [request EXCEPT ![r] = [stage |-> "idle", with |-> None]]
    BY <1>7 DEF GiveUp, Goto
  <2>2. \A x \in Requests : request'[x].stage \in {"refreshing", "storing"}
                              => request'[x] = request[x]
    BY <2>1 DEF TypeOK
  <2> QED
    BY <1>7, <2>2, SessionsClear DEF GiveUp
<1>8. CASE SignedIn
  <2>1. PICK s \in Sessions : /\ issued[s] = 0
                              /\ issued' = [issued EXCEPT ![s] = 1]
                              /\ SetTokens(Token(s, 1))
    BY <1>8 DEF SignedIn
  <2>2. auth' = Token(s, 1) /\ Token(s, 1).session = s
    BY <2>1 DEF SetTokens, Token
  <2>3. s \notin ended /\ issued'[s] = 1 /\ \A x \in Sessions \ {s} : issued'[x] = issued[x]
    BY <2>1 DEF SessionsOK, TypeOK
  <2>4. \A x : InUse(x) => InUse(x)'
    BY <1>8, <2>1, <2>3 DEF SignedIn, InUse
  <2>5. InUse(s)'
    BY <1>8, <2>3 DEF SignedIn, InUse
  <2> QED
    BY <1>8, <2>1, <2>2, <2>3, <2>4, <2>5 DEF SignedIn, SessionsOK, InUse
<1>9. CASE LoggedOut
  BY <1>9, SessionsClear DEF LoggedOut
<1>10. CASE Reload
  <2>1. \A x \in Requests : request'[x].stage \notin {"refreshing", "storing"}
    BY <1>10 DEF Reload, Idle
  <2> QED
    BY <1>10, <2>1, SessionsKept DEF Reload
<1>11. CASE SignIn \/ SignInFails \/ Logout \/ TimerFires \/ UNCHANGED vars
  BY <1>11, SessionsKept DEF SignIn, SignInFails, Logout, TimerFires, vars
<1>12. ASSUME NEW t \in Tokens, Expire(t) PROVE SessionsOK'
  BY <1>12, SessionsKept DEF Expire
<1>13. ASSUME NEW k \in Sockets, Lost(k) \/ SocketStep(k) PROVE SessionsOK'
  BY <1>13, SessionsKept DEF Lost, SocketStep, Opened, OnClose, InitialData, NewNotification
<1>14. ASSUME NEW n \in Notes, MarkAsRead(n) \/ \E s \in Sessions : Notify(n, s)
       PROVE  SessionsOK'
  BY <1>14, SessionsKept DEF MarkAsRead, Notify
<1> QED
  BY <1>1, <1>2, <1>3, <1>4, <1>5, <1>6, <1>7, <1>8, <1>9, <1>10, <1>11, <1>12, <1>13, <1>14
     DEF Next, RequestStep

(* Whatever is refreshed, refused or late: a session the client has signed    *)
(* out of comes back only through a refresh that was under way then.          *)
THEOREM SessionBackOnlyByRefresh == Spec => []BackOnlyByRefresh
<1>1. Spec => []SessionsOK
  BY SessionTypeCorrect, SessionsInit, SessionsStep, PTL DEF Spec
<1>2. SessionsOK => BackOnlyByRefresh
  BY DEF SessionsOK, InUse, BackOnlyByRefresh
<1> QED
  BY <1>1, <1>2, PTL

-----------------------------------------------------------------------------
(* The sockets: one for the middleware, and those it has lost sight of.       *)

LEMMA OneSocketInit == Init => OneSocket
BY DEF Init, OneSocket, LiveSockets, Live, Closed

\* Steps that bring no socket to life.
LEMMA OneSocketKept ==
    ASSUME OneSocket, UNCHANGED <<current, forgotten>>,
           \A k \in Sockets : Live(k)' => Live(k)
    PROVE  OneSocket'
BY DEF OneSocket, LiveSockets

LEMMA OneSocketConnect ==
    ASSUME TypeOK, OneSocket, NEW t \in Tokens \cup {None}, Connect(t), UNCHANGED forgotten
    PROVE  OneSocket'
<1>1. SocketsOK
  BY Types
<1>2. CASE UNCHANGED <<socket, current>>
  BY <1>2, OneSocketKept DEF Live
<1>3. CASE /\ current = None /\ current' \in Sockets
           /\ socket' = [socket EXCEPT ![current'] = Opening(t)]
  <2>1. \A k \in Sockets \ {current'} : socket'[k] = socket[k]
    BY <1>1, <1>3 DEF SocketsOK
  <2>2. ASSUME NEW k \in Sockets, Live(k)', k # current' PROVE k \in forgotten
    <3>1. Live(k)
      BY <2>1, <2>2 DEF Live
    <3> QED
      BY <1>3, <3>1, NoneIsNothing DEF OneSocket, LiveSockets
  <2> QED
    BY <2>2 DEF OneSocket, LiveSockets
<1> QED
  BY <1>1, <1>2, <1>3, ConnectEffect

LEMMA OneSocketDisconnect ==
    ASSUME TypeOK, OneSocket, Disconnect
    PROVE  OneSocket'
<1>1. SocketsOK
  BY Types
<1>2. CASE current = None
  BY <1>2, OneSocketKept DEF Disconnect, Live
<1>3. CASE current # None
  <2>1. /\ current \in Sockets /\ current' = None /\ forgotten' = forgotten
        /\ socket' = [socket EXCEPT ![current] = [Closed EXCEPT !.state = "closing"]]
    BY <1>1, <1>3 DEF Disconnect, SocketsOK
  <2>2. socket'[current].state = "closing" /\ \A k \in Sockets \ {current} : socket'[k] = socket[k]
    BY <1>1, <2>1 DEF SocketsOK, Closed
  <2>3. ASSUME NEW k \in Sockets, Live(k)' PROVE Live(k) /\ k # current
    BY <2>2, <2>3 DEF Live
  <2> QED
    BY <2>1, <2>3 DEF OneSocket, LiveSockets
<1> QED
  BY <1>2, <1>3

\* The events of a socket touch no other one, and bring none to life.
LEMMA SocketEvents ==
    ASSUME SocketsOK, NEW k \in Sockets,
           Opened(k) \/ Lost(k) \/ InitialData(k) \/ \E n \in Notes : NewNotification(k, n)
    PROVE  /\ \A x \in Sockets \ {k} : socket'[x] = socket[x]
           /\ Live(k) /\ (Live(k)' => socket'[k].of = socket[k].of)
<1>0. socket[k] \in SocketStates
  BY SocketType
<1>1. CASE Opened(k)
  <2>1. socket' = [socket EXCEPT ![k] = [socket[k] EXCEPT !.state = "open", !.initial = TRUE]]
    BY <1>1 DEF Opened, SocketsOK
  <2> QED
    BY <1>0, <1>1, <2>1 DEF Opened, SocketsOK, SocketStates, Live
<1>2. CASE Lost(k)
  BY <1>2 DEF Lost, SocketsOK, Closed, Live
<1>3. CASE InitialData(k)
  <2>1. socket' = [socket EXCEPT ![k] = [socket[k] EXCEPT !.initial = FALSE]]
    BY <1>3 DEF InitialData, SocketsOK
  <2> QED
    BY <1>0, <1>3, <2>1 DEF InitialData, SocketsOK, SocketStates, Live
<1>4. ASSUME NEW n \in Notes, NewNotification(k, n)
      PROVE  /\ \A x \in Sockets \ {k} : socket'[x] = socket[x]
             /\ Live(k) /\ socket'[k].of = socket[k].of
  <2>1. socket' = [socket EXCEPT ![k] = [socket[k] EXCEPT !.pushed = socket[k].pushed \ {n}]]
    BY <1>4 DEF NewNotification, SocketsOK
  <2> QED
    BY <1>0, <1>4, <2>1 DEF NewNotification, SocketsOK, SocketStates, Live
<1> QED
  BY <1>1, <1>2, <1>3, <1>4

LEMMA OneSocketStep == TypeOK /\ OneSocket /\ [Next]_vars => OneSocket'
<1> SUFFICES ASSUME TypeOK, OneSocket, [Next]_vars PROVE OneSocket'
  OBVIOUS
<1> USE DEF authVars, socketVars
<1>0. TheRest /\ SocketsOK
  BY Types
<1>1. ASSUME NEW r \in Requests, StoreTokens(r) PROVE OneSocket'
  <2>1. request[r].with \in Tokens
    BY <1>1, RefreshingType DEF StoreTokens
  <2> QED
    BY <1>1, <2>1, OneSocketConnect DEF StoreTokens, SetTokens
<1>2. CASE SignedIn
  <2>1. PICK s \in Sessions : SetTokens(Token(s, 1))
    BY <1>2 DEF SignedIn
  <2>2. Token(s, 1) \in Tokens
    BY BoundsAreNumbers DEF Token, Tokens
  <2> QED
    BY <2>1, <2>2, OneSocketConnect DEF SetTokens
<1>3. CASE TimerFires
  BY <1>0, <1>3, OneSocketConnect DEF TimerFires, TheRest
<1>4. CASE LoggedOut \/ \E r \in Requests : GiveUp(r)
  BY <1>4, OneSocketDisconnect DEF LoggedOut, GiveUp, ClearAuth
<1>5. CASE Reload
  <2>1. PICK k \in Sockets \cup {None} :
          /\ socket' = [x \in Sockets |-> IF x = k THEN Opening(auth) ELSE Closed]
          /\ current' = k
    BY <1>5 DEF Reload
  <2>2. \A x \in Sockets : Live(x)' => x = k
    BY <2>1 DEF Live, Closed
  <2> QED
    BY <2>1, <2>2 DEF OneSocket, LiveSockets
<1>6. ASSUME NEW k \in Sockets, OnClose(k) PROVE OneSocket'
  <2>1. /\ current' = None /\ forgotten' = (forgotten \ {k}) \cup Forgotten(k)
        /\ socket[k].state = "closing" /\ socket' = [socket EXCEPT ![k] = Closed]
    BY <1>6 DEF OnClose, Pending
  <2>2. ASSUME NEW x \in Sockets, Live(x)' PROVE x \in forgotten'
    <3>1. x # k /\ Live(x)
      BY <1>0, <2>1, <2>2 DEF Live, SocketsOK, Closed
    <3>2. x = current \/ x \in forgotten
      BY <3>1 DEF OneSocket, LiveSockets
    <3> QED
      BY <2>1, <3>1, <3>2 DEF Forgotten
  <2> QED
    BY <2>2 DEF OneSocket, LiveSockets
<1>7. ASSUME NEW k \in Sockets, Opened(k) \/ Lost(k) \/ InitialData(k)
                                \/ \E n \in Notes : NewNotification(k, n)
      PROVE  OneSocket'
  <2>1. \A x \in Sockets : Live(x)' => Live(x)
    BY <1>0, <1>7, SocketEvents DEF Live
  <2> QED
    BY <1>7, <2>1, OneSocketKept DEF Opened, Lost, InitialData, NewNotification
<1>8. ASSUME NEW n \in Notes, NEW s \in Sessions, Notify(n, s) PROVE OneSocket'
  <2>1. \A x \in Sockets : socket'[x].state = socket[x].state
    BY <1>0, <1>8 DEF Notify, SocketsOK, SocketStates
  <2>2. \A x \in Sockets : Live(x)' => Live(x)
    BY <2>1 DEF Live
  <2> QED
    BY <1>8, <2>2, OneSocketKept DEF Notify
<1>9. CASE \/ SignIn \/ SignInFails \/ Logout \/ UNCHANGED vars
           \/ \E t \in Tokens : Expire(t)
           \/ \E n \in Notes : MarkAsRead(n)
           \/ \E r \in Requests : \/ Send(r) \/ Answered(r) \/ Unauthorized(r)
                                  \/ Refreshed(r) \/ RefreshFails(r)
  <2>1. UNCHANGED <<socket, current, forgotten>>
    BY <1>9 DEF SignIn, SignInFails, Logout, vars, Expire, MarkAsRead, Send, Answered,
                Unauthorized, Refreshed, RefreshFails
  <2> QED
    BY <2>1, OneSocketKept DEF Live
<1> QED
  BY <1>1, <1>2, <1>3, <1>4, <1>5, <1>6, <1>7, <1>8, <1>9 DEF Next, RequestStep, SocketStep

(* Whatever is opened, lost, given up or late: every live socket is the one   *)
(* the middleware holds, or one it lost sight of in a late onclose.           *)
THEOREM SessionOneSocket == Spec => []OneSocket
BY SessionTypeCorrect, OneSocketInit, OneSocketStep, PTL DEF Spec

-----------------------------------------------------------------------------
(* Whose events the middleware listens to. The argument: nothing a request is *)
(* about to store is of another session than the one signed in, nobody signs  *)
(* in while somebody is, and a sign-out takes the socket with it.             *)

ListensToOne ==
    /\ auth = None => current = None
    /\ straddled = {} =>
         /\ \A r \in Requests : request[r].stage \in {"refreshing", "storing"} =>
              auth # None /\ request[r].with.session = auth.session
         /\ signingIn => auth = None
         /\ current # None /\ Live(current) =>
              auth # None /\ socket[current].of.session = auth.session

LEMMA ListensInit == Init => ListensToOne
BY DEF Init, ListensToOne, Idle

\* Steps that store no tokens and open no socket.
LEMMA ListensKept ==
    ASSUME TypeOK, ListensToOne, UNCHANGED <<auth, straddled>>,
           current' \in {current, None}, signingIn' => signingIn \/ auth = None,
           \A r \in Requests : request'[r].stage \in {"refreshing", "storing"}
                                 => \/ auth # None /\ request'[r].with.session = auth.session
                                    \/ request'[r] = request[r],
           \A k \in Sockets : Live(k)' => Live(k) /\ socket'[k].of = socket[k].of
    PROVE  ListensToOne'
<1>1. current' # None => current' = current /\ current \in Sockets
  BY DEF TypeOK
<1>2. auth' = None => current' = None
  BY DEF ListensToOne
<1>3. ASSUME straddled' = {}, current' # None, Live(current)'
      PROVE  auth' # None /\ (socket[current].of.session = auth.session)'
  <2>1. Live(current) /\ socket'[current].of = socket[current].of
    BY <1>1, <1>3 DEF Live
  <2> QED
    BY <1>1, <1>3, <2>1 DEF ListensToOne
<1> QED
  BY <1>2, <1>3 DEF ListensToOne

LEMMA ListensConnect ==
    ASSUME TypeOK, ListensToOne, NEW t \in Tokens, Connect(t), auth' = t,
           UNCHANGED straddled,
           straddled = {} =>
              /\ auth = None \/ auth.session = t.session
              /\ ~signingIn'
              /\ \A r \in Requests : request'[r].stage \in {"refreshing", "storing"}
                                       => request'[r] = request[r]
    PROVE  ListensToOne'
<1>1. SocketsOK /\ t # None
  BY Types, NoneIsNothing
<1>2. ASSUME straddled' = {}, NEW r \in Requests, request'[r].stage \in {"refreshing", "storing"}
      PROVE  request'[r].with.session = t.session
  BY <1>2 DEF ListensToOne
<1>3. CASE UNCHANGED <<socket, current>>
  BY <1>1, <1>2, <1>3 DEF ListensToOne, Live
<1>4. CASE /\ current = None /\ current' \in Sockets
           /\ socket' = [socket EXCEPT ![current'] = Opening(t)]
  <2>1. socket'[current'] = Opening(t)
    BY <1>1, <1>4 DEF SocketsOK
  <2>2. socket'[current'].of = t
    BY <2>1, OpeningType
  <2> QED
    BY <1>1, <1>2, <2>2 DEF ListensToOne
<1> QED
  BY <1>1, <1>3, <1>4, ConnectEffect

\* A sign-out that some request is refreshing through is straddled from then on.
LEMMA ListensClear ==
    ASSUME TypeOK, ListensToOne, ClearAuth, UNCHANGED signingIn,
           \A r \in Requests : request'[r].stage \in {"refreshing", "storing"}
                                 => request'[r] = request[r]
    PROVE  ListensToOne'
<1>1. auth' = None /\ current' = None
  BY DEF ClearAuth, Disconnect
<1>2. ASSUME straddled' = {}, NEW r \in Requests, request'[r].stage \in {"refreshing", "storing"}
      PROVE  FALSE
  <2>1. request[r].stage \in {"refreshing", "storing"}
    BY <1>2
  <2>2. straddled = {}
    BY <1>2 DEF ClearAuth
  <2>3. auth # None /\ request[r].with.session = auth.session
    BY <2>1, <2>2 DEF ListensToOne
  <2>4. Refreshing(auth.session)
    BY <2>1, <2>3 DEF Refreshing
  <2> QED
    BY <1>2, <2>3, <2>4 DEF ClearAuth
<1> QED
  BY <1>1, <1>2 DEF ListensToOne

LEMMA ListensStep == TypeOK /\ ListensToOne /\ [Next]_vars => ListensToOne'
<1> SUFFICES ASSUME TypeOK, ListensToOne, [Next]_vars PROVE ListensToOne'
  OBVIOUS
<1> USE DEF authVars, socketVars
<1>0. TheRest /\ RequestsOK /\ SocketsOK
  BY Types
<1>1. ASSUME NEW r \in Requests, StoreTokens(r) PROVE ListensToOne'
  <2>1. request[r].with \in Tokens /\ request[r].stage = "storing"
    BY <1>1, RefreshingType DEF StoreTokens
  <2>2. request' = [request EXCEPT ![r] = [stage |-> "again", with |-> request[r].with]]
    BY <1>1 DEF StoreTokens, Goto
  <2>3. \A x \in Requests : request'[x].stage \in {"refreshing", "storing"}
                              => request'[x] = request[x]
    BY <2>2 DEF TypeOK
  <2>4. straddled = {} => auth # None /\ auth.session = request[r].with.session /\ ~signingIn
    BY <2>1 DEF ListensToOne
  <2> QED
    BY <1>1, <2>1, <2>3, <2>4, ListensConnect DEF StoreTokens, SetTokens
<1>2. CASE SignedIn
  <2>1. PICK s \in Sessions : SetTokens(Token(s, 1))
    BY <1>2 DEF SignedIn
  <2>2. Token(s, 1) \in Tokens
    BY BoundsAreNumbers DEF Token, Tokens
  <2>3. straddled = {} => auth = None
    BY <1>2 DEF SignedIn, ListensToOne
  <2>4. ~signingIn' /\ UNCHANGED <<straddled, request>>
    BY <1>2 DEF SignedIn, TheRest
  <2> QED
    BY <2>1, <2>2, <2>3, <2>4, ListensConnect DEF SetTokens
<1>3. CASE TimerFires
  <2>1. CASE auth = None
    <3>1. UNCHANGED <<socket, current, auth, straddled, signingIn, request>>
      BY <1>3, <2>1 DEF TimerFires, Connect
    <3> QED
      BY <3>1, ListensKept DEF Live
  <2>2. CASE auth # None
    BY <1>0, <1>3, <2>2, ListensConnect DEF TimerFires, TheRest, ListensToOne
  <2> QED
    BY <2>1, <2>2
<1>4. ASSUME NEW r \in Requests, GiveUp(r) PROVE ListensToOne'
  <2>1. request' = [request EXCEPT ![r] = [stage |-> "idle", with |-> None]]
    BY <1>4 DEF GiveUp, Goto
  <2>2. \A x \in Requests : request'[x].stage \in {"refreshing", "storing"}
                              => request'[x] = request[x]
    BY <2>1 DEF TypeOK
  <2> QED
    BY <1>4, <2>2, ListensClear DEF GiveUp
<1>5. CASE LoggedOut
  BY <1>5, ListensClear DEF LoggedOut
<1>6. CASE Reload
  <2>1. PICK k \in Sockets \cup {None} :
          /\ k = IF auth = None THEN None ELSE CHOOSE x \in Sockets : TRUE
          /\ socket' = [x \in Sockets |-> IF x = k THEN Opening(auth) ELSE Closed]
          /\ current' = k
    BY <1>6 DEF Reload
  <2>2. auth' = auth /\ signingIn' = FALSE /\ auth \in Tokens \cup {None}
        /\ \A r \in Requests : request'[r].stage = "idle"
    BY <1>0, <1>6 DEF Reload, Idle, TheRest
  <2>3. current' # None => auth # None /\ current' \in Sockets /\ socket'[current'] = Opening(auth)
    BY <2>1
  <2>4. current' # None => socket'[current'].of = auth
    BY <2>2, <2>3, OpeningType
  <2> QED
    BY <2>1, <2>2, <2>3, <2>4 DEF ListensToOne
<1>7. ASSUME NEW k \in Sockets, OnClose(k) PROVE ListensToOne'
  <2>1. /\ current' = None /\ UNCHANGED <<auth, straddled, signingIn, request>>
        /\ socket' = [socket EXCEPT ![k] = Closed]
    BY <1>7 DEF OnClose
  <2>2. \A x \in Sockets : Live(x)' => Live(x) /\ socket'[x].of = socket[x].of
    BY <1>0, <2>1 DEF Live, SocketsOK, Closed
  <2> QED
    BY <2>1, <2>2, ListensKept
<1>8. ASSUME NEW k \in Sockets, Opened(k) \/ Lost(k) \/ InitialData(k)
                                \/ \E n \in Notes : NewNotification(k, n)
      PROVE  ListensToOne'
  <2>1. \A x \in Sockets : Live(x)' => Live(x) /\ socket'[x].of = socket[x].of
    BY <1>0, <1>8, SocketEvents DEF Live
  <2>2. UNCHANGED <<current, auth, straddled, signingIn, request>>
    BY <1>8 DEF Opened, Lost, InitialData, NewNotification
  <2> QED
    BY <2>1, <2>2, ListensKept
<1>9. ASSUME NEW n \in Notes, NEW s \in Sessions, Notify(n, s) PROVE ListensToOne'
  <2>1. \A x \in Sockets : socket'[x].state = socket[x].state /\ socket'[x].of = socket[x].of
    BY <1>0, <1>9 DEF Notify, SocketsOK, SocketStates
  <2>2. \A x \in Sockets : Live(x)' => Live(x) /\ socket'[x].of = socket[x].of
    BY <2>1 DEF Live
  <2>3. UNCHANGED <<current, auth, straddled, signingIn, request>>
    BY <1>9 DEF Notify
  <2> QED
    BY <2>2, <2>3, ListensKept
<1>10. ASSUME NEW r \in Requests,
              Send(r) \/ Answered(r) \/ Unauthorized(r) \/ Refreshed(r) \/ RefreshFails(r)
       PROVE  ListensToOne'
  <2>1. UNCHANGED <<auth, straddled, signingIn, socket, current>>
    BY <1>10 DEF Send, Answered, Unauthorized, Refreshed, RefreshFails
  <2>2. \A x \in Requests \ {r} : request'[x] = request[x]
    BY <1>0, <1>10 DEF Send, Answered, Unauthorized, Refreshed, RefreshFails, Goto, RequestsOK
  <2>3. request'[r].stage \in {"refreshing", "storing"} =>
          \/ auth # None /\ request'[r].with = auth
          \/ request[r].stage = "refreshing" /\ request'[r].with.session = request[r].with.session
    BY <1>0, <1>10 DEF Send, Answered, Unauthorized, Refreshed, RefreshFails, RefreshToken,
                       Goto, Idle, Token, RequestsOK
  <2>4. CASE straddled = {}
    <3>1. request'[r].stage \in {"refreshing", "storing"}
            => auth # None /\ request'[r].with.session = auth.session
      BY <2>3, <2>4 DEF ListensToOne
    <3> QED
      BY <2>1, <2>2, <3>1, ListensKept DEF Live
  <2>5. CASE straddled # {}
    BY <2>1, <2>5 DEF ListensToOne
  <2> QED
    BY <2>4, <2>5
<1>11. CASE \/ SignIn \/ SignInFails \/ Logout \/ UNCHANGED vars
            \/ \E t \in Tokens : Expire(t)
            \/ \E n \in Notes : MarkAsRead(n)
  <2>1. UNCHANGED <<socket, current, auth, straddled, request>> /\ (signingIn' => signingIn \/ auth = None)
    BY <1>11 DEF SignIn, SignInFails, Logout, vars, Expire, MarkAsRead
  <2> QED
    BY <2>1, ListensKept DEF Live
<1> QED
  BY <1>1, <1>2, <1>3, <1>4, <1>5, <1>6, <1>7, <1>8, <1>9, <1>10, <1>11
     DEF Next, RequestStep, SocketStep

(* Unless a late refresh brought another session back, no live socket that    *)
(* the middleware knows of listens with the token of a session that is over.  *)
THEOREM SessionSocketsOfSession == Spec => []SocketsOfSession
<1>1. Spec => []ListensToOne
  BY SessionTypeCorrect, ListensInit, ListensStep, PTL DEF Spec
<1>2. ListensToOne /\ OneSocket /\ TypeOK => SocketsOfSession
  <2> SUFFICES ASSUME ListensToOne, OneSocket, TypeOK, straddled = {},
                      NEW k \in LiveSockets \ forgotten
               PROVE  auth # None /\ socket[k].of.session = auth.session
    BY DEF SocketsOfSession
  <2>1. k = current /\ k \in Sockets /\ Live(k)
    BY DEF OneSocket, LiveSockets
  <2> QED
    BY <2>1, NoneIsNothing DEF ListensToOne
<1> QED
  BY <1>1, <1>2, SessionOneSocket, SessionTypeCorrect, PTL

-----------------------------------------------------------------------------
(* What the store says of the connection.                                     *)

Open(k) == socket[k].state = "open"

\* The store says connected only while a socket is open, or its onclose is to come.
SaysConnected == store.wsConnected => \E k \in Sockets : Open(k) \/ k \in Pending

LEMMA SaysInit == Init => SaysConnected
BY DEF Init, SaysConnected, EmptyStore

\* Steps that leave the flag, and open sockets open or closing.
LEMMA SaysKept ==
    ASSUME SaysConnected, store'.wsConnected = store.wsConnected,
           \A k \in Sockets : socket[k].state \in {"open", "closing"}
                                => socket'[k].state \in {"open", "closing"}
    PROVE  SaysConnected'
BY DEF SaysConnected, Open, Pending

LEMMA SaysConnect ==
    ASSUME TypeOK, SaysConnected, NEW t \in Tokens \cup {None}, Connect(t), UNCHANGED store
    PROVE  SaysConnected'
<1>1. SocketsOK
  BY Types
<1>2. CASE UNCHANGED socket
  BY <1>2, SaysKept
<1>3. CASE /\ current' \in Sockets /\ socket[current'] = Closed
           /\ socket' = [socket EXCEPT ![current'] = Opening(t)]
  <2>1. \A k \in Sockets \ {current'} : socket'[k] = socket[k]
    BY <1>1, <1>3 DEF SocketsOK
  <2>2. socket[current'].state = "none"
    BY <1>3 DEF Closed
  <2> QED
    BY <2>1, <2>2, SaysKept
<1> QED
  BY <1>1, <1>2, <1>3, ConnectEffect

LEMMA SaysStep == TypeOK /\ SaysConnected /\ [Next]_vars => SaysConnected'
<1> SUFFICES ASSUME TypeOK, SaysConnected, [Next]_vars PROVE SaysConnected'
  OBVIOUS
<1> USE DEF authVars, socketVars
<1>0. TheRest /\ SocketsOK /\ StoreOK
  BY Types
<1>1. ASSUME NEW r \in Requests, StoreTokens(r) PROVE SaysConnected'
  <2>1. request[r].with \in Tokens
    BY <1>1, RefreshingType DEF StoreTokens
  <2> QED
    BY <1>1, <2>1, SaysConnect DEF StoreTokens, SetTokens
<1>2. CASE SignedIn
  <2>1. PICK s \in Sessions : SetTokens(Token(s, 1))
    BY <1>2 DEF SignedIn
  <2>2. Token(s, 1) \in Tokens
    BY BoundsAreNumbers DEF Token, Tokens
  <2> QED
    BY <1>2, <2>1, <2>2, SaysConnect DEF SetTokens, SignedIn
<1>3. CASE TimerFires
  BY <1>0, <1>3, SaysConnect DEF TimerFires, TheRest
<1>4. CASE LoggedOut \/ \E r \in Requests : GiveUp(r)
  <2>1. Disconnect /\ UNCHANGED store
    BY <1>4 DEF LoggedOut, GiveUp, ClearAuth
  <2>2. \A k \in Sockets : socket'[k] = socket[k] \/ socket'[k].state = "closing"
    BY <1>0, <2>1 DEF Disconnect, SocketsOK, Closed
  <2> QED
    BY <2>1, <2>2, SaysKept
<1>5. CASE Reload \/ \E k \in Sockets : OnClose(k)
  <2>1. ~store'.wsConnected
    BY <1>0, <1>5 DEF Reload, OnClose, EmptyStore, WithConnection, StoreOK, StoreStates
  <2> QED
    BY <2>1 DEF SaysConnected
<1>6. ASSUME NEW k \in Sockets, Opened(k) PROVE SaysConnected'
  <2>1. socket'[k].state = "open"
    BY <1>0, <1>6, SocketType DEF Opened, SocketsOK, SocketStates
  <2> QED
    BY <2>1 DEF SaysConnected, Open
<1>7. ASSUME NEW k \in Sockets, Lost(k) PROVE SaysConnected'
  BY <1>0, <1>7, SaysKept DEF Lost, SocketsOK, Closed
<1>8. ASSUME NEW k \in Sockets, InitialData(k) PROVE SaysConnected'
  <2>1. \A x \in Sockets : socket'[x].state = socket[x].state
    BY <1>0, <1>8 DEF InitialData, SocketsOK, SocketStates
  <2> QED
    BY <1>0, <1>8, <2>1, SaysKept DEF InitialData, WithInitialData, StoreOK, StoreStates
<1>9. ASSUME NEW k \in Sockets, NEW n \in Notes, NewNotification(k, n) PROVE SaysConnected'
  <2>1. \A x \in Sockets : socket'[x].state = socket[x].state
    BY <1>0, <1>9 DEF NewNotification, SocketsOK, SocketStates
  <2> QED
    BY <1>0, <1>9, <2>1, SaysKept DEF NewNotification, WithNew, StoreOK, StoreStates
<1>10. ASSUME NEW n \in Notes, NEW s \in Sessions, Notify(n, s) PROVE SaysConnected'
  <2>1. \A x \in Sockets : socket'[x].state = socket[x].state
    BY <1>0, <1>10 DEF Notify, SocketsOK, SocketStates
  <2> QED
    BY <1>10, <2>1, SaysKept DEF Notify
<1>11. ASSUME NEW n \in Notes, MarkAsRead(n) PROVE SaysConnected'
  BY <1>0, <1>11, SaysKept DEF MarkAsRead, WithRead, StoreOK, StoreStates
<1>12. CASE \/ SignIn \/ SignInFails \/ Logout \/ UNCHANGED vars
            \/ \E t \in Tokens : Expire(t)
            \/ \E r \in Requests : \/ Send(r) \/ Answered(r) \/ Unauthorized(r)
                                   \/ Refreshed(r) \/ RefreshFails(r)
  <2>1. UNCHANGED <<socket, store>>
    BY <1>12 DEF SignIn, SignInFails, Logout, vars, Expire, Send, Answered,
                 Unauthorized, Refreshed, RefreshFails
  <2> QED
    BY <2>1, SaysKept
<1> QED
  BY <1>1, <1>2, <1>3, <1>4, <1>5, <1>6, <1>7, <1>8, <1>9, <1>10, <1>11, <1>12
     DEF Next, RequestStep, SocketStep

(* Once every onclose was handled, a client that says it is connected has an  *)
(* open socket, however many were opened, lost and forgotten.                 *)
THEOREM SessionConnectedIsOpen == Spec => []ConnectedIsOpen
<1>1. Spec => []SaysConnected
  BY SessionTypeCorrect, SaysInit, SaysStep, PTL DEF Spec
<1>2. SaysConnected => ConnectedIsOpen
  BY DEF SaysConnected, ConnectedIsOpen, Open
<1> QED
  BY <1>1, <1>2, PTL

-----------------------------------------------------------------------------
(* Nothing is listed twice. What is in the list or on its way to it was       *)
(* pushed once; it is on its way at most on one socket, as long as the        *)
(* middleware has lost sight of none, and not listed yet.                     *)

Entries(n) == store.list[n].unread + store.list[n].read

ListsOnce ==
    /\ \A k \in Sockets : socket[k].pushed \subseteq notified
                          /\ (socket[k].pushed # {} => Open(k))
    /\ \A n \in Notes : Entries(n) # 0 => n \in notified
    /\ ~strayed =>
         /\ forgotten = {}
         /\ \A n \in Notes : Entries(n) <= 1
         /\ \A k \in Sockets : \A n \in socket[k].pushed : Entries(n) = 0

LEMMA ListsInit == Init => ListsOnce
BY DEF Init, ListsOnce, Entries, EmptyStore, NoEntries, Closed

\* Steps that leave the counts, push nothing and forget no socket.
LEMMA ListsKept ==
    ASSUME TypeOK, ListsOnce, UNCHANGED <<forgotten, strayed, notified>>,
           \A n \in Notes : Entries(n)' = Entries(n),
           \A k \in Sockets : \/ socket'[k].pushed = {}
                              \/ socket'[k].pushed = socket[k].pushed
                                 /\ (Open(k) => Open(k)')
    PROVE  ListsOnce'
<1>1. \A k \in Sockets : socket[k].pushed \subseteq Notes
  BY DEF TypeOK
<1> QED
  BY <1>1 DEF ListsOnce

LEMMA ListsConnect ==
    ASSUME TypeOK, ListsOnce, NEW t \in Tokens \cup {None}, Connect(t),
           UNCHANGED <<forgotten, strayed, notified, store>>
    PROVE  ListsOnce'
<1>1. SocketsOK
  BY Types
<1>2. CASE UNCHANGED socket
  BY <1>2, ListsKept DEF Open, Entries
<1>3. CASE current' \in Sockets /\ socket' = [socket EXCEPT ![current'] = Opening(t)]
  <2>1. \A k \in Sockets \ {current'} : socket'[k] = socket[k]
    BY <1>1, <1>3 DEF SocketsOK
  <2>2. socket'[current'].pushed = {}
    BY <1>1, <1>3, OpeningType DEF SocketsOK
  <2> QED
    BY <2>1, <2>2, ListsKept DEF Open, Entries
<1> QED
  BY <1>1, <1>2, <1>3, ConnectEffect

LEMMA ListEffects ==
    ASSUME NEW s \in StoreStates, NEW n \in Notes
    PROVE  /\ WithNew(s, n).list = [s.list EXCEPT ![n] = [unread |-> s.list[n].unread + 1,
                                                           read |-> s.list[n].read]]
           /\ WithRead(s, n).list = [s.list EXCEPT ![n] = [unread |-> 0,
                                       read |-> s.list[n].unread + s.list[n].read]]
           /\ WithInitialData(s, 0).list = s.list
           /\ \A b \in BOOLEAN : WithConnection(s, b).list = s.list
BY DEF WithNew, WithRead, WithInitialData, WithConnection, StoreStates

LEMMA EntriesType ==
    ASSUME TypeOK, NEW n \in Notes
    PROVE  /\ store \in StoreStates /\ store.list \in [Notes -> [unread : Nat, read : Nat]]
           /\ store.list[n].unread \in Nat /\ store.list[n].read \in Nat /\ Entries(n) \in Nat
<1>1. store \in StoreStates
  BY Types DEF StoreOK
<1> QED
  BY <1>1 DEF StoreStates, Entries

\* The push comes to the list: the one socket it was on has it no more.
LEMMA ListsNew ==
    ASSUME TypeOK, OneSocket, ListsOnce, NEW k \in Sockets, NEW n \in Notes, NewNotification(k, n)
    PROVE  ListsOnce'
<1> USE DEF authVars, socketVars
<1>0. SocketsOK /\ \A x \in Sockets : socket[x].pushed \subseteq Notes
  BY Types DEF TypeOK
<1>1. socket' = [socket EXCEPT ![k] = [socket[k] EXCEPT !.pushed = socket[k].pushed \ {n}]]
  BY <1>0 DEF NewNotification, SocketsOK
<1>2. /\ \A x \in Sockets \ {k} : socket'[x] = socket[x]
      /\ socket'[k].pushed = socket[k].pushed \ {n} /\ socket'[k].state = "open"
      /\ socket[k].state = "open" /\ n \in socket[k].pushed
  <2>1. socket[k] \in SocketStates
    BY <1>0, SocketType
  <2> QED
    BY <1>0, <1>1, <2>1 DEF NewNotification, SocketsOK, SocketStates
<1>3. Entries(n)' = Entries(n) + 1 /\ \A m \in Notes \ {n} : Entries(m)' = Entries(m)
  <2>1. store.list \in [Notes -> [unread : Nat, read : Nat]] /\ store \in StoreStates
        /\ store.list[n].unread \in Nat /\ store.list[n].read \in Nat
    BY EntriesType
  <2>2. store'.list = [store.list EXCEPT ![n] = [unread |-> store.list[n].unread + 1,
                                                 read |-> store.list[n].read]]
    BY <2>1, ListEffects DEF NewNotification
  <2> QED
    BY <2>1, <2>2 DEF Entries
<1>4. UNCHANGED <<forgotten, strayed, notified>>
  BY DEF NewNotification
<1>5. n \in notified /\ Entries(n) \in Nat
  BY <1>2, EntriesType DEF ListsOnce
<1>6. \A x \in Sockets : /\ (socket[x].pushed \subseteq notified)'
                         /\ (socket'[x].pushed # {} => Open(x)')
  BY <1>2, <1>4 DEF ListsOnce, Open
<1>7. \A m \in Notes : Entries(m)' # 0 => m \in notified'
  BY <1>3, <1>4, <1>5 DEF ListsOnce
<1>8. ASSUME ~strayed'
      PROVE  /\ forgotten' = {}
             /\ \A m \in Notes : Entries(m)' <= 1
             /\ \A x \in Sockets : \A m \in socket'[x].pushed : Entries(m)' = 0
  <2>1. forgotten = {} /\ Entries(n) = 0
    BY <1>2, <1>4, <1>8 DEF ListsOnce
  <2>2. \A x \in Sockets : socket[x].pushed # {} => x = k
    BY <1>2, <2>1 DEF ListsOnce, OneSocket, LiveSockets, Live, Open
  <2>3. ASSUME NEW x \in Sockets, NEW m \in socket'[x].pushed PROVE Entries(m)' = 0
    <3>1. x = k /\ m \in socket[k].pushed /\ m # n
      BY <1>2, <2>2, <2>3
    <3> QED
      BY <1>0, <1>3, <1>4, <1>8, <3>1 DEF ListsOnce
  <2>4. \A m \in Notes : Entries(m)' <= 1
    BY <1>3, <1>4, <1>8, <2>1 DEF ListsOnce
  <2> QED
    BY <1>4, <2>1, <2>3, <2>4
<1> QED
  BY <1>6, <1>7, <1>8 DEF ListsOnce

\* A new notification goes to the open sockets: it is not in the list.
LEMMA ListsNotify ==
    ASSUME TypeOK, ListsOnce, NEW n \in Notes, NEW s \in Sessions, Notify(n, s)
    PROVE  ListsOnce'
<1> USE DEF authVars, socketVars
<1>1. ASSUME NEW k \in Sockets
      PROVE  \/ socket'[k] = socket[k]
             \/ /\ socket'[k].pushed = socket[k].pushed \cup {n}
                /\ socket[k].state = "open" /\ socket'[k].state = "open"
  <2>1. socket[k] \in SocketStates
    BY Types, SocketType
  <2>2. socket'[k] = IF socket[k].state = "open" /\ socket[k].of.session = s
                       THEN [socket[k] EXCEPT !.pushed = socket[k].pushed \cup {n}] ELSE socket[k]
    BY DEF Notify
  <2> QED
    BY <2>1, <2>2 DEF SocketStates
<1>2. /\ n \notin notified /\ notified' = notified \cup {n}
      /\ UNCHANGED <<store, forgotten, strayed>>
  BY DEF Notify
<1>3. Entries(n) = 0 /\ \A m \in Notes : Entries(m)' = Entries(m)
  BY <1>2 DEF ListsOnce, Entries
<1>4. \A k \in Sockets : /\ socket'[k].pushed \subseteq notified'
                         /\ (socket'[k].pushed # {} => Open(k)')
  BY <1>1, <1>2 DEF ListsOnce, Open
<1>5. \A k \in Sockets : socket[k].pushed \subseteq Notes
  BY DEF TypeOK
<1>6. ~strayed => \A k \in Sockets : \A m \in socket'[k].pushed : Entries(m)' = 0
  BY <1>1, <1>3, <1>5 DEF ListsOnce
<1> QED
  BY <1>2, <1>3, <1>4, <1>6 DEF ListsOnce

LEMMA ListsStep == TypeOK /\ OneSocket /\ ListsOnce /\ [Next]_vars => ListsOnce'
<1> SUFFICES ASSUME TypeOK, OneSocket, ListsOnce, [Next]_vars PROVE ListsOnce'
  OBVIOUS
<1> USE DEF authVars, socketVars
<1>0. TheRest /\ SocketsOK /\ StoreOK
  BY Types
<1>1. ASSUME NEW r \in Requests, StoreTokens(r) PROVE ListsOnce'
  <2>1. request[r].with \in Tokens
    BY <1>1, RefreshingType DEF StoreTokens
  <2> QED
    BY <1>1, <2>1, ListsConnect DEF StoreTokens, SetTokens
<1>2. CASE SignedIn
  <2>1. PICK s \in Sessions : SetTokens(Token(s, 1))
    BY <1>2 DEF SignedIn
  <2>2. Token(s, 1) \in Tokens
    BY BoundsAreNumbers DEF Token, Tokens
  <2> QED
    BY <1>2, <2>1, <2>2, ListsConnect DEF SetTokens, SignedIn
<1>3. CASE TimerFires
  BY <1>0, <1>3, ListsConnect DEF TimerFires, TheRest
<1>4. CASE LoggedOut \/ \E r \in Requests : GiveUp(r)
  <2>1. Disconnect /\ UNCHANGED <<store, notified>>
    BY <1>4 DEF LoggedOut, GiveUp, ClearAuth
  <2>2. \A k \in Sockets : socket'[k] = socket[k] \/ socket'[k].pushed = {}
    BY <1>0, <2>1 DEF Disconnect, SocketsOK, Closed
  <2> QED
    BY <2>1, <2>2, ListsKept DEF Disconnect, Entries, Open
<1>5. CASE Reload
  <2>1. PICK k \in Sockets \cup {None} :
          socket' = [x \in Sockets |-> IF x = k THEN Opening(auth) ELSE Closed]
    BY <1>5 DEF Reload
  <2>2. \A x \in Sockets : socket'[x].pushed = {}
    BY <1>0, <2>1, OpeningType DEF Closed, TheRest
  <2>3. \A n \in Notes : Entries(n)' = 0
    BY <1>5 DEF Reload, EmptyStore, NoEntries, Entries
  <2> QED
    BY <1>5, <2>2, <2>3 DEF Reload, ListsOnce
<1>6. ASSUME NEW k \in Sockets, OnClose(k) PROVE ListsOnce'
  <2>1. /\ \A x \in Sockets \ {k} : socket'[x] = socket[x]
        /\ socket'[k].pushed = {} /\ notified' = notified
    BY <1>0, <1>6 DEF OnClose, SocketsOK, Closed
  <2>2. \A n \in Notes : Entries(n)' = Entries(n)
    BY <1>0, <1>6, ListEffects DEF OnClose, Entries, StoreOK
  <2>3. ~strayed' => ~strayed /\ forgotten' \subseteq forgotten
    BY <1>6 DEF OnClose
  <2>4. \A x \in Sockets : socket[x].pushed \subseteq Notes
    BY DEF TypeOK
  <2> QED
    BY <2>1, <2>2, <2>3, <2>4 DEF ListsOnce, Open
<1>7. ASSUME NEW k \in Sockets, Opened(k) PROVE ListsOnce'
  <2>1. socket'[k].state = "open" /\ socket'[k].pushed = socket[k].pushed
    BY <1>0, <1>7, SocketType DEF Opened, SocketsOK, SocketStates
  <2>2. \A x \in Sockets \ {k} : socket'[x] = socket[x]
    BY <1>0, <1>7, SocketEvents
  <2>3. \A n \in Notes : Entries(n)' = Entries(n)
    BY <1>0, <1>7, ListEffects DEF Opened, Entries, StoreOK
  <2> QED
    BY <1>7, <2>1, <2>2, <2>3, ListsKept DEF Opened, Open
<1>8. ASSUME NEW k \in Sockets, Lost(k) PROVE ListsOnce'
  <2>1. socket'[k].pushed = {} /\ \A x \in Sockets \ {k} : socket'[x] = socket[x]
    BY <1>0, <1>8 DEF Lost, SocketsOK, Closed
  <2> QED
    BY <1>8, <2>1, ListsKept DEF Lost, Open, Entries
<1>9. ASSUME NEW k \in Sockets, InitialData(k) PROVE ListsOnce'
  <2>1. socket'[k].state = socket[k].state /\ socket'[k].pushed = socket[k].pushed
    BY <1>0, <1>9, SocketType DEF InitialData, SocketsOK, SocketStates
  <2>2. \A x \in Sockets \ {k} : socket'[x] = socket[x]
    BY <1>0, <1>9, SocketEvents
  <2>3. \A n \in Notes : Entries(n)' = Entries(n)
    BY <1>0, <1>9, ListEffects DEF InitialData, Entries, StoreOK
  <2> QED
    BY <1>9, <2>1, <2>2, <2>3, ListsKept DEF InitialData, Open
<1>10. ASSUME NEW n \in Notes, MarkAsRead(n) PROVE ListsOnce'
  <2>1. store.list \in [Notes -> [unread : Nat, read : Nat]] /\ store \in StoreStates
        /\ store.list[n].unread \in Nat /\ store.list[n].read \in Nat
    BY EntriesType
  <2>2. store'.list = [store.list EXCEPT ![n] = [unread |-> 0,
                                           read |-> store.list[n].unread + store.list[n].read]]
    BY <1>10, <2>1, ListEffects DEF MarkAsRead
  <2>3. \A m \in Notes : Entries(m)' = Entries(m)
    BY <2>1, <2>2 DEF Entries
  <2> QED
    BY <1>10, <2>3, ListsKept DEF MarkAsRead, Open
<1>11. CASE \/ SignIn \/ SignInFails \/ Logout \/ UNCHANGED vars
            \/ \E t \in Tokens : Expire(t)
            \/ \E r \in Requests : \/ Send(r) \/ Answered(r) \/ Unauthorized(r)
                                   \/ Refreshed(r) \/ RefreshFails(r)
  <2>1. UNCHANGED <<socket, store, forgotten, strayed, notified>>
    BY <1>11 DEF SignIn, SignInFails, Logout, vars, Expire, Send, Answered,
                 Unauthorized, Refreshed, RefreshFails
  <2> QED
    BY <2>1, ListsKept DEF Open, Entries
<1> QED
  BY <1>1, <1>2, <1>3, <1>4, <1>5, <1>6, <1>7, <1>8, <1>9, <1>10, <1>11, ListsNew, ListsNotify
     DEF Next, RequestStep, SocketStep

(* A notification is in the list once, whatever connections come and go, as   *)
(* long as no socket was lost sight of.                                       *)
THEOREM SessionListedOnce == Spec => []ListedOnce
<1>1. Spec => []ListsOnce
  BY SessionTypeCorrect, SessionOneSocket, ListsInit, ListsStep, PTL DEF Spec
<1>2. ListsOnce => ListedOnce
  BY DEF ListsOnce, ListedOnce, Entries
<1> QED
  BY <1>1, <1>2, PTL

-----------------------------------------------------------------------------
(* The number on the bell and the pushes that no click has marked.            *)

BadgeFits(s) ==
    /\ IsFiniteSet(UnmarkedPushes(s))
    /\ s.unreadCount <= Cardinality(UnmarkedPushes(s))

LEMMA UnreadMembers ==
    ASSUME NEW s, NEW e
    PROVE  e \in UnmarkedPushes(s) <=>
             \E n \in Notes, i \in Int : i \in 1 .. s.list[n].unread /\ e = <<n, i>>
BY DEF UnmarkedPushes

\* NEW_NOTIFICATION counts the entry it puts in front.
LEMMA BadgeNew ==
    ASSUME NEW s \in StoreStates, NEW n \in Notes, BadgeFits(s)
    PROVE  BadgeFits(WithNew(s, n))
<1> DEFINE k == s.list[n].unread
           t == WithNew(s, n)
<1>1. /\ k \in Nat /\ s.unreadCount \in Nat /\ t.unreadCount = s.unreadCount + 1
      /\ \A m \in Notes : t.list[m].unread = IF m = n THEN k + 1 ELSE s.list[m].unread
  BY DEF StoreStates, WithNew
<1> HIDE DEF k, t
<1>2. 1 .. (k + 1) = (1 .. k) \cup {k + 1}
  BY <1>1
<1>3. UnmarkedPushes(t) = UnmarkedPushes(s) \cup {<<n, k + 1>>}
  <2>1. ASSUME NEW e, e \in UnmarkedPushes(t) PROVE e \in UnmarkedPushes(s) \cup {<<n, k + 1>>}
    <3>1. PICK m \in Notes, i \in Int : i \in 1 .. t.list[m].unread /\ e = <<m, i>>
      BY <2>1, UnreadMembers
    <3>2. i \in 1 .. s.list[m].unread \/ (m = n /\ i = k + 1)
      BY <1>1, <1>2, <3>1 DEF k
    <3> QED
      BY <3>1, <3>2, UnreadMembers
  <2>2. ASSUME NEW e, e \in UnmarkedPushes(s) \cup {<<n, k + 1>>} PROVE e \in UnmarkedPushes(t)
    <3>1. CASE e = <<n, k + 1>>
      <4>1. k + 1 \in 1 .. t.list[n].unread
        BY <1>1
      <4> QED
        BY <3>1, <4>1, UnreadMembers
    <3>2. CASE e \in UnmarkedPushes(s)
      <4>1. PICK m \in Notes, i \in Int : i \in 1 .. s.list[m].unread /\ e = <<m, i>>
        BY <3>2, UnreadMembers
      <4>2. i \in 1 .. t.list[m].unread
        BY <1>1, <1>2, <4>1 DEF k
      <4> QED
        BY <4>1, <4>2, UnreadMembers
    <3> QED
      BY <2>2, <3>1, <3>2
  <2> QED
    BY <2>1, <2>2
<1>4. <<n, k + 1>> \notin UnmarkedPushes(s)
  <2> SUFFICES ASSUME <<n, k + 1>> \in UnmarkedPushes(s) PROVE FALSE
    OBVIOUS
  <2>1. PICK m \in Notes, i \in Int : i \in 1 .. s.list[m].unread /\ <<n, k + 1>> = <<m, i>>
    BY UnreadMembers
  <2>2. m = n /\ i = k + 1
    BY <2>1
  <2> QED
    BY <1>1, <2>1, <2>2 DEF k
<1>5. /\ IsFiniteSet(UnmarkedPushes(t))
      /\ Cardinality(UnmarkedPushes(t)) = Cardinality(UnmarkedPushes(s)) + 1
  BY <1>3, <1>4, FS_AddElement DEF BadgeFits
<1>6. Cardinality(UnmarkedPushes(s)) \in Nat
  BY FS_CardinalityType DEF BadgeFits
<1> QED
  BY <1>1, <1>5, <1>6 DEF BadgeFits, t

\* markAsRead counts down by as many as there were, or to zero.
LEMMA BadgeRead ==
    ASSUME NEW s \in StoreStates, NEW n \in Notes, BadgeFits(s)
    PROVE  BadgeFits(WithRead(s, n))
<1> DEFINE k == s.list[n].unread
           t == WithRead(s, n)
           gone == {n} \X (1 .. k)
<1>1. /\ k \in Nat /\ s.unreadCount \in Nat /\ t.unreadCount = Less(s.unreadCount, k)
      /\ \A m \in Notes : t.list[m].unread = IF m = n THEN 0 ELSE s.list[m].unread
  BY DEF StoreStates, WithRead
<1>2. IsFiniteSet(gone) /\ Cardinality(gone) = k
  <2> HIDE DEF k
  <2>1. IsFiniteSet(1 .. k) /\ Cardinality(1 .. k) = k
    <3>1. IsFiniteSet(1 .. k) /\ Cardinality(1 .. k) = IF 1 > k THEN 0 ELSE k - 1 + 1
      BY <1>1, FS_Interval
    <3> QED
      BY <1>1, <3>1
  <2>2. IsFiniteSet({n}) /\ Cardinality({n}) = 1
    BY FS_Singleton
  <2>3. IsFiniteSet(gone) /\ Cardinality(gone) = Cardinality({n}) * Cardinality(1 .. k)
    BY <2>1, <2>2, FS_Product
  <2> QED
    BY <1>1, <2>1, <2>2, <2>3
<1> HIDE DEF t
<1>3. UnmarkedPushes(t) = UnmarkedPushes(s) \ gone
  <2>1. ASSUME NEW e, e \in UnmarkedPushes(t) PROVE e \in UnmarkedPushes(s) \ gone
    <3>1. PICK m \in Notes, i \in Int : i \in 1 .. t.list[m].unread /\ e = <<m, i>>
      BY <2>1, UnreadMembers
    <3>2. m # n /\ i \in 1 .. s.list[m].unread
      BY <1>1, <3>1
    <3> QED
      BY <3>1, <3>2, UnreadMembers
  <2>2. ASSUME NEW e, e \in UnmarkedPushes(s) \ gone PROVE e \in UnmarkedPushes(t)
    <3>1. PICK m \in Notes, i \in Int : i \in 1 .. s.list[m].unread /\ e = <<m, i>>
      BY <2>2, UnreadMembers
    <3>2. m # n
      BY <2>2, <3>1
    <3>3. i \in 1 .. t.list[m].unread
      BY <1>1, <3>1, <3>2
    <3> QED
      BY <3>1, <3>3, UnreadMembers
  <2> QED
    BY <2>1, <2>2
<1>4. UnmarkedPushes(s) \cap gone = gone
  <2>1. ASSUME NEW e \in gone PROVE e \in UnmarkedPushes(s)
    <3>1. PICK i \in Int : i \in 1 .. k /\ e = <<n, i>>
      BY <2>1
    <3> QED
      BY <3>1, UnreadMembers
  <2> QED
    BY <2>1
<1> HIDE DEF gone
<1>5. /\ IsFiniteSet(UnmarkedPushes(t))
      /\ Cardinality(UnmarkedPushes(t)) = Cardinality(UnmarkedPushes(s)) - k
  <2> DEFINE all == UnmarkedPushes(s)
  <2>1. IsFiniteSet(all)
    BY DEF BadgeFits
  <2> HIDE DEF all, k
  <2>2. IsFiniteSet(all \ gone) /\ Cardinality(all \ gone) = Cardinality(all) - Cardinality(all \cap gone)
    BY <2>1, FS_Difference
  <2> QED
    BY <1>2, <1>3, <1>4, <2>2 DEF all
<1>6. Cardinality(UnmarkedPushes(s)) \in Nat /\ Cardinality(UnmarkedPushes(t)) \in Nat
  BY <1>5, FS_CardinalityType DEF BadgeFits
<1>7. t.unreadCount <= Cardinality(UnmarkedPushes(t))
  BY <1>1, <1>5, <1>6 DEF BadgeFits, Less
<1> QED
  BY <1>5, <1>7 DEF BadgeFits, t

\* INITIAL_DATA sets the number to zero; a change of the connection keeps it.
LEMMA BadgeKept ==
    ASSUME NEW s \in StoreStates, NEW b \in BOOLEAN, BadgeFits(s)
    PROVE  BadgeFits(WithInitialData(s, 0)) /\ BadgeFits(WithConnection(s, b))
<1>1. /\ WithInitialData(s, 0).list = s.list /\ WithInitialData(s, 0).unreadCount = 0
      /\ WithConnection(s, b).list = s.list /\ WithConnection(s, b).unreadCount = s.unreadCount
  BY DEF StoreStates, WithInitialData, WithConnection
<1>2. /\ UnmarkedPushes(WithInitialData(s, 0)) = UnmarkedPushes(s)
      /\ UnmarkedPushes(WithConnection(s, b)) = UnmarkedPushes(s)
  BY <1>1 DEF UnmarkedPushes
<1>3. Cardinality(UnmarkedPushes(s)) \in Nat
  BY FS_CardinalityType DEF BadgeFits
<1> QED
  BY <1>1, <1>2, <1>3 DEF BadgeFits

LEMMA BadgeEmpty == BadgeFits(EmptyStore(Notes))
<1>1. /\ \A n \in Notes : EmptyStore(Notes).list[n].unread = 0
      /\ EmptyStore(Notes).unreadCount = 0
  BY DEF EmptyStore, NoEntries
<1>2. UnmarkedPushes(EmptyStore(Notes)) = {}
  BY <1>1, UnreadMembers
<1> QED
  BY <1>1, <1>2, FS_EmptySet DEF BadgeFits

LEMMA BadgeStep == TypeOK /\ BadgeFits(store) /\ [Next]_vars => BadgeFits(store)'
<1> SUFFICES ASSUME TypeOK, BadgeFits(store), [Next]_vars PROVE BadgeFits(store')
  BY DEF BadgeFits, UnmarkedPushes
<1> USE DEF authVars, socketVars
<1>1. store \in StoreStates
  BY Types DEF StoreOK
<1>2. ASSUME NEW k \in Sockets, Opened(k) \/ OnClose(k) \/ InitialData(k) PROVE BadgeFits(store')
  BY <1>1, <1>2, BadgeKept DEF Opened, OnClose, InitialData
<1>3. ASSUME NEW k \in Sockets, NEW n \in Notes, NewNotification(k, n) PROVE BadgeFits(store')
  BY <1>1, <1>3, BadgeNew DEF NewNotification
<1>4. ASSUME NEW n \in Notes, MarkAsRead(n) PROVE BadgeFits(store')
  BY <1>1, <1>4, BadgeRead DEF MarkAsRead
<1>5. CASE Reload
  BY <1>5, BadgeEmpty DEF Reload
<1>6. CASE \/ SignIn \/ SignedIn \/ SignInFails \/ Logout \/ LoggedOut \/ TimerFires
           \/ UNCHANGED vars \/ \E t \in Tokens : Expire(t)
           \/ \E k \in Sockets : Lost(k)
           \/ \E n \in Notes : \E s \in Sessions : Notify(n, s)
           \/ \E r \in Requests : Send(r) \/ RequestStep(r)
  <2>1. UNCHANGED store
    BY <1>6 DEF SignIn, SignedIn, SignInFails, Logout, LoggedOut, TimerFires, vars, Expire, Lost,
                Notify, Send, RequestStep, Answered, Unauthorized, Refreshed, RefreshFails,
                StoreTokens, GiveUp
  <2> QED
    BY <2>1
<1> QED
  BY <1>2, <1>3, <1>4, <1>5, <1>6 DEF Next, SocketStep

(* The number on the bell is never more than the pushes handled that no click *)
(* has marked, whatever is pushed, doubled, marked and set to zero by a new   *)
(* connection. (The menu below it shows the answer of the API.)               *)
THEOREM SessionBadgeOfUnmarkedPushes == Spec => []BadgeOfUnmarkedPushes
<1>1. Init => BadgeFits(store)
  BY BadgeEmpty DEF Init
<1>2. Spec => []BadgeFits(store)
  BY <1>1, SessionTypeCorrect, BadgeStep, PTL DEF Spec
<1>3. BadgeFits(store) => BadgeOfUnmarkedPushes
  BY DEF BadgeFits, BadgeOfUnmarkedPushes
<1> QED
  BY <1>2, <1>3, PTL
===============================================================================
