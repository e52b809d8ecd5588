------------------------- MODULE NotificationStore -------------------------
(* The notifications slice of the web client: what a pushed message and a     *)
(* click do to its list and to the number on the bell. (The menus show the    *)
(* answer of getNotifications in the place of the list once there is one.)    *)
(* The reducers that nothing dispatches are left out; so are the categories   *)
(* and urgency, which are counted as the total is.                            *)
EXTENDS Integers

\* How many entries of a notification the list has, unread and read ones.
NoEntries == [unread |-> 0, read |-> 0]

EmptyStore(notes) == [list |-> [n \in notes |-> NoEntries], unreadCount |-> 0, wsConnected |-> FALSE]

\* INITIAL_DATA: the number of the server replaces the one of the client.
WithInitialData(s, totalUnread) == [s EXCEPT !.unreadCount = totalUnread]

\* NEW_NOTIFICATION: an unread entry in front, whether there is one already or not.
WithNew(s, n) ==
    [s EXCEPT !.list[n] = [unread |-> @.unread + 1, read |-> @.read],
              !.unreadCount = @ + 1]

\* Mutant: without Math.max.
LessWithoutFloor(count, k) == count - k

Less(count, k) == IF count > k THEN count - k ELSE 0

\* Mutant: one less for a notification, however many entries it has.
WithReadOnce(s, n) ==
    [s EXCEPT !.list[n] = [unread |-> 0, read |-> @.unread + @.read],
              !.unreadCount = IF s.list[n].unread > 0 THEN Less(@, 1) ELSE @]

\* markAsRead: every unread entry of the id, each counted down to zero at least.
WithRead(s, n) ==
    [s EXCEPT !.list[n] = [unread |-> 0, read |-> @.unread + @.read],
              !.unreadCount = Less(@, s.list[n].unread)]

WithConnection(s, connected) == [s EXCEPT !.wsConnected = connected]
=============================================================================
