---------------------------- MODULE MCDiscussChat ----------------------------
(* Seven kinds of afternoon for TLC; see Budgets in DiscussChat.                *)
EXTENDS DiscussChat

CONSTANTS a, b, c, me, peer, u

MCBacklog == <<a, a, b, a>>

Nothing == [posts |-> 0, changes |-> 0, sends |-> 0, mutations |-> 0, opens |-> 0,
            scrolls |-> 0, faults |-> 0, typings |-> 0]

Reading   == [Nothing EXCEPT !.posts = 1, !.changes = 1, !.opens = 2]
Sending   == [Nothing EXCEPT !.posts = 1, !.sends = 2, !.opens = 1]
Mutating  == [Nothing EXCEPT !.sends = 1, !.mutations = 1, !.opens = 1]
Failing   == [Nothing EXCEPT !.posts = 1, !.sends = 1, !.opens = 1, !.faults = 2]
Scrolling == [Nothing EXCEPT !.scrolls = 3, !.opens = 1, !.faults = 3]
Wandering == [Nothing EXCEPT !.scrolls = 3, !.opens = 3]
Chatting  == [Nothing EXCEPT !.typings = 2, !.faults = 2]

MCBudgets == {Reading, Sending, Mutating, Failing, Scrolling, Wandering, Chatting}
=============================================================================
