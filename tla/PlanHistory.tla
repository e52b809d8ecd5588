----------------------------- MODULE PlanHistory -----------------------------
(* What a user may expect of his schedule plans when his requests come one    *)
(* after the other: every operation of ptm_schedule takes one step on the     *)
(* plans as they are, or none.  At most one of them is in use, but for a      *)
(* revert that lost the reading of it.                                        *)
EXTENDS Naturals, FiniteSets, PlanStatus

CONSTANTS Plans, Algorithms

VARIABLES
    plan,       \* the plans by their ids
    lost        \* readings of the active plan that nobody noticed were lost

vars == <<plan, lost>>

Row(status, parent, algo) == [status |-> status, parent |-> parent, algo |-> algo]
NoPlan == Row("ABSENT", 0, "HYBRID")

Stored(p) == plan[p].status # "ABSENT"
Active == {p \in Plans : plan[p].status = "ACTIVE"}

\* The plan the user works with, if there is one.
InUse == {p \in Active : \A q \in Active : p <= q}

\* An id later than every plan's, of which no plan was made.
Unused(n) == ~Stored(n) /\ \A q \in Plans : Stored(q) => q < n /\ plan[q].parent # n
Newest(p) == \A q \in Plans : Stored(q) => q <= p

\* A proposal that stands in the way of another one.
Proposed(algo) == \E p \in Plans : plan[p].status = "PROPOSED" /\ plan[p].algo = algo

Become(p, status) == [plan[p] EXCEPT !.status = status]
Set(p, row) == plan' = [plan EXCEPT ![p] = row]

\* A plan comes into use and the one in use is archived.
Succeed(p, row) ==
    plan' = [q \in Plans |-> IF q = p THEN row
                             ELSE IF q \in InUse THEN Become(q, "ARCHIVED") ELSE plan[q]]

-----------------------------------------------------------------------------
Init ==
    /\ plan = [p \in Plans |-> NoPlan]
    /\ lost = 0

\* A user without an active plan gets one.
Open(n) == Active = {} /\ Unused(n) /\ Set(n, Row("ACTIVE", 0, "HYBRID"))

\* An applied plan becomes a version of the one it replaces.
Apply(p) ==
    /\ plan[p].status = "PROPOSED"
    /\ \E parent \in IF InUse = {} THEN {plan[p].parent} ELSE InUse :
         Succeed(p, Row("ACTIVE", parent, plan[p].algo))

\* An archived plan comes back as a plan of its own.
Revert(p, n) ==
    /\ plan[p].status = "ARCHIVED" /\ Unused(n)
    /\ Succeed(n, Row("ACTIVE", p, plan[p].algo))

\* ... beside the plans in use, one for every reading that was lost.
RevertBeside(p, n) ==
    /\ plan[p].status = "ARCHIVED" /\ Unused(n)
    /\ Cardinality(Active) <= lost
    /\ Set(n, Row("ACTIVE", p, plan[p].algo))

\* A draft is made of the plan in use, or of none.
Draft(n, algo) ==
    /\ Unused(n)
    /\ \E parent \in InUse \cup {0} : Set(n, Row("DRAFT", parent, algo))

\* The optimization of the newest draft, beside no other of its algorithm.
Optimize(p) ==
    /\ plan[p].status = "DRAFT" /\ Newest(p) /\ ~Proposed(plan[p].algo)
    /\ Set(p, Become(p, "PROCESSING"))

Propose(p) ==
    /\ plan[p].status = "PROCESSING" /\ Newest(p) /\ ~Proposed(plan[p].algo)
    /\ Set(p, Become(p, "PROPOSED"))

Fail(p) == plan[p].status = "PROCESSING" /\ Newest(p) /\ Set(p, Become(p, "FAILED"))

Discard(p) == CanTransitionTo(plan[p].status, "DISCARDED") /\ Set(p, Become(p, "DISCARDED"))

Forget(p) == plan[p].status \in {"ARCHIVED", "DISCARDED"} /\ Set(p, NoPlan)

Lose == lost' = lost + 1 /\ UNCHANGED plan

Change ==
    \/ \E p \in Plans : Open(p) \/ Apply(p) \/ Optimize(p) \/ Propose(p) \/ Fail(p)
                          \/ Discard(p) \/ Forget(p)
    \/ \E p, n \in Plans : Revert(p, n) \/ RevertBeside(p, n)
    \/ \E n \in Plans, algo \in Algorithms : Draft(n, algo)

Next == (Change /\ UNCHANGED lost) \/ Lose

Spec == Init /\ [][Next]_vars
=============================================================================
