----------------------------- MODULE PlanStatus -----------------------------
(* The status of a schedule plan and the changes of it the entity allows.     *)

PlanStatuses == {"DRAFT", "PROCESSING", "PROPOSED", "ACTIVE", "COMPLETED",
                 "ARCHIVED", "DISCARDED", "FAILED"}

\* "Terminal States" of CanTransitionTo.
TerminalStatuses == {"COMPLETED", "ARCHIVED", "DISCARDED"}

Transitions ==
    {<<"DRAFT", "PROCESSING">>, <<"DRAFT", "DISCARDED">>,
     <<"PROCESSING", "PROPOSED">>, <<"PROCESSING", "ACTIVE">>, <<"PROCESSING", "FAILED">>,
     <<"PROPOSED", "ACTIVE">>, <<"PROPOSED", "DISCARDED">>, <<"PROPOSED", "PROCESSING">>,
     <<"ACTIVE", "ARCHIVED">>, <<"ACTIVE", "COMPLETED">>, <<"ACTIVE", "PROCESSING">>,
     <<"FAILED", "PROCESSING">>, <<"FAILED", "DISCARDED">>}

CanTransitionTo(status, target) == <<status, target>> \in Transitions
=============================================================================
