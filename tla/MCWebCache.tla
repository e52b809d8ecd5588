----------------------------- MODULE MCWebCache -----------------------------
(* The endpoints of the web client: a view and a call at a time, and calls    *)
(* that are under way together.                                               *)
EXTENDS EndpointFacts

MCScenes == PairScenes \cup EditScenes
=============================================================================
