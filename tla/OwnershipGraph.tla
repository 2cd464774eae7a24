---------------------------- MODULE OwnershipGraph ----------------------------
(***************************************************************************)
(* The relationship graph (internal/relations/relations.go): owner edges   *)
(* from users to records, kept by SpiceDB outside the service.  The HTTP   *)
(* server writes edges for an administrator, the engine reads them with    *)
(* full consistency, and Connect seeds the demonstration edges each time   *)
(* the service starts.                                                     *)
(***************************************************************************)
EXTENDS Database, Policy

CONSTANT
  Seed     \* the edges Connect grants at startup

VARIABLE
  edges    \* the owner edges, pairs of a user and a record

ASSUME GraphAssumption == Seed \subseteq Users \X Records

GraphTypeOK == edges \subseteq Users \X Records

GraphInit == edges = IF UseGraph THEN Seed ELSE {}

\* OPERATION_TOUCH and OPERATION_DELETE: both idempotent.
Grant(user, record) == edges' = edges \union {<<user, record>>}

Revoke(user, record) == edges' = edges \ {<<user, record>>}

\* POST /relations/grant and /relations/revoke: 404 when no graph is configured, 400
\* without a user or a record.
AdministerGraph ==
  /\ UseGraph
  /\ \E user \in Users \ {NoName}, record \in Records :
       Grant(user, record) \/ Revoke(user, record)

\* Connect: the schema is rewritten and every seed edge is granted again.
SeedGraph == edges' = IF UseGraph THEN edges \union Seed ELSE edges

\* Mutant of OwnerAnswers: CheckOwner retries until the graph answers.
OwnerAnswersInsistent(call, context) ==
  {answer \in {"owner", "not_owner"} :
     answer = IF <<call.user, call.record>> \in edges THEN "owner" ELSE "not_owner"}
    \intersect IF context = "live" THEN {"owner", "not_owner"} ELSE {}

\* What CheckOwner may answer for a call under a request context.
OwnerAnswers(call, context) ==
  {answer \in {"owner", "not_owner", "error"} :
     \/ answer = "owner" /\ context = "live" /\ <<call.user, call.record>> \in edges
     \/ answer = "not_owner" /\ context = "live" /\ <<call.user, call.record>> \notin edges
     \/ answer = "error" /\ (context # "live" \/ "graph" \in Faults)}

=============================================================================
