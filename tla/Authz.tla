--------------------------------- MODULE Authz ---------------------------------
(***************************************************************************)
(* The ext_authz service (internal/authz/server.go): what the gateway asks *)
(* before it forwards a request of an agent, and what it is told.          *)
(*                                                                         *)
(* Each Check runs in a goroutine of its own.  It resolves the caller,     *)
(* decides, writes the decision to the audit log, parks a call that needs  *)
(* an approval under the transaction id of that audit row, tells Slack,    *)
(* and answers.  Approvals reload the policies meanwhile (see Executor).   *)
(***************************************************************************)
EXTENDS AuditLog, OwnershipGraph, CheckRequest, Naturals

CONSTANTS
  Asks,        \* the requests the gateway asks about
  NoOne,       \* nobody was resolved
  SlackOn,     \* Slack is configured
  MaxCrashes   \* bound on the crashes of the process in one behaviour

VARIABLES
  up,        \* the process runs
  crashes,   \* how often it crashed
  ask,       \* what each check is about; a check is named by the id of its audit row
  who,       \* the identity it resolved
  pc,        \* the next step of each check's goroutine
  ctx,       \* its context, cancelled when the gateway gives up on the check
  basis,     \* the policy text it decided on
  verdict,   \* what the engine, or the rule for protocol messages, says
  known,     \* Record returned the transaction id
  reply,     \* what Check returns
  answered,  \* the checks whose reply reached the gateway
  cards      \* the transactions Slack shows a card with buttons for

AuthzConstants ==
  /\ Asks \subseteq CheckRequests
  /\ SlackOn \in BOOLEAN
  /\ MaxCrashes \in Nat
  /\ NoOne \notin Identities
  /\ \A a \in Asks, i \in Identities : a.body.tool \in DestructiveTools =>
       Requested(i, a.body) \in Attempts

ASSUME AuthzAssumption == AuthzConstants

policyVars == <<file, loaded>>
processVars == <<up, crashes>>
checkVars == <<who, pc, ctx, basis, verdict, known, reply>>
vars == <<policyVars, edges, rows, audit, processVars, ask, checkVars, answered, cards>>

Steps == {"idle", "policy", "owner", "record", "park", "slack", "answer", "done", "dead"}
Verdicts == {"none", "allow", "deny", "needs_approval"}
Replies == {"none", "allow", "denied", "pending", "error"}

Call(c) == Requested(who[c], ask[c].body)
Active(c) == pc[c] \notin {"idle", "done", "dead"}

TypeOK ==
  /\ PolicyTypeOK /\ GraphTypeOK /\ StoreTypeOK /\ AuditTypeOK
  /\ up \in BOOLEAN
  /\ crashes \in 0..MaxCrashes
  /\ ask \in [TxIds -> Asks]
  /\ who \in [TxIds -> Identities \union {NoOne}]
  /\ pc \in [TxIds -> Steps]
  /\ ctx \in [TxIds -> Contexts]
  /\ basis \in [TxIds -> Texts \union {NoText}]
  /\ verdict \in [TxIds -> Verdicts]
  /\ known \in [TxIds -> BOOLEAN]
  /\ reply \in [TxIds -> Replies]
  /\ answered \subseteq TxIds
  /\ cards \subseteq TxIds

Init ==
  /\ PolicyInit /\ GraphInit /\ StoreInit /\ AuditInit
  /\ up = TRUE
  /\ crashes = 0
  /\ ask \in [TxIds -> Asks]
  /\ who = [c \in TxIds |-> NoOne]
  /\ pc = [c \in TxIds |-> "idle"]
  /\ ctx = [c \in TxIds |-> "live"]
  /\ basis = [c \in TxIds |-> NoText]
  /\ verdict = [c \in TxIds |-> "none"]
  /\ known = [c \in TxIds |-> FALSE]
  /\ reply = [c \in TxIds |-> "none"]
  /\ answered = {}
  /\ cards = {}

-----------------------------------------------------------------------------
(* Steps of a check.                                                        *)

GoTo(c, step) ==
  /\ pc' = [pc EXCEPT ![c] = step]
  /\ ctx' = [ctx EXCEPT ![c] = AfterStep(ctx[c])]

\* Check is about to return r.
Return(c, r) ==
  /\ GoTo(c, "answer")
  /\ reply' = [reply EXCEPT ![c] = r]

Decided(c, v) ==
  /\ GoTo(c, "record")
  /\ verdict' = [verdict EXCEPT ![c] = v]

\* A request without an identity is denied, and leaves no audit row.
Unresolved(c) ==
  /\ FromCheckRequest(ask[c]) = {}
  /\ Return(c, "denied") /\ UNCHANGED <<who, verdict>>

\* Whatever is not tools/call is allowed.
Resolved(c) ==
  /\ \E i \in FromCheckRequest(ask[c]) : who' = [who EXCEPT ![c] = i]
  /\ \/ ~IsToolCall(ask[c].body) /\ Decided(c, "allow") /\ UNCHANGED reply
     \/ IsToolCall(ask[c].body) /\ GoTo(c, "policy") /\ UNCHANGED <<verdict, reply>>

\* Check up to the engine.
Arrive(c) ==
  /\ up /\ pc[c] = "idle"
  /\ Unresolved(c) \/ Resolved(c)
  /\ UNCHANGED <<policyVars, edges, rows, audit, processVars, ask, basis, known, answered, cards>>

\* Engine.Decide up to the question to the graph, if there is one.
Snapshot(c) ==
  /\ pc[c] = "policy"
  /\ basis' = [basis EXCEPT ![c] = loaded]
  /\ \/ AsksGraph(loaded, Call(c)) /\ GoTo(c, "owner") /\ UNCHANGED verdict
     \/ ~AsksGraph(loaded, Call(c)) /\ Decided(c, EngineDecide(loaded, Call(c), "error"))
  /\ UNCHANGED <<policyVars, edges, rows, audit, processVars, ask, who, known, reply, answered,
                 cards>>

\* Engine.Decide from CheckOwner on.
AskOwner(c) ==
  /\ pc[c] = "owner"
  /\ \E answer \in OwnerAnswers(Call(c), ctx[c]) :
       Decided(c, EngineDecide(basis[c], Call(c), answer))
  /\ UNCHANGED <<policyVars, edges, rows, audit, processVars, ask, who, basis, known, reply,
                 answered, cards>>

\* The nil slice of a caller without roles becomes NULL, which the column refuses.
RecordOutcomes(c) == IF who[c].roles = {} THEN {"error"} ELSE Outcomes(ctx[c])

\* Mutant of RecordDecision: Check draws the transaction id itself and keeps it
\* when the write fails.
RecordDecisionOwnId(c) ==
  /\ pc[c] = "record"
  /\ \E out \in RecordOutcomes(c) : Record(c, c, verdict[c], basis[c], out)
  /\ known' = [known EXCEPT ![c] = TRUE]
  /\ \/ verdict[c] = "allow" /\ Return(c, "allow")
     \/ verdict[c] = "deny" /\ Return(c, "denied")
     \/ verdict[c] = "needs_approval" /\ GoTo(c, "park") /\ UNCHANGED reply
  /\ UNCHANGED <<policyVars, edges, rows, processVars, ask, who, basis, verdict, answered, cards>>

\* record: a failure is logged and yields the empty transaction id.
RecordDecision(c) ==
  /\ pc[c] = "record"
  /\ \E out \in RecordOutcomes(c) :
       /\ Record(c, c, verdict[c], basis[c], out)
       /\ known' = [known EXCEPT ![c] = (out = "ok")]
  /\ \/ verdict[c] = "allow" /\ Return(c, "allow")
     \/ verdict[c] = "deny" /\ Return(c, "denied")
     \/ verdict[c] = "needs_approval" /\ GoTo(c, "park") /\ UNCHANGED reply
  /\ UNCHANGED <<policyVars, edges, rows, processVars, ask, who, basis, verdict, answered, cards>>

\* The pending row is there, and its id known: tell Slack if configured.
Parked(c) ==
  \/ SlackOn /\ GoTo(c, "slack") /\ UNCHANGED reply
  \/ ~SlackOn /\ Return(c, "pending")

\* Mutant of ParkCall: the error of Park is only logged, as that of Record is.
ParkCallIgnoresError(c) ==
  /\ pc[c] = "park"
  /\ \E out \in Outcomes(ctx[c]) : known[c] /\ Park(c, Call(c), out) /\ Parked(c)
  /\ UNCHANGED <<policyVars, edges, audit, processVars, ask, who, basis, verdict, known,
                 answered, cards>>

\* Mutant of ParkCall: without an id from the log, Check makes one up.
ParkCallFreshId(c) ==
  /\ pc[c] = "park"
  /\ \E out \in Outcomes(ctx[c]) :
       /\ Park(c, Call(c), out)
       /\ (out = "ok" /\ Parked(c)) \/ (out # "ok" /\ Return(c, "error"))
  /\ UNCHANGED <<policyVars, edges, audit, processVars, ask, who, basis, verdict, known,
                 answered, cards>>

\* Mutant of ParkCall: Check tries again until the row is there, with an upsert
\* because an INSERT whose reply was lost would stand in its way.
ParkCallRetries(c) ==
  /\ pc[c] = "park"
  /\ \/ ~known[c] /\ Return(c, "error") /\ UNCHANGED rows
     \/ /\ known[c]
        /\ \E out \in Outcomes(ctx[c]) :
             /\ ParkUpserts(c, Call(c), out)
             /\ \/ out = "ok" /\ Parked(c)
                \/ out # "ok" /\ GoTo(c, "park") /\ UNCHANGED reply
  /\ UNCHANGED <<policyVars, edges, audit, processVars, ask, who, basis, verdict, known,
                 answered, cards>>

\* approvals.Park: the empty id is no UUID, so the INSERT fails; Check then
\* answers with an error and fails closed.
ParkCall(c) ==
  /\ pc[c] = "park"
  /\ \/ ~known[c] /\ Return(c, "error") /\ UNCHANGED rows
     \/ /\ known[c]
        /\ \E out \in Outcomes(ctx[c]) :
             /\ Park(c, Call(c), out)
             /\ \/ out = "ok" /\ Parked(c)
                \/ out # "ok" /\ Return(c, "error")
  /\ UNCHANGED <<policyVars, edges, audit, processVars, ask, who, basis, verdict, known,
                 answered, cards>>

\* slack.PostApprovalRequest: neither the context nor a timeout bounds it, and an
\* error is only logged.
PostToSlack(c) ==
  /\ pc[c] = "slack"
  /\ cards' = cards \union {c} \/ ("slack" \in Faults /\ cards' = cards)
  /\ Return(c, "pending")
  /\ UNCHANGED <<policyVars, edges, rows, audit, processVars, ask, who, basis, verdict, known,
                 answered>>

\* The reply reaches the gateway, if it still waits for it.
Answer(c) ==
  /\ pc[c] = "answer"
  /\ pc' = [pc EXCEPT ![c] = "done"] /\ ctx' = [ctx EXCEPT ![c] = "live"]
  /\ answered' = IF ctx[c] = "live" THEN answered \union {c} ELSE answered
  /\ UNCHANGED <<policyVars, edges, rows, audit, processVars, ask, who, basis, verdict, known,
                 reply, cards>>

-----------------------------------------------------------------------------
(* Everyone else.                                                           *)

\* What a Reload of an approval can do to the engine: any text that parses.
Reload ==
  /\ up
  /\ \E t \in Texts : t.parses /\ SwapPolicies(t)
  /\ UNCHANGED <<edges, rows, audit, processVars, ask, checkVars, answered, cards>>

Administer ==
  /\ up
  /\ AdministerGraph
  /\ UNCHANGED <<policyVars, rows, audit, processVars, ask, checkVars, answered, cards>>

\* The gateway gives up on a check.
Disconnect(c) ==
  /\ "disconnect" \in Faults
  /\ Active(c) /\ ctx[c] = "live"
  /\ ctx' = [ctx EXCEPT ![c] = "cancelling"]
  /\ UNCHANGED <<policyVars, edges, rows, audit, processVars, ask, who, pc, basis, verdict,
                 known, reply, answered, cards>>

Crash ==
  /\ "crash" \in Faults
  /\ up /\ crashes < MaxCrashes
  /\ up' = FALSE /\ crashes' = crashes + 1
  /\ pc' = [c \in TxIds |-> IF Active(c) THEN "dead" ELSE pc[c]]
  /\ ctx' = [c \in TxIds |-> "live"]
  /\ UNCHANGED <<policyVars, edges, rows, audit, ask, who, basis, verdict, known, reply,
                 answered, cards>>

Restart ==
  /\ ~up
  /\ up' = TRUE
  /\ \E t \in Texts : t.parses /\ SwapPolicies(t)
  /\ SeedGraph
  /\ UNCHANGED <<rows, audit, crashes, ask, checkVars, answered, cards>>

Step(c) ==
  \/ Snapshot(c) \/ AskOwner(c) \/ RecordDecision(c) \/ ParkCall(c) \/ PostToSlack(c)
  \/ Answer(c)

Next ==
  \/ \E c \in TxIds : Arrive(c) \/ Step(c) \/ Disconnect(c)
  \/ Reload \/ Administer \/ Crash \/ Restart

Spec == Init /\ [][Next]_vars

\* Nothing makes PostToSlack return.
Fairness == \A c \in TxIds : WF_vars(Step(c) /\ pc[c] # "slack")

FairSpec == Spec /\ Fairness

-----------------------------------------------------------------------------
(* Properties.                                                              *)

\* A parked call has the audit row of its attempt under the same id, and that
\* row says the policy it was decided on asked for an approval ("so the two
\* records stay linked", store.go:37-38), whatever reply was lost on the way.
ParkedIsLinked ==
  \A c \in TxIds : rows[c].state # "absent" =>
    \E r \in audit :
      /\ r.id = c /\ r.decision = "needs_approval"
      /\ rows[c].call.tool \in DestructiveTools /\ CedarAllows(r.basis, rows[c].call)

\* What the gateway is told is so (Check, server.go:95-134): it lets a call
\* through only if some policy allowed it without an approval; an agent told to
\* wait has a row to wait for, and one told "denied" has none.
RepliesAreTrue ==
  \A c \in answered :
    /\ reply[c] = "allow" =>
         ~IsToolCall(ask[c].body)
           \/ (Call(c).tool \notin DestructiveTools /\ CedarAllows(basis[c], Call(c)))
    /\ reply[c] = "pending" => rows[c].state # "absent"
    /\ reply[c] = "denied" => rows[c].state = "absent"

\* An object has the name and the roles of the caller, each in one of the two
\* places that the code looks at.
Carries(object, caller) ==
  /\ \/ object.onBehalfOf = {caller.user} /\ caller.user # NoName
     \/ object.onBehalfOf \subseteq {NoName} /\ object.preferred = caller.user
  /\ \/ object.roles = {caller.roles}
     \/ object.roles = {} /\ object.realm = {caller.roles}
     \/ object.roles = {} /\ object.realm = {} /\ caller.roles = {}

\* The claims that a walk of the metadata may come upon first, be they one object
\* or several, all have the caller; what lies inside of claims may not.
MetadataNames(request) ==
  \A m \in ClaimsFromMetadata(request) : Carries(m, request.caller)

\* A check acts for whom the token was issued: from the header or from the
\* metadata, from any of several differing objects there and in whatever order
\* maps are walked, whichever place name and roles are in, and whoever else is
\* named inside of the claims, as long as no other claims are beside them
\* (identity.go:38-135).
ActsForCaller ==
  \A c \in TxIds : who[c] # NoOne /\ MetadataNames(ask[c]) => who[c] = ask[c].caller

\* The buttons of a Slack card name a row that exists, so that clicking them
\* finds it (Park before PostApprovalRequest, server.go:103-118).
CardsHaveRows == \A c \in cards : rows[c].state # "absent"

\* Every check comes to its end, unless the process dies or Slack does not
\* answer (server.go:117-121 with slack.go:70).
ChecksEnd ==
  \A c \in TxIds : Active(c) ~> pc[c] \in {"done", "dead", "slack"}

-----------------------------------------------------------------------------
(* What the documentation says and the code does not do.                     *)

\* "one row per authorization decision, written BEFORE the answer goes back to
\* the gateway" (migrations/001_audit_log.sql:1-2): once a check of a tool call
\* was answered, its decision is in the log.
DecisionsAreLogged ==
  \A c \in answered : who[c] # NoOne => \E r \in audit : r.about = c

=============================================================================
