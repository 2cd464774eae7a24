------------------------------ MODULE AgentGate ------------------------------
(***************************************************************************)
(* The whole service between an agent and the tool server: the checks of   *)
(* Authz and the clicks of Executor over one policy engine, one graph and  *)
(* one table of parked calls, the gateway that forwards what it may, and   *)
(* the tool server that runs what is forwarded.                            *)
(*                                                                         *)
(* A check parks the call that a click takes up later; an approval reloads *)
(* the policies that the next check decides on; a crash ends both.  The    *)
(* log is one table in the code: `decisions' are the rows checks write,    *)
(* `audit' those that clicks write.                                        *)
(*                                                                         *)
(* Nobody reaches the tool server but through the gateway or the executor. *)
(* The deployment has to see to that: the compose file of the demo also    *)
(* publishes the tool server's port (docker-compose.yaml:8-9), and whoever *)
(* calls it there is outside this model.                                   *)
(***************************************************************************)
EXTENDS Executor, CheckRequest

CONSTANTS
  Asks, NoOne, SlackOn,   \* as in Authz
  Stock                   \* the records the tool server starts with

VARIABLES
  decisions, ask, who, checkPc, checkCtx, basis,       \* as in Authz
  verdict, known, reply, answered, cards,
  records, handler,                                    \* as in ToyServer
  demoted      \* for each click, the users whose roles Keycloak had taken away before it

Checks == INSTANCE Authz WITH audit <- decisions, pc <- checkPc, ctx <- checkCtx

ToolServer == INSTANCE ToyServer WITH Served <- Requests \union TxIds

ASSUME GateAssumption == Checks!AuthzConstants /\ Stock \subseteq Records

sharedVars == <<file, loaded, edges, rows, up, crashes>>
clickVars == <<audit, job, handlerVars, tool, historyVars>>
checkVars == <<decisions, ask, who, checkPc, checkCtx, basis, verdict, known, reply, answered,
               cards>>
toolVars == <<records, handler>>
gateVars == <<sharedVars, clickVars, checkVars, toolVars, demoted>>

GateTypeOK ==
  /\ TypeOK /\ Checks!TypeOK /\ ToolServer!ToyTypeOK
  /\ demoted \in [Requests -> SUBSET Users]

GateInit ==
  /\ Init /\ Checks!Init /\ ToolServer!ToyInit
  /\ demoted = [h \in Requests |-> {}]

-----------------------------------------------------------------------------

\* A click goes on: Approve and Deny.
Click(h) ==
  /\ Receive(h) \/ Step(h) \/ Disconnect(h)
  /\ UNCHANGED <<checkVars, toolVars, demoted>>

\* A check goes on; where it parks a call, the row is there for the clicks.
Check(c) ==
  /\ Checks!Arrive(c) \/ Checks!Step(c) \/ Checks!Disconnect(c)
  /\ UNCHANGED <<clickVars, toolVars, demoted>>

\* The tool server works on a call that callTool sent.
ServeApproved(h) ==
  /\ tool[h] = "sent"
  /\ ToolServer!Serve(h, TRUE, Call(h).record)
  /\ tool' = [tool EXCEPT ![h] = IF handler'[h] \in {"ran", "refused"} THEN handler'[h] ELSE "sent"]
  /\ UNCHANGED <<sharedVars, audit, job, handlerVars, historyVars, checkVars, demoted>>

\* Mutant of Forwards: a denial is an HTTP 200 with a body, and the gateway goes by that.
ForwardsAny(c) == c \in answered

\* The gateway forwards a request it was told to let through.
Forwards(c) == c \in answered /\ reply[c] = "allow"

\* Assumed of the gateway's MCP backend and of the tool server: they take for a
\* call what Parse took for one. Parse lets a body pass that it cannot decode.
ReachesTool(body) == IsToolCall(body)

\* The tool server works on a call that the gateway forwarded.
ServeForwarded(c) ==
  /\ Forwards(c) /\ ReachesTool(ask[c].body)
  /\ ToolServer!Serve(c, ask[c].body.tool \in DestructiveTools, ask[c].body.id)
  /\ UNCHANGED <<sharedVars, clickVars, checkVars, demoted>>

ToolServerCrash == ToolServer!ToyCrash /\ UNCHANGED <<sharedVars, clickVars, checkVars, demoted>>

OperatorEdits == EditFile /\ UNCHANGED <<checkVars, toolVars, demoted>>

AdminEdits == Administer /\ UNCHANGED <<checkVars, toolVars, demoted>>

\* An administrator of Keycloak takes the roles of a user away; tokens that were
\* issued before keep them.
Demote(u) ==
  /\ demoted' = [h \in Requests |-> IF pc[h] = "idle" THEN demoted[h] \union {u} ELSE demoted[h]]
  /\ UNCHANGED <<sharedVars, clickVars, checkVars, toolVars>>

ProcessCrash == Crash /\ Checks!Crash /\ UNCHANGED <<toolVars, demoted>>

ProcessRestart == Restart /\ Checks!Restart /\ UNCHANGED <<toolVars, demoted>>

GateNext ==
  \/ \E h \in Requests : Click(h) \/ ServeApproved(h)
  \/ \E c \in TxIds : Check(c) \/ ServeForwarded(c)
  \/ ToolServerCrash \/ OperatorEdits \/ AdminEdits \/ ProcessCrash \/ ProcessRestart

GateSpec == GateInit /\ [][GateNext]_gateVars

\* Demotions change nothing but what one expects of a re-check.
DemotionSpec == GateInit /\ [][GateNext \/ \E u \in Users : Demote(u)]_gateVars

-----------------------------------------------------------------------------
(* Properties.                                                              *)

\* Executor was checked and proved with checks reduced to ParkCall: composed
\* with the real ones, and with a tool server that has handlers, it is still
\* what the clicks do, so its theorems hold of the whole (server.go:103,
\* executor.go:37-101).
ClicksAreExecutor == Spec

\* The row of the log that the parked call tx stems from.
AskedFor(tx, d) ==
  /\ d \in decisions /\ d.id = tx /\ d.decision = "needs_approval"
  /\ rows[tx].call = Requested(who[tx], ask[tx].body)
  /\ CedarAllows(d.basis, rows[tx].call)

\* Request h had every right to send its call: a human clicked "approve" and took
\* the row, which still says so; a text and an edge that held between the click
\* and the end of the re-check let the call through; and an agent had made that
\* very call under an identity for which a logged decision asked for an approval.
Authorised(h) ==
  /\ job[h].button = "approve"
  /\ rows[Tx(h)].by = h /\ rows[Tx(h)].state \in {"approved", "executed", "failed"}
  /\ Rechecked(h)
  /\ \E d \in decisions : AskedFor(Tx(h), d)

\* From the agent to the tool: a record disappears only in the handler of a call
\* that names it and that was approved, re-checked and asked for as Authorised
\* says, as long as the gateway and the executor are the only ways to the tool
\* server (server.go:89-105, executor.go:38-66, main.go:53-64 of the tool).
RecordsGoByApproval ==
  [][\A r \in records \ records' :
       \E h \in Requests :
         /\ handler[h] = "remove" /\ handler'[h] = "ran"
         /\ Call(h).record = r
         /\ Authorised(h)]_gateVars

\* What the tool server was given: approved calls, each with its re-check and its
\* decision in the log, and calls that a policy allowed without asking anybody,
\* none of them destructive and none of them waiting for an approval as well
\* (executor.go:38-66, server.go:89-125).
EveryCallAccounted ==
  /\ \A h \in Requests : handler[h] # "none" => Authorised(h)
  /\ \A c \in TxIds : handler[c] # "none" =>
       /\ rows[c].state = "absent"
       /\ ask[c].body.tool \notin DestructiveTools
       /\ CedarAllows(basis[c], Requested(who[c], ask[c].body))

-----------------------------------------------------------------------------
(* What the documentation says and the code does not do.                     *)

\* "demote the user's role [...] then click Approve and confirm the re-check
\* catches it and denies" (docs/AgentGate_Execution_Plan.md:91): a re-check of a
\* call of a user who was demoted before the click lets nothing through.
RecheckSeesDemotion ==
  [][\A h \in Requests :
       pc[h] = "snapshot" /\ pc'[h] \in {"owner", "call"} =>
         Call(h).user \notin demoted[h]]_gateVars

=============================================================================
