------------------------------- MODULE Executor -------------------------------
(***************************************************************************)
(* Decisions of humans and what follows from them                          *)
(* (internal/approval/executor.go, called by the handlers of http.go).     *)
(*                                                                         *)
(* Each click is an HTTP request served by a goroutine of its own.  An     *)
(* approval takes the row by a compare-and-set, reads it back, reloads the *)
(* policy file, re-checks the call, forwards it to the tool and writes     *)
(* down how it ended; a denial takes the row and writes that down.  Every  *)
(* read of the file, critical section, statement and call to a service is  *)
(* a step of its own, because other requests, the operator, the client and *)
(* crashes of the process come between any two of them.                    *)
(***************************************************************************)
EXTENDS AuditLog, OwnershipGraph, Naturals

CONSTANT
  MaxCrashes   \* bound on the crashes of the process in one behaviour

VARIABLES
  up,       \* the process of the governance service runs
  crashes,  \* how often it crashed
  job,      \* what each request asks for: the button and the transaction
  pc,       \* the next step of each request's goroutine
  ctx,      \* the context of each request
  text,     \* the policy text it read from the file, then the one it decided on
  plan,     \* how its approval ended: decides state, result and audit row
  tool,     \* what became of the tool call it sent; outlives the process
  since,    \* history: texts the file held since it took the row for approval
  carried,  \* history: texts other reloads had read and not swapped in by then
  held      \* history: edges the graph had since it took the row for approval

ASSUME ExecutorAssumption ==
  /\ MaxCrashes \in Nat
  /\ Attempts \subseteq {c \in Calls : c.tool \in DestructiveTools}
  /\ Requests \intersect TxIds = {}

policyVars == <<file, loaded>>
handlerVars == <<pc, ctx, text, plan>>
historyVars == <<since, carried, held>>
processVars == <<up, crashes>>
vars == <<policyVars, edges, rows, audit, processVars, job, handlerVars, tool, historyVars>>

Jobs == [button : {"approve", "deny"}, tx : TxIds]

Steps == {"idle", "decide", "get", "read", "swap", "snapshot", "owner", "call",
          "await", "result", "audit", "done", "dead"}

Plans == {"none", "executed", "error", "void", "denied"}

ToolStates == {"none", "sent", "ran", "refused"}

\* The goroutine of a request is running.
Active(h) == pc[h] \notin {"idle", "done", "dead"}

\* Between the moment an approval took the row and the end of its re-check.
Rechecking(h) == pc[h] \in {"get", "read", "swap", "snapshot", "owner"}

Tx(h) == job[h].tx
Call(h) == rows[Tx(h)].call

\* Mutant of FinalState: refuse files the call under "denied".
FinalStateVoidDenied(p) == CASE p = "executed" -> "executed"
                             [] p \in {"denied", "void"} -> "denied"
                             [] OTHER -> "failed"

\* The state, the result column and the audit decision of each way to end.
FinalState(p) == CASE p = "executed" -> "executed"
                   [] p = "denied" -> "denied"
                   [] OTHER -> "failed"

FinalResult(p) == CASE p = "executed" -> "output"
                    [] p = "denied" -> "denied"
                    [] p = "void" -> "void"
                    [] OTHER -> "error"

FinalDecision(p) == CASE p = "executed" -> "executed_after_approval"
                      [] p = "denied" -> "denied_by_human"
                      [] p = "void" -> "deny"
                      [] OTHER -> "execute_failed"

TypeOK ==
  /\ PolicyTypeOK /\ GraphTypeOK /\ StoreTypeOK /\ AuditTypeOK
  /\ up \in BOOLEAN
  /\ crashes \in 0..MaxCrashes
  /\ job \in [Requests -> Jobs]
  /\ pc \in [Requests -> Steps]
  /\ ctx \in [Requests -> Contexts]
  /\ text \in [Requests -> Texts \union {NoText}]
  /\ plan \in [Requests -> Plans]
  /\ tool \in [Requests -> ToolStates]
  /\ since \in [Requests -> SUBSET Texts]
  /\ carried \in [Requests -> SUBSET Texts]
  /\ held \in [Requests -> SUBSET (Users \X Records)]

Init ==
  /\ PolicyInit /\ GraphInit /\ StoreInit /\ AuditInit
  /\ up = TRUE
  /\ crashes = 0
  /\ job \in [Requests -> Jobs]
  /\ pc = [h \in Requests |-> "idle"]
  /\ ctx = [h \in Requests |-> "live"]
  /\ text = [h \in Requests |-> NoText]
  /\ plan = [h \in Requests |-> "none"]
  /\ tool = [h \in Requests |-> "none"]
  /\ since = [h \in Requests |-> {}]
  /\ carried = [h \in Requests |-> {}]
  /\ held = [h \in Requests |-> {}]

-----------------------------------------------------------------------------
(* Steps of a request.                                                      *)

GoTo(h, step) ==
  /\ pc' = [pc EXCEPT ![h] = step]
  /\ ctx' = [ctx EXCEPT ![h] = AfterStep(ctx[h])]

\* The work on the approval is over, p says how; the two writes are left.
Conclude(h, p) ==
  /\ GoTo(h, "result")
  /\ plan' = [plan EXCEPT ![h] = p]

\* The handler returns; nothing it held outlives it.
Return(h) ==
  /\ pc' = [pc EXCEPT ![h] = "done"]
  /\ ctx' = [ctx EXCEPT ![h] = "live"]
  /\ text' = [text EXCEPT ![h] = NoText]
  /\ plan' = [plan EXCEPT ![h] = "none"]

\* The handlers decide and slackInteractive of http.go call Approve or Deny
\* with the request's context.
Receive(h) ==
  /\ up /\ pc[h] = "idle"
  /\ pc' = [pc EXCEPT ![h] = "decide"]
  /\ UNCHANGED <<policyVars, edges, rows, audit, processVars, job, ctx, text, plan, tool,
                 historyVars>>

\* History only: the window of an approval opens when it takes the row.
OpenWindow(h) ==
  /\ since' = [since EXCEPT ![h] = {file}]
  /\ carried' = [carried EXCEPT ![h] = {text[g] : g \in {r \in Requests : pc[r] = "swap"}}]
  /\ held' = [held EXCEPT ![h] = edges]

\* History only: what was written to the graph is seen in every open window.
WatchGraph ==
  held' = [h \in Requests |-> IF Rechecking(h) THEN held[h] \union edges' ELSE held[h]]

Decide(h) ==
  /\ pc[h] = "decide"
  /\ \E out \in Outcomes(ctx[h]) :
       /\ StoreDecide(Tx(h), IF job[h].button = "approve" THEN "approved" ELSE "denied", h, out)
       /\ \/ /\ DecideWins(Tx(h), out)
             /\ GoTo(h, "get") /\ UNCHANGED <<text, plan>>
             /\ OpenWindow(h)
          \/ /\ ~DecideWins(Tx(h), out)
             /\ Return(h)
             /\ UNCHANGED historyVars
  /\ UNCHANGED <<policyVars, edges, audit, processVars, job, tool>>

\* Approve returns when the row cannot be read back; so does Deny, where the
\* nil row skips both writes.
Get(h) ==
  /\ pc[h] = "get"
  /\ \E out \in Outcomes(ctx[h]) :
       \/ /\ GetFinds(Tx(h), out) /\ job[h].button = "approve"
          /\ GoTo(h, "read") /\ UNCHANGED <<text, plan>>
       \/ /\ GetFinds(Tx(h), out) /\ job[h].button = "deny"
          /\ Conclude(h, "denied") /\ UNCHANGED text
       \/ ~GetFinds(Tx(h), out) /\ Return(h)
  /\ UNCHANGED <<policyVars, edges, rows, audit, processVars, job, tool, historyVars>>

\* Mutant of ReadFile: Approve returns the error of Reload and does not refuse.
ReadFileReturnsError(h) ==
  /\ pc[h] = "read"
  /\ \/ file.parses /\ text' = [text EXCEPT ![h] = file] /\ GoTo(h, "swap") /\ UNCHANGED plan
     \/ (~file.parses \/ "policy" \in Faults) /\ Return(h)
  /\ UNCHANGED <<policyVars, edges, rows, audit, processVars, job, tool, historyVars>>

\* Reload, before the lock: the file is read and parsed.  On an error the
\* policies loaded before stay and the approval is void.
ReadFile(h) ==
  /\ pc[h] = "read"
  /\ \/ file.parses /\ text' = [text EXCEPT ![h] = file] /\ GoTo(h, "swap") /\ UNCHANGED plan
     \/ (~file.parses \/ "policy" \in Faults) /\ Conclude(h, "void") /\ UNCHANGED text
  /\ UNCHANGED <<policyVars, edges, rows, audit, processVars, job, tool, historyVars>>

\* Reload, under the lock.
Swap(h) ==
  /\ pc[h] = "swap"
  /\ SwapPolicies(text[h])
  /\ GoTo(h, "snapshot")
  /\ UNCHANGED <<edges, rows, audit, processVars, job, text, plan, tool, historyVars>>

\* Mutant of FollowDecision: Approve reloads and asks, but goes on whatever it hears.
FollowDecisionAnyway(h, decision) == GoTo(h, "call") /\ UNCHANGED plan

\* Approve refuses on Deny and goes on with any other answer.
FollowDecision(h, decision) ==
  \/ decision = "deny" /\ Conclude(h, "void")
  \/ decision # "deny" /\ GoTo(h, "call") /\ UNCHANGED plan

\* Engine.Decide up to the question to the graph, if there is one.  It decides
\* on the policies loaded now, with the identity captured at park time.
Snapshot(h) ==
  /\ pc[h] = "snapshot"
  /\ text' = [text EXCEPT ![h] = loaded]
  /\ \/ AsksGraph(loaded, Call(h)) /\ GoTo(h, "owner") /\ UNCHANGED plan
     \/ ~AsksGraph(loaded, Call(h)) /\ FollowDecision(h, EngineDecide(loaded, Call(h), "error"))
  /\ UNCHANGED <<policyVars, edges, rows, audit, processVars, job, tool, historyVars>>

\* Engine.Decide from CheckOwner on: an error of the graph denies.
AskOwner(h) ==
  /\ pc[h] = "owner"
  /\ \E answer \in OwnerAnswers(Call(h), ctx[h]) :
       FollowDecision(h, EngineDecide(text[h], Call(h), answer))
  /\ UNCHANGED <<policyVars, edges, rows, audit, processVars, job, text, tool, historyVars>>

\* callTool up to sending tools/call: the session may not come up, or not within
\* the 15 seconds.
CallTool(h) ==
  /\ pc[h] = "call"
  /\ \/ /\ ctx[h] # "cancelled"
        /\ tool' = [tool EXCEPT ![h] = "sent"]
        /\ GoTo(h, "await") /\ UNCHANGED plan
     \/ Conclude(h, "error") /\ UNCHANGED tool
  /\ UNCHANGED <<policyVars, edges, rows, audit, processVars, job, text, historyVars>>

\* Mutant of ToolAnswered: res.IsError is not looked at.
ToolAnsweredIsFine(h) ==
  /\ pc[h] = "await" /\ ctx[h] = "live"
  /\ tool[h] \in {"ran", "refused"} /\ Conclude(h, "executed")
  /\ UNCHANGED <<policyVars, edges, rows, audit, processVars, job, text, tool, historyVars>>

\* callTool returns what the tool answered.
ToolAnswered(h) ==
  /\ pc[h] = "await" /\ ctx[h] = "live"
  /\ \/ tool[h] = "ran" /\ Conclude(h, "executed")
     \/ tool[h] = "refused" /\ Conclude(h, "error")
  /\ UNCHANGED <<policyVars, edges, rows, audit, processVars, job, text, tool, historyVars>>

\* Mutant of ToolLost: callTool has no deadline of its own.
ToolLostNoTimeout(h) ==
  /\ pc[h] = "await"
  /\ ctx[h] # "live"
  /\ Conclude(h, "error")
  /\ UNCHANGED <<policyVars, edges, rows, audit, processVars, job, text, tool, historyVars>>

\* callTool gives up after 15 seconds whatever the tool does, or sooner with its
\* connection or context; the tool may still run the call, or have run it.
ToolLost(h) ==
  /\ pc[h] = "await"
  /\ Conclude(h, "error")
  /\ UNCHANGED <<policyVars, edges, rows, audit, processVars, job, text, tool, historyVars>>

\* SetResult, whose error Approve, refuse and Deny ignore.
SaveResult(h) ==
  /\ pc[h] = "result"
  /\ \E out \in Outcomes(ctx[h]) :
       SetResult(Tx(h), FinalState(plan[h]), FinalResult(plan[h]), out)
  /\ GoTo(h, "audit")
  /\ UNCHANGED <<policyVars, edges, audit, processVars, job, text, plan, tool, historyVars>>

\* auditRow, whose error is only logged, and the answer to the click.
WriteAudit(h) ==
  /\ pc[h] = "audit"
  /\ \E out \in Outcomes(ctx[h]) :
       Record(h, Tx(h), FinalDecision(plan[h]), text[h], out)
  /\ Return(h)
  /\ UNCHANGED <<policyVars, edges, rows, processVars, job, tool, historyVars>>

-----------------------------------------------------------------------------
(* The tool server, the operator, the agents, the clients, the process.     *)

\* The toy server takes up a call it was sent, whether or not anyone waits.
ToolServe(h) ==
  /\ tool[h] = "sent"
  /\ \E result \in {"ran", "refused"} : tool' = [tool EXCEPT ![h] = result]
  /\ UNCHANGED <<policyVars, edges, rows, audit, processVars, job, handlerVars, historyVars>>

EditFile ==
  /\ \E t \in Texts :
       /\ SaveFile(t)
       /\ since' = [h \in Requests |-> IF Rechecking(h) THEN since[h] \union {t} ELSE since[h]]
  /\ UNCHANGED <<edges, rows, audit, processVars, job, handlerVars, tool, carried, held>>

Administer ==
  /\ up
  /\ AdministerGraph /\ WatchGraph
  /\ UNCHANGED <<policyVars, rows, audit, processVars, job, handlerVars, tool, since, carried>>

\* What is left of a Check that ends in Park (see module Authz for its steps).
ParkCall ==
  /\ up
  /\ \E tx \in TxIds, call \in Attempts : Park(tx, call, "ok")
  /\ UNCHANGED <<policyVars, edges, audit, processVars, job, handlerVars, tool, historyVars>>

\* The client goes away: the browser tab, or Slack after its three seconds.
Disconnect(h) ==
  /\ "disconnect" \in Faults
  /\ Active(h) /\ ctx[h] = "live"
  /\ ctx' = [ctx EXCEPT ![h] = "cancelling"]
  /\ UNCHANGED <<policyVars, edges, rows, audit, processVars, job, pc, text, plan, tool,
                 historyVars>>

\* The process dies with every goroutine; nothing of theirs is picked up later.
Crash ==
  /\ "crash" \in Faults
  /\ up /\ crashes < MaxCrashes
  /\ up' = FALSE /\ crashes' = crashes + 1
  /\ pc' = [h \in Requests |-> IF Active(h) THEN "dead" ELSE pc[h]]
  /\ ctx' = [h \in Requests |-> "live"]
  /\ text' = [h \in Requests |-> NoText]
  /\ plan' = [h \in Requests |-> "none"]
  /\ UNCHANGED <<policyVars, edges, rows, audit, job, tool, historyVars>>

\* main: policy.New, then the connections, and relations.Connect seeds the graph.
Restart ==
  /\ ~up /\ file.parses
  /\ up' = TRUE
  /\ SwapPolicies(file)
  /\ SeedGraph /\ WatchGraph
  /\ UNCHANGED <<rows, audit, crashes, job, handlerVars, tool, since, carried>>

\* The steps a goroutine takes by itself once its request was received.
Step(h) ==
  \/ Decide(h) \/ Get(h) \/ ReadFile(h) \/ Swap(h) \/ Snapshot(h) \/ AskOwner(h)
  \/ CallTool(h) \/ ToolAnswered(h) \/ ToolLost(h) \/ SaveResult(h) \/ WriteAudit(h)

Environment == EditFile \/ Administer \/ ParkCall \/ Crash \/ Restart

Next ==
  \/ \E h \in Requests : Receive(h) \/ Step(h) \/ ToolServe(h) \/ Disconnect(h)
  \/ Environment

Spec == Init /\ [][Next]_vars

\* Go runs every goroutine that can run, statements and calls to the graph come
\* back, callTool gives up after its 15 seconds at the latest, and whoever runs the service
\* starts it again after a crash.
Fairness == WF_vars(Restart) /\ \A h \in Requests : WF_vars(Step(h))

FairSpec == Spec /\ Fairness

-----------------------------------------------------------------------------
(* Safety.                                                                  *)

\* Request h sent a tool call for transaction tx.
SentFor(h, tx) == Tx(h) = tx /\ tool[h] # "none"

\* However many humans click, on however many screens, and whatever fails in
\* between: a parked call is forwarded to the tool at most once (the promise of
\* Store.Decide, store.go:81-83).
OneCallPerApproval ==
  \A g, h \in Requests : SentFor(g, Tx(h)) /\ SentFor(h, Tx(h)) => g = h

\* A call reaches the tool only for a request that clicked "approve" and whose
\* update took the row, and no later write makes the row claim otherwise
\* (Approve, executor.go:38-66, against SetResult, which has no condition).
CallsAreAuthorised ==
  \A h \in Requests : tool[h] # "none" =>
    /\ job[h].button = "approve"
    /\ rows[Tx(h)].by = h
    /\ rows[Tx(h)].state \in {"approved", "executed", "failed"}

\* What the row and the log say of an approval is so: "executed" only if the
\* tool ran the call, "void" and "denied" only if no call was or will be sent
\* (Approve, Deny and refuse, executor.go:60-101).
RecordsTellTruth ==
  /\ \A tx \in TxIds :
       /\ rows[tx].state = "executed" => \E h \in Requests : Tx(h) = tx /\ tool[h] = "ran"
       /\ (rows[tx].state = "denied" \/ rows[tx].result = "void") =>
            \A h \in Requests : ~SentFor(h, tx)
  /\ \A r \in audit :
       /\ r.decision = "executed_after_approval" =>
            \E h \in Requests : Tx(h) = r.about /\ tool[h] = "ran"
       /\ r.decision \in {"deny", "denied_by_human"} =>
            \A h \in Requests : ~SentFor(h, r.about)

\* The owner of the record asked for the call, at some moment between the click
\* and the end of the re-check.
OwnedMeanwhile(h) ==
  OwnershipGated(Call(h)) => <<Call(h).user, Call(h).record>> \in held[h]

\* The window of request h holds what its re-check needs to let the call through:
\* a text that permits it, and the edge.
Rechecked(h) ==
  /\ \E t \in since[h] \union carried[h] : CedarAllows(t, Call(h))
  /\ OwnedMeanwhile(h)

\* The re-check of an approval goes by a text that was in the file after the
\* human decided, or that another approval had read before and was about to
\* swap in; never by one that was loaded and gone from the file earlier. It goes
\* by an edge that was in the graph after the human decided, never by one that
\* was revoked before (Reload before Decide, executor.go:54-59, engine.go:77-90,
\* CheckOwner without a cache, relations.go:74-92).
RecheckWithinWindow ==
  \A h \in Requests :
    /\ pc[h] \in {"owner", "call", "await"} =>
         text[h] \in since[h] \union carried[h] /\ CedarAllows(text[h], Call(h))
    /\ pc[h] \in {"call", "await"} => OwnedMeanwhile(h)

\* Refinement: a parked call as Approval sees it.  A row in state "failed" is
\* void if its result says so.
PhaseOf(tx) == IF rows[tx].result = "void" THEN "void" ELSE rows[tx].state

EffectOf(tx) ==
  IF \E h \in Requests : Tx(h) = tx /\ tool[h] = "ran" THEN "ran"
  ELSE IF \E h \in Requests : SentFor(h, tx) THEN "sent"
  ELSE "none"

Promise == INSTANCE Approval WITH
  phase <- [tx \in TxIds |-> PhaseOf(tx)],
  effect <- [tx \in TxIds |-> EffectOf(tx)]

\* Every step of requests, tool server, operator, clients and crashes is a step
\* of Approval or leaves its state alone: store.go:81-103 and executor.go:37-101
\* together keep the promise that the header of migration 002 makes.
ImplementsApproval == Promise!Spec

-----------------------------------------------------------------------------
(* What holds as long as statements succeed, clients wait and the process    *)
(* stays up.                                                                *)

\* The state of a row whose end the log tells with this decision.
LoggedState(decision) == CASE decision = "executed_after_approval" -> "executed"
                           [] decision = "denied_by_human" -> "denied"
                           [] OTHER -> "failed"

\* When the request that took the row has returned, row and log tell the same
\* story, and the log tells it once (SetResult and auditRow after every way
\* out of Approve and Deny, executor.go:67-73, 89-90, 97-99).
RowAndAuditAgree ==
  \A h \in Requests : rows[Tx(h)].by = h /\ pc[h] = "done" =>
    \E r \in audit :
      /\ \A q \in audit : q.about = Tx(h) => q = r
      /\ r.about = Tx(h)
      /\ rows[Tx(h)].state = LoggedState(r.decision)

\* An approved call does not stay approved: it ends executed or failed, whatever
\* the policy file, the graph and the tool do (migration 002, line 18).
ApprovedSettles ==
  \A tx \in TxIds :
    rows[tx].state = "approved" ~> rows[tx].state \in {"executed", "failed"}

\* Whoever clicks gets an answer, unless the process dies: no request waits for
\* another, for an operator or for a tool that never answers (Approve, Deny).
EveryClickAnswered ==
  \A h \in Requests : pc[h] = "decide" ~> pc[h] \in {"done", "dead"}

-----------------------------------------------------------------------------
(* What the documentation says and the code does not do.                     *)

\* "it re-runs the policy check against CURRENT state" (executor.go:18-19): the
\* text the re-check went by was in the file at some moment after the human
\* decided.
RecheckUsesCurrentPolicy ==
  \A h \in Requests : pc[h] \in {"owner", "call", "await"} => text[h] \in since[h]

\* "Every step lands in the Postgres audit log" (README.md:94): once the request
\* that sent a call has returned, the log has a row on how it ended.
ForwardedCallIsLogged ==
  \A h \in Requests : tool[h] # "none" /\ pc[h] = "done" =>
    \E r \in audit : r.about = Tx(h)

=============================================================================
