-------------------------- MODULE ExecutorInvariant --------------------------
(***************************************************************************)
(* Why Executor is safe: an inductive invariant.  The first half follows   *)
(* the row of a parked call through the request that took it, the second   *)
(* follows the policy texts from the file into the re-check.  The last     *)
(* part is about a database that answers.                                  *)
(***************************************************************************)
EXTENDS Executor

BeforeTool == {"idle", "decide", "get", "read", "swap", "snapshot", "owner", "call"}
AfterTaking == {"get", "read", "swap", "snapshot", "owner", "call", "await", "result", "audit"}
Approving == {"read", "swap", "snapshot", "owner", "call", "await"}

\* A row names the request that took it, and says nothing that request did not do.
RowNamesItsRequest ==
  \A tx \in TxIds : LET row == rows[tx] IN
    /\ row.by = Nobody <=> row.state \in {"absent", "pending"}
    /\ row.by = Nobody => row.result = "null"
    /\ row.state \in {"executed", "failed"} => row.result # "null"
    /\ row.by # Nobody =>
         /\ Tx(row.by) = tx
         /\ pc[row.by] \notin {"idle", "decide"}
         /\ row.state = "denied" <=> job[row.by].button = "deny"
         /\ row.state = "executed" => tool[row.by] = "ran"
         /\ row.result # "null" => pc[row.by] \in {"audit", "done", "dead"}
         /\ row.result = "void" => tool[row.by] = "none"

\* A request that got past Decide, or sent a call, is the one that took the row.
RequestTookItsRow ==
  \A h \in Requests :
    pc[h] \in AfterTaking \/ tool[h] # "none" => rows[Tx(h)].by = h

\* Where a request is tells what it may have sent, and for which button.
ToolFollowsSteps ==
  \A h \in Requests :
    /\ pc[h] \in BeforeTool => tool[h] = "none"
    /\ pc[h] = "await" => tool[h] # "none"
    /\ pc[h] \in Approving \/ tool[h] # "none" => job[h].button = "approve"

\* What a request is about to write down is what happened.
PlanIsTrue ==
  \A h \in Requests : pc[h] \in {"result", "audit"} =>
    /\ plan[h] # "none"
    /\ plan[h] = "denied" <=> job[h].button = "deny"
    /\ plan[h] = "executed" => tool[h] = "ran"
    /\ plan[h] = "void" => tool[h] = "none"

\* What the log says was written by the request that took the row, after the rest.
LogIsTrue ==
  \A r \in audit :
    /\ r.id \in Requests /\ pc[r.id] = "done"
    /\ Tx(r.id) = r.about /\ rows[r.about].by = r.id
    /\ r.decision = "executed_after_approval" => tool[r.id] = "ran"
    /\ r.decision \in {"deny", "denied_by_human"} => tool[r.id] = "none"

Bookkeeping ==
  /\ RowNamesItsRequest /\ RequestTookItsRow /\ ToolFollowsSteps /\ PlanIsTrue /\ LogIsTrue

\* While the window of an approval is open, all that is in the graph, in the file
\* or on its way into the engine belongs to the window, and so does what it will
\* decide on.
WindowIsClosed ==
  \A h \in Requests :
    /\ Rechecking(h) =>
         /\ edges \subseteq held[h]
         /\ file \in since[h]
         /\ \A g \in Requests : pc[g] = "swap" => text[g] \in since[h] \union carried[h]
    /\ pc[h] = "snapshot" => loaded \in since[h] \union carried[h]

\* Of every call that was sent, the window of its re-check tells why.
SentWasRechecked == \A h \in Requests : tool[h] # "none" => Rechecked(h)

\* Checked by TLC, and proved inductive in ExecutorProofs.
IInv == Bookkeeping /\ WindowIsClosed /\ RecheckWithinWindow /\ SentWasRechecked

-----------------------------------------------------------------------------
(* What follows only while statements succeed and clients wait; crashes of   *)
(* the process, the tool, the graph and the policy file do not matter.       *)

StatementsSucceed == Faults \intersect {"db", "disconnect"} = {}

\* A request that has one write left made the other.  The log has one row for
\* each call whose request returned, and the row of the call agrees with it.
LogIsComplete ==
  /\ \A h \in Requests :
       /\ ctx[h] = "live"
       /\ pc[h] = "audit" => rows[Tx(h)].state = FinalState(plan[h])
       /\ rows[Tx(h)].by = h /\ pc[h] = "done" => \E r \in audit : r.id = h
  /\ \A r \in audit :
       /\ rows[r.about].state = LoggedState(r.decision)
       /\ \A q \in audit : q.about = r.about => q = r

=============================================================================
