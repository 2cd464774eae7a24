----------------------------- MODULE GateInvariant -----------------------------
(***************************************************************************)
(* Why AgentGate is safe: an inductive invariant.  Of the clicks it is the *)
(* one of Executor.  Of the checks it is the one of Authz, over the parked *)
(* calls as the checks left them.  What is left ties the two together, to  *)
(* the process and to the tool server.                                     *)
(***************************************************************************)
EXTENDS AgentGate, ExecutorInvariant

\* A parked call as the check left it, whatever the clicks made of it since.
AsParked ==
  [tx \in TxIds |-> IF rows[tx].state = "absent" THEN rows[tx]
                    ELSE [state |-> "pending", call |-> rows[tx].call,
                          by |-> Nobody, result |-> "null"]]

\* The proofs of Authz are about Parking, too.
Parking == INSTANCE AuthzProofs WITH
  audit <- decisions, pc <- checkPc, ctx <- checkCtx, rows <- AsParked

\* Authz was checked with clicks reduced to reloads: with the real ones, which
\* also take rows and end calls, each step is still one of Authz or leaves its
\* state alone, but for the file, which it never looks at.
ChecksAreAuthz ==
  [][Parking!Next]_<<loaded, edges, AsParked, up, crashes, checkVars>>

-----------------------------------------------------------------------------

\* Nothing goes on in a process that is not there.
ProcessIsUp ==
  /\ \A h \in Requests : Active(h) => up
  /\ \A c \in TxIds : Checks!Active(c) => up

\* What a reload is about to swap in is fit to be decided on.
SwapsParse == \A h \in Requests : pc[h] = "swap" => text[h] \in Texts /\ text[h].parses

\* The tool server has seen a click's call only if the click sent it.
ServedWasSent == \A h \in Requests : handler[h] # "none" => tool[h] # "none"

\* The tool server has seen a check's call only if it was forwarded, and is never
\* about to remove anything for it.
ServedWasForwarded ==
  \A c \in TxIds : handler[c] # "none" =>
    Forwards(c) /\ IsToolCall(ask[c].body) /\ handler[c] # "remove"

\* Checked by TLC, and proved inductive in GateProofs.
GateInv ==
  /\ IInv /\ Parking!AuthzInv
  /\ ProcessIsUp /\ SwapsParse /\ ServedWasSent /\ ServedWasForwarded
  /\ records \subseteq Stock

=============================================================================
