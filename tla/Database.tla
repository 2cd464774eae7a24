------------------------------ MODULE Database ------------------------------
(***************************************************************************)
(* What a statement sent to Postgres, or a call to another service, can    *)
(* come back with, as the handlers of the governance service see it.       *)
(*                                                                         *)
(* Every handler passes the context of the request it serves down to       *)
(* pgxpool.  net/http (and gRPC) cancel that context when the client goes   *)
(* away, so a statement can fail because the database is unreachable or    *)
(* because the browser tab was closed.  In both cases the statement may    *)
(* have been committed before the error came back.                         *)
(***************************************************************************)

CONSTANT
  Faults      \* the kinds of fault the environment may show, a subset of FaultKinds

\* "tool" is a tool server whose process ends. That it answers late, or never, is
\* no fault to switch on: callTool has to give up at any time.
FaultKinds == {"db", "disconnect", "crash", "tool", "graph", "policy", "slack"}

ASSUME FaultsAssumption == Faults \subseteq FaultKinds

(***************************************************************************)
(* "cancelling": the client went away while the current step was running.  *)
(* "cancelled": it went away before the current step began, so pgxpool and *)
(* the HTTP client return the context's error at once and send nothing.    *)
(***************************************************************************)
Contexts == {"live", "cancelling", "cancelled"}

Results == {"ok", "error", "lost"}

\* How a statement may end: done, failed without effect, or committed with
\* the reply lost (the caller sees an error).
Outcomes(context) ==
  {out \in Results :
     \/ out = "ok" /\ context = "live"
     \/ out = "error" /\ (context # "live" \/ "db" \in Faults)
     \/ out = "lost" /\ (context = "cancelling" \/ (context = "live" /\ "db" \in Faults))}

\* The context once the step it was cancelled in is over.
AfterStep(context) == IF context = "live" THEN "live" ELSE "cancelled"

=============================================================================
