------------------------------- MODULE Approval -------------------------------
(***************************************************************************)
(* What the service promises for a parked call, without requests,          *)
(* statements or policies: a call is forwarded only after an approval, at  *)
(* most once, never after it was denied or found void, and is reported as  *)
(* executed only if the tool ran it.  "failed" promises less: the tool may *)
(* have run the call, or may still do so.                                  *)
(***************************************************************************)

CONSTANT
  TxIds    \* parked calls

VARIABLES
  phase,   \* how far each has come
  effect   \* what the tool has seen of it

Phases == {"absent", "pending", "approved", "denied", "executed", "failed", "void"}
Effects == {"none", "sent", "ran"}

Init ==
  /\ phase = [tx \in TxIds |-> "absent"]
  /\ effect = [tx \in TxIds |-> "none"]

Advance(tx, from, to) ==
  /\ phase[tx] = from
  /\ phase' = [phase EXCEPT ![tx] = to]
  /\ UNCHANGED effect

Park(tx) == Advance(tx, "absent", "pending")

HumanDecides(tx) == Advance(tx, "pending", "approved") \/ Advance(tx, "pending", "denied")

Forward(tx) ==
  /\ phase[tx] = "approved" /\ effect[tx] = "none"
  /\ effect' = [effect EXCEPT ![tx] = "sent"]
  /\ UNCHANGED phase

\* The tool needs no one to wait for it.
Run(tx) ==
  /\ effect[tx] = "sent"
  /\ effect' = [effect EXCEPT ![tx] = "ran"]
  /\ UNCHANGED phase

ReportExecuted(tx) == effect[tx] = "ran" /\ Advance(tx, "approved", "executed")

ReportFailed(tx) == Advance(tx, "approved", "failed")

ReportVoid(tx) == effect[tx] = "none" /\ Advance(tx, "approved", "void")

Next ==
  \E tx \in TxIds :
    \/ Park(tx) \/ HumanDecides(tx) \/ Forward(tx) \/ Run(tx)
    \/ ReportExecuted(tx) \/ ReportFailed(tx) \/ ReportVoid(tx)

Spec == Init /\ [][Next]_<<phase, effect>>

=============================================================================
