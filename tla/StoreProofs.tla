------------------------------ MODULE StoreProofs ------------------------------
(***************************************************************************)
(* Lemmas about the statements on pending_approvals, used wherever a       *)
(* module writes the table.                                                *)
(***************************************************************************)
EXTENDS ApprovalStore, TLAPS

\* A statement ends in one of three ways, whatever its context.
LEMMA OutcomesAreResults == \A c \in Contexts : Outcomes(c) \subseteq Results
  BY DEF Outcomes

\* The steps that write pending_approvals keep its type.
LEMMA RowsType ==
  ASSUME StoreTypeOK, NEW tx \in TxIds, NEW out \in Results
  PROVE  /\ \A call \in Attempts : Park(tx, call, out) => StoreTypeOK'
         /\ \A s \in RowStates, h \in Requests : StoreDecide(tx, s, h, out) => StoreTypeOK'
         /\ \A s \in RowStates, r \in RowResults : SetResult(tx, s, r, out) => StoreTypeOK'
<1>1. ASSUME NEW call \in Attempts, Park(tx, call, out) PROVE StoreTypeOK'
  BY <1>1 DEF StoreTypeOK, Rows, Park, RowStates
<1>2. ASSUME NEW s \in RowStates, NEW h \in Requests, StoreDecide(tx, s, h, out)
      PROVE  StoreTypeOK'
  BY <1>2 DEF StoreTypeOK, Rows, StoreDecide
<1>3. ASSUME NEW s \in RowStates, NEW r \in RowResults, SetResult(tx, s, r, out)
      PROVE  StoreTypeOK'
  BY <1>3 DEF StoreTypeOK, Rows, SetResult
<1> QED BY <1>1, <1>2, <1>3

=============================================================================
