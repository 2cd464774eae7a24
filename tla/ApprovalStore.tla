---------------------------- MODULE ApprovalStore ----------------------------
(***************************************************************************)
(* The table pending_approvals (internal/approval/store.go): one row per   *)
(* parked call, whose lifecycle runs from "pending" to a decision of a     *)
(* human and from an approval to "executed" or "failed".                   *)
(*                                                                         *)
(* An operation takes the outcome `out' of its statement (see Database):   *)
(* after "error" the table is as it was, after "lost" it has changed and   *)
(* the caller does not know.                                               *)
(***************************************************************************)
EXTENDS Database

CONSTANTS
  TxIds,     \* transaction ids of parked calls, drawn by Postgres
  Attempts,  \* the calls agents make that the policy answers with needs_approval
  Requests,  \* the HTTP requests that carry a click of a human
  NoCall,    \* the call of a row that is not there
  Nobody     \* decided_by is NULL

VARIABLE
  rows       \* pending_approvals

ASSUME StoreAssumption == NoCall \notin Attempts /\ Nobody \notin Requests

\* "absent" stands for a transaction id no row has.
RowStates == {"absent", "pending", "approved", "denied", "executed", "failed"}

\* What the result column tells: nothing yet, the tool's output, the error of
\* the tool call, why the approval was void, or who denied it.
RowResults == {"null", "output", "error", "void", "denied"}

\* The column decided_by names the human of the request that decided the row;
\* here it names the request, so that two clicks of one human can be told apart.
Rows == [state : RowStates, call : Attempts \union {NoCall},
         by : Requests \union {Nobody}, result : RowResults]

StoreTypeOK == rows \in [TxIds -> Rows]

StoreInit ==
  rows = [tx \in TxIds |->
            [state |-> "absent", call |-> NoCall, by |-> Nobody, result |-> "null"]]

\* Mutant of Park: an upsert, INSERT ... ON CONFLICT DO UPDATE.
ParkUpserts(tx, call, out) ==
  rows' = IF out = "error" THEN rows
          ELSE [rows EXCEPT ![tx].state = "pending", ![tx].call = call]

\* The INSERT of Park: the transaction id is unique and the row fresh.
Park(tx, call, out) ==
  /\ rows[tx].state = "absent"
  /\ rows' = IF out = "error" THEN rows
             ELSE [rows EXCEPT ![tx].state = "pending", ![tx].call = call]

\* Mutant of StoreDecide: the UPDATE lacks its AND state = 'pending'.
StoreDecideAnyState(tx, newState, who, out) ==
  rows' = IF out = "error" \/ rows[tx].state = "absent" THEN rows
          ELSE [rows EXCEPT ![tx].state = newState, ![tx].by = who]

\* Mutant of StoreDecide: an upsert, for decisions on calls the table does not know.
StoreDecideUpserts(tx, newState, who, out) ==
  rows' = IF out = "error" \/ rows[tx].state \notin {"absent", "pending"} THEN rows
          ELSE [rows EXCEPT ![tx].state = newState, ![tx].by = who]

\* The UPDATE of Decide touches the row only while its state is 'pending'.
StoreDecide(tx, newState, who, out) ==
  rows' = IF out = "error" \/ rows[tx].state # "pending" THEN rows
          ELSE [rows EXCEPT ![tx].state = newState, ![tx].by = who]

\* Mutant of DecideWins: the number of affected rows is not looked at.
DecideWinsAlways(tx, out) == out = "ok"

\* Decide returns true: one row was affected, and the reply arrived.
DecideWins(tx, out) == out = "ok" /\ rows[tx].state = "pending"

\* Get returns a row: there is one, and the reply arrived.
GetFinds(tx, out) == out = "ok" /\ rows[tx].state # "absent"

\* SetResult has no condition on the state it overwrites.
SetResult(tx, newState, result, out) ==
  rows' = IF out = "error" \/ rows[tx].state = "absent" THEN rows
          ELSE [rows EXCEPT ![tx].state = newState, ![tx].result = result]

=============================================================================
