------------------------------ MODULE ToyServer ------------------------------
(***************************************************************************)
(* The tool server (toy-server/main.go): records in a Go map, and two      *)
(* handlers that work on it without a lock, each call in a goroutine of    *)
(* its own.  A delete looks the record up and removes it in two accesses.  *)
(*                                                                         *)
(* A write to a Go map while another goroutine accesses it is undefined:   *)
(* the accesses may happen in either order, or the runtime notices and     *)
(* ends the process.  Records live in its memory, so a new process has     *)
(* all of them again.                                                      *)
(***************************************************************************)
EXTENDS Database

CONSTANTS
  Records,    \* the records a call may name
  Stock,      \* those the server starts with
  Served      \* the calls that may reach the server

VARIABLES
  records,    \* the map
  handler     \* what became of each call

HandlerStates == {"none", "lookup", "remove", "ran", "refused", "lost"}

ToyTypeOK == records \subseteq Records /\ handler \in [Served -> HandlerStates]

ToyInit ==
  /\ records = Stock
  /\ handler = [k \in Served |-> "none"]

Handled(k, state) == handler' = [handler EXCEPT ![k] = state]

\* A call comes in; without an id it is refused at once.
TakeUp(k, record) ==
  /\ handler[k] = "none"
  /\ Handled(k, IF record \in Records THEN "lookup" ELSE "refused")
  /\ UNCHANGED records

\* read_record ends here, delete_record goes on if there is something to delete.
LookUp(k, deletes, record) ==
  /\ handler[k] = "lookup"
  /\ Handled(k, IF record \notin records THEN "refused" ELSE IF deletes THEN "remove" ELSE "ran")
  /\ UNCHANGED records

Remove(k, record) ==
  /\ handler[k] = "remove"
  /\ records' = records \ {record}
  /\ Handled(k, "ran")

Serve(k, deletes, record) ==
  TakeUp(k, record) \/ LookUp(k, deletes, record) \/ Remove(k, record)

\* Two handlers at the map, one of them about to write.
Overlap ==
  \E j, k \in Served :
    j # k /\ handler[j] = "remove" /\ handler[k] \in {"lookup", "remove"}

\* The process ends, and is started again; the calls it was working on are lost.
ToyCrash ==
  /\ Overlap \/ "tool" \in Faults
  /\ records' = Stock
  /\ handler' = [k \in Served |-> IF handler[k] \in {"lookup", "remove"} THEN "lost"
                                   ELSE handler[k]]

=============================================================================
