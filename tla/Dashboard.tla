------------------------------- MODULE Dashboard -------------------------------
(***************************************************************************)
(* The read-only page (internal/approval/dashboard.go) and the endpoints   *)
(* it polls: GET /pending, GET /audit and GET /relations of http.go, with  *)
(* ListPending, Recent and List behind them.                               *)
(*                                                                         *)
(* A timer starts a refresh every three seconds whether or not the last    *)
(* one is over.  A refresh sends three requests at once, each served at a  *)
(* moment of its own, waits for all of them and then redraws the page.  An *)
(* error and an empty list look alike to the page: Go encodes a nil slice  *)
(* as null, and null is what getJSON makes of an error.                    *)
(***************************************************************************)
EXTENDS ApprovalStore, OwnershipGraph, Integers, Sequences

CONSTANTS
  Refreshes,                          \* bound: refreshes that may be open at a time
  PageLimit, DefaultLimit, MaxLimit,  \* 100, 100 and 500 in the code
  MaxChanges                          \* bound on the changes of the tables

VARIABLES
  newest,   \* the id of the newest row of audit_log, 0 if there is none
  reading,  \* the refreshes: the change they started after, and what has come back
  page,     \* what the page shows
  past,     \* history: the tables after each change, the last one being now
  calm      \* nothing changes or fails any more

ASSUME DashboardAssumption == {PageLimit, DefaultLimit, MaxLimit, MaxChanges} \subseteq Nat \ {0}

worldVars == <<file, loaded, rows, edges, newest, past>>
vars == <<worldVars, reading, page, calm>>

\* ListPending: the rows still waiting.
ListPending == {tx \in TxIds : rows[tx].state = "pending"}

\* What Recent makes of the limit it is asked for.
Clamp(limit) == IF limit <= 0 \/ limit > MaxLimit THEN DefaultLimit ELSE limit

\* Mutant of Recent: ids are counted from 0.
RecentFromZero(limit) == {id \in 0..newest : id > newest - Clamp(limit)}

\* Recent: the ids of the newest rows, up to the limit.
Recent(limit) == {id \in 1..newest : id > newest - Clamp(limit)}

Tables == [pending |-> ListPending, audit |-> Recent(PageLimit), graph |-> edges]

\* Nothing is open, or the answers so far, each a set of at most one.
Idle == [from |-> 0, pending |-> {}, audit |-> {}, graph |-> {}]
Blank == [pending |-> {}, audit |-> {}, graph |-> {}]

TypeOK ==
  /\ PolicyTypeOK /\ StoreTypeOK /\ GraphTypeOK
  /\ newest \in 0..MaxChanges
  /\ \A r \in Refreshes :
       /\ reading[r].from \in 0..Len(past)
       /\ reading[r].pending \subseteq SUBSET TxIds
       /\ reading[r].audit \subseteq SUBSET (1..newest)
       /\ reading[r].graph \subseteq SUBSET (Users \X Records)
  /\ page.pending \subseteq TxIds /\ page.audit \subseteq 1..newest
  /\ page.graph \subseteq Users \X Records
  /\ calm \in BOOLEAN

Init ==
  /\ PolicyInit /\ StoreInit /\ GraphInit
  /\ newest = 0
  /\ reading = [r \in Refreshes |-> Idle]
  /\ page = Blank
  /\ past = <<Tables>>
  /\ calm = FALSE

-----------------------------------------------------------------------------
(* The tables change.                                                       *)

Changed ==
  /\ ~calm /\ Len(past) <= MaxChanges
  /\ past' = Append(past, Tables')
  /\ UNCHANGED <<file, loaded, reading, page, calm>>

ParkCall ==
  /\ \E tx \in TxIds, call \in Attempts : Park(tx, call, "ok")
  /\ UNCHANGED <<edges, newest>>
  /\ Changed

DecideCall ==
  /\ \E tx \in ListPending, h \in Requests : StoreDecide(tx, "approved", h, "ok")
  /\ UNCHANGED <<edges, newest>>
  /\ Changed

WriteLog ==
  /\ newest' = newest + 1
  /\ UNCHANGED <<edges, rows>>
  /\ Changed

Administer ==
  /\ AdministerGraph /\ edges' # edges
  /\ UNCHANGED <<rows, newest>>
  /\ Changed

\* From here on nothing changes and no request of the page fails.
CalmDown == ~calm /\ calm' = TRUE /\ UNCHANGED <<worldVars, reading, page>>

-----------------------------------------------------------------------------
(* The page.                                                                *)

Failing(kind) == ~calm /\ kind \in Faults

\* The timer, or the page being opened.
Tick(r) ==
  /\ reading[r] = Idle
  /\ reading' = [reading EXCEPT ![r].from = Len(past)]
  /\ UNCHANGED <<worldVars, page, calm>>

\* pendingJSON: a list, or nothing.
GetPending(r) ==
  /\ reading[r].from > 0 /\ reading[r].pending = {}
  /\ \E rowsRead \in {ListPending} \union (IF Failing("db") THEN {{}} ELSE {}) :
       reading' = [reading EXCEPT ![r].pending = {rowsRead}]
  /\ UNCHANGED <<worldVars, page, calm>>

\* auditJSON.
GetAudit(r) ==
  /\ reading[r].from > 0 /\ reading[r].audit = {}
  /\ \E rowsRead \in {Recent(PageLimit)} \union (IF Failing("db") THEN {{}} ELSE {}) :
       reading' = [reading EXCEPT ![r].audit = {rowsRead}]
  /\ UNCHANGED <<worldVars, page, calm>>

\* Mutant of GetRelations: List asks for minimal latency, and may get old edges.
GetRelationsCached(r) ==
  /\ reading[r].from > 0 /\ reading[r].graph = {}
  /\ \E n \in 1..Len(past) : reading' = [reading EXCEPT ![r].graph = {past[n].graph}]
  /\ UNCHANGED <<worldVars, page, calm>>

\* relationsList: nothing where no graph is configured or asking it fails; List
\* returns what it got when the stream breaks off, as if that were all.
GetRelations(r) ==
  /\ reading[r].from > 0 /\ reading[r].graph = {}
  /\ \E list \in {edges} \union (IF Failing("graph") THEN SUBSET edges ELSE {}) :
       reading' = [reading EXCEPT ![r].graph = {list}]
  /\ UNCHANGED <<worldVars, page, calm>>

Only(answer) == CHOOSE x \in answer : TRUE

\* All three requests have been answered.
Complete(r) == reading[r].pending # {} /\ reading[r].audit # {} /\ reading[r].graph # {}

\* Mutant of Draw: a panel whose request yielded nothing keeps its rows.
DrawKeeps(r) ==
  /\ Complete(r)
  /\ page' = [pending |-> IF reading[r].pending = {{}} THEN page.pending
                          ELSE Only(reading[r].pending),
              audit |-> Only(reading[r].audit), graph |-> Only(reading[r].graph)]
  /\ reading' = [reading EXCEPT ![r] = Idle]
  /\ UNCHANGED <<worldVars, calm>>

\* The page is redrawn; the graph's panel is hidden if it got nothing for it.
Draw(r) ==
  /\ Complete(r)
  /\ page' = [pending |-> Only(reading[r].pending),
              audit |-> Only(reading[r].audit), graph |-> Only(reading[r].graph)]
  /\ reading' = [reading EXCEPT ![r] = Idle]
  /\ UNCHANGED <<worldVars, calm>>

Progress(r) == GetPending(r) \/ GetAudit(r) \/ GetRelations(r) \/ Draw(r)

Next ==
  \/ ParkCall \/ DecideCall \/ WriteLog \/ Administer \/ CalmDown
  \/ \E r \in Refreshes : Tick(r) \/ Progress(r)

Spec == Init /\ [][Next]_vars

\* The browser's timer goes on, and requests come back, with an answer or not.
Fairness == \A r \in Refreshes : WF_vars(Tick(r)) /\ WF_vars(Progress(r))

FairSpec == Spec /\ Fairness

-----------------------------------------------------------------------------
(* Properties.                                                              *)

\* What a refresh draws is what the tables held at some moment since it began,
\* each panel at a moment of its own, or less where a request failed; never
\* something read before, or half of one and half of another
\* (dashboard.go:87-126, relations.go:124-152).
PanelsAreRecent ==
  [][\A r \in Refreshes : reading[r] # Idle /\ reading'[r] = Idle =>
       LET since == reading[r].from..Len(past) IN
       /\ \/ page'.pending = {} /\ "db" \in Faults
          \/ \E n \in since : page'.pending = past[n].pending
       /\ \/ page'.audit = {} /\ "db" \in Faults
          \/ \E n \in since : page'.audit = past[n].audit
       /\ \E n \in since :
            \/ page'.graph = past[n].graph
            \/ page'.graph \subseteq past[n].graph /\ "graph" \in Faults]_vars

\* Whatever failed, overlapped or arrived late before: once nothing changes or
\* fails any more, the page comes to show the tables as they are, and goes on
\* doing so (setInterval, dashboard.go:128-129).
CatchesUp ==
  calm ~> [](page.pending = ListPending /\ page.audit = Recent(PageLimit) /\ page.graph = edges)

=============================================================================
