------------------------------ MODULE GateProofs ------------------------------
(***************************************************************************)
(* Theorems about AgentGate, for every number of checks and clicks, for    *)
(* every set of faults and whatever agents ask: composed, the parts do     *)
(* what they were proved to do alone, and what follows for the records of  *)
(* the tool server.                                                        *)
(***************************************************************************)
EXTENDS GateInvariant, ExecutorRefinement

Types ==
  /\ TypeInv /\ Parking!Shape /\ Parking!Tables /\ ToolServer!ToyTypeOK
  /\ demoted \in [Requests -> SUBSET Users]

-----------------------------------------------------------------------------
(* Clicks as the checks see them.                                           *)

\* A decision or a result leaves a parked call as it was parked.
LEMMA RowsStayParked ==
  ASSUME TypeInv, NEW h \in Requests, Receive(h) \/ Step(h) \/ Disconnect(h)
  PROVE  AsParked' = AsParked
<1>0. rows \in [TxIds -> Rows] /\ Tx(h) \in TxIds
  BY DEF TypeInv, TypeOK, StoreTypeOK, Tx, Jobs
<1>1. ASSUME UNCHANGED rows PROVE AsParked' = AsParked
  BY <1>1 DEF AsParked
<1>2. ASSUME DOMAIN rows' = TxIds,
             \A tx \in TxIds : \/ rows'[tx] = rows[tx]
                               \/ /\ rows'[tx].call = rows[tx].call
                                  /\ rows[tx].state # "absent" /\ rows'[tx].state # "absent"
      PROVE  AsParked' = AsParked
  BY <1>2 DEF AsParked
<1>3. CASE Decide(h)
  BY <1>0, <1>2, <1>3 DEF Decide, StoreDecide, Rows
<1>4. CASE SaveResult(h)
  <2>1. FinalState(plan[h]) # "absent"
    BY FinalType DEF TypeInv, TypeOK
  <2> QED BY <1>0, <1>2, <1>4, <2>1 DEF SaveResult, SetResult, Rows
<1>5. CASE ~Decide(h) /\ ~SaveResult(h)
  BY <1>1, <1>5 DEF Step, Receive, Disconnect, Get, ReadFile, Swap, Snapshot, AskOwner, CallTool,
     ToolAnswered, ToolLost, WriteAudit
<1> QED BY <1>3, <1>4, <1>5

\* A click changes the loaded policies as a reload may, or not at all.
LEMMA ClicksReload ==
  ASSUME TypeInv, ProcessIsUp, SwapsParse, NEW h \in Requests,
         Receive(h) \/ Step(h) \/ Disconnect(h), UNCHANGED checkVars
  PROVE  [Parking!Next]_<<loaded, edges, AsParked, up, crashes, checkVars>>
<1>1. AsParked' = AsParked
  BY RowsStayParked
<1>2. CASE Swap(h)
  <2>1. up /\ text[h] \in Texts /\ text[h].parses
    BY <1>2 DEF Swap, ProcessIsUp, SwapsParse, Active
  <2>2. Parking!Reload
    BY <1>1, <1>2, <2>1
    DEF Swap, SwapPolicies, processVars, checkVars, Parking!Reload, Parking!SwapPolicies,
        Parking!processVars, Parking!checkVars
  <2> QED BY <2>2 DEF Parking!Next
<1>3. CASE ~Swap(h)
  <2>1. UNCHANGED <<loaded, edges, up, crashes>>
    BY <1>3 DEF Step, Receive, Disconnect, Decide, Get, ReadFile, Snapshot, AskOwner, CallTool,
       ToolAnswered, ToolLost, SaveResult, WriteAudit, policyVars, processVars
  <2> QED BY <1>1, <2>1
<1> QED BY <1>2, <1>3

-----------------------------------------------------------------------------
(* Checks over all rows, and over the parked calls as they left them.       *)

LEMMA SameOperators ==
  /\ \A request : Checks!FromCheckRequest(request) = Parking!FromCheckRequest(request)
  /\ \A t, call, a : Checks!EngineDecide(t, call, a) = Parking!EngineDecide(t, call, a)
  /\ \A t, call : Checks!AsksGraph(t, call) = Parking!AsksGraph(t, call)
  /\ \A call, x : Checks!OwnerAnswers(call, x) = Parking!OwnerAnswers(call, x)
  /\ \A x : Checks!Outcomes(x) = Parking!Outcomes(x)
  /\ \A b : Checks!IsToolCall(b) = Parking!IsToolCall(b)
  /\ \A c : Checks!Call(c) = Parking!Call(c)
<1>1. \A request : Checks!FromCheckRequest(request) = Parking!FromCheckRequest(request)
  <2>1. \A m : Checks!FromClaims(m) = Parking!FromClaims(m)
    BY DEF Checks!FromClaims, Parking!FromClaims, Checks!NameIn, Parking!NameIn
  <2>2. \A m : Checks!ClaimsIn[m] = Parking!ClaimsIn[m]
    BY DEF Checks!ClaimsIn, Parking!ClaimsIn, Checks!LooksLikeClaims, Parking!LooksLikeClaims
  <2>3. \A request : Checks!ClaimsFromMetadata(request) = Parking!ClaimsFromMetadata(request)
    BY <2>2 DEF Checks!ClaimsFromMetadata, Parking!ClaimsFromMetadata
  <2> QED BY <2>1, <2>3 DEF Checks!FromCheckRequest, Parking!FromCheckRequest
<1>2. /\ \A t, call, a : Checks!EngineDecide(t, call, a) = Parking!EngineDecide(t, call, a)
      /\ \A t, call : Checks!AsksGraph(t, call) = Parking!AsksGraph(t, call)
  BY DEF Checks!EngineDecide, Parking!EngineDecide, Checks!AsksGraph, Parking!AsksGraph,
     Checks!Refused, Parking!Refused, Checks!CedarAllows, Parking!CedarAllows,
     Checks!OwnershipGated, Parking!OwnershipGated, Checks!Risk, Parking!Risk
<1>3. \A call, x : Checks!OwnerAnswers(call, x) = Parking!OwnerAnswers(call, x)
  BY DEF Checks!OwnerAnswers, Parking!OwnerAnswers
<1>4. \A x : Checks!Outcomes(x) = Parking!Outcomes(x)
  BY DEF Checks!Outcomes, Parking!Outcomes, Checks!Results, Parking!Results
<1>5. /\ \A b : Checks!IsToolCall(b) = Parking!IsToolCall(b)
      /\ \A c : Checks!Call(c) = Parking!Call(c)
  BY DEF Checks!IsToolCall, Parking!IsToolCall, Checks!Call, Parking!Call, Checks!Requested,
     Parking!Requested
<1> QED BY <1>1, <1>2, <1>3, <1>4, <1>5

LEMMA SameControl ==
  /\ \A c, s : Checks!GoTo(c, s) <=> Parking!GoTo(c, s)
  /\ \A c, r : Checks!Return(c, r) <=> Parking!Return(c, r)
  /\ \A c, v : Checks!Decided(c, v) <=> Parking!Decided(c, v)
  /\ \A c : Checks!Parked(c) <=> Parking!Parked(c)
  BY DEF Checks!GoTo, Parking!GoTo, Checks!Return, Parking!Return, Checks!Decided,
     Parking!Decided, Checks!Parked, Parking!Parked, Checks!AfterStep, Parking!AfterStep

\* The steps of a check that read no parked call are the same over both.
LEMMA ChecksThatLeaveRows ==
  ASSUME NEW c, AsParked' = AsParked
  PROVE  /\ Checks!Arrive(c) => Parking!Arrive(c)
         /\ Checks!Snapshot(c) => Parking!Snapshot(c)
         /\ Checks!AskOwner(c) => Parking!AskOwner(c)
         /\ Checks!RecordDecision(c) => Parking!RecordDecision(c)
         /\ Checks!PostToSlack(c) => Parking!PostToSlack(c)
         /\ Checks!Answer(c) => Parking!Answer(c)
         /\ Checks!Disconnect(c) => Parking!Disconnect(c)
<1> USE DEF Checks!policyVars, Checks!processVars, Parking!policyVars, Parking!processVars
<1>1. Checks!Arrive(c) => Parking!Arrive(c)
  <2>1. Checks!Unresolved(c) => Parking!Unresolved(c)
    BY SameOperators, SameControl DEF Checks!Unresolved, Parking!Unresolved
  <2>2. Checks!Resolved(c) => Parking!Resolved(c)
    BY SameOperators, SameControl DEF Checks!Resolved, Parking!Resolved
  <2> QED BY <2>1, <2>2 DEF Checks!Arrive, Parking!Arrive
<1>2. Checks!Snapshot(c) => Parking!Snapshot(c)
  BY SameOperators, SameControl DEF Checks!Snapshot, Parking!Snapshot
<1>3. Checks!AskOwner(c) => Parking!AskOwner(c)
  BY SameOperators, SameControl DEF Checks!AskOwner, Parking!AskOwner
<1>4. Checks!RecordDecision(c) => Parking!RecordDecision(c)
  <2>1. Checks!RecordOutcomes(c) = Parking!RecordOutcomes(c)
    BY SameOperators DEF Checks!RecordOutcomes, Parking!RecordOutcomes
  <2>2. \A a, v, b, out : Checks!Record(a, a, v, b, out) <=> Parking!Record(a, a, v, b, out)
    BY DEF Checks!Record, Parking!Record
  <2> QED BY <2>1, <2>2, SameControl DEF Checks!RecordDecision, Parking!RecordDecision
<1>5. Checks!PostToSlack(c) => Parking!PostToSlack(c)
  BY SameControl DEF Checks!PostToSlack, Parking!PostToSlack
<1>6. Checks!Answer(c) => Parking!Answer(c)
  BY DEF Checks!Answer, Parking!Answer
<1>7. Checks!Disconnect(c) => Parking!Disconnect(c)
  BY DEF Checks!Disconnect, Parking!Disconnect, Checks!Active, Parking!Active
<1> QED BY <1>1, <1>2, <1>3, <1>4, <1>5, <1>6, <1>7

\* What Authz assumes of the constants holds here, so that its lemmas do.
LEMMA AuthzApplies ==
  /\ Faults \subseteq Parking!FaultKinds
  /\ Texts \subseteq [parses : BOOLEAN, permits : SUBSET (Roles \X Parking!Risks)]
  /\ NoName \in Users
  /\ \A m \in Maps :
       /\ m.sub \in BOOLEAN
       /\ m.onBehalfOf \in Parking!Optional(Users) /\ m.preferred \in Users
       /\ m.roles \in Parking!Optional(SUBSET Roles)
       /\ m.realm \in Parking!Optional(SUBSET Roles)
       /\ m.nested \subseteq Maps
  /\ Parking!AuthzConstants
<1>1. Faults \subseteq Parking!FaultKinds
  BY FaultsAssumption DEF FaultKinds, Parking!FaultKinds
<1>2. Texts \subseteq [parses : BOOLEAN, permits : SUBSET (Roles \X Parking!Risks)]
  BY PolicyAssumption DEF Risks, Parking!Risks
<1>3. \A S : Optional(S) = Parking!Optional(S)
  BY DEF Optional, Parking!Optional
<1>4. Parking!AuthzConstants
  <2>1. Checks!Identities = Parking!Identities
    BY DEF Checks!Identities, Parking!Identities
  <2>2. Checks!CheckRequests = Parking!CheckRequests
    BY <2>1 DEF Checks!CheckRequests, Parking!CheckRequests, Checks!Bodies, Parking!Bodies
  <2>3. \A i, b : Checks!Requested(i, b) = Parking!Requested(i, b)
    BY DEF Checks!Requested, Parking!Requested
  <2> QED BY <2>1, <2>2, <2>3, GateAssumption DEF Checks!AuthzConstants, Parking!AuthzConstants
<1> QED BY <1>1, <1>2, <1>3, <1>4, CheckRequestAssumption

\* A fresh row is fresh over both, and parked the same.
LEMMA FreshRowIsParked ==
  ASSUME TypeInv, RowNamesItsRequest, NEW c \in TxIds, NEW call, NEW out,
         Checks!Park(c, call, out)
  PROVE  Parking!Park(c, call, out)
<1>0. rows \in [TxIds -> Rows] /\ rows[c].state = "absent"
  BY DEF TypeInv, TypeOK, StoreTypeOK, Checks!Park
<1>1. AsParked[c] = rows[c] /\ rows[c] \in Rows
  BY <1>0 DEF AsParked
<1>2. CASE out = "error"
  <2>1. rows' = rows
    BY <1>2 DEF Checks!Park
  <2>2. AsParked' = AsParked
    BY <2>1 DEF AsParked
  <2> QED BY <1>0, <1>1, <1>2, <2>2 DEF Parking!Park
<1>3. CASE out # "error"
  <2> DEFINE half == [rows EXCEPT ![c].state = "pending"]
             parkedHalf == [AsParked EXCEPT ![c].state = "pending"]
             new == [state |-> "pending", call |-> call, by |-> Nobody, result |-> "null"]
  <2>1. rows' = [half EXCEPT ![c].call = call]
    BY <1>3 DEF Checks!Park
  <2>2. rows[c].by = Nobody /\ rows[c].result = "null"
    BY <1>0 DEF RowNamesItsRequest
  <2>3. /\ DOMAIN half = TxIds /\ half[c] = [rows[c] EXCEPT !.state = "pending"]
        /\ \A d \in TxIds \ {c} : half[d] = rows[d]
    BY <1>0
  <2>4. /\ DOMAIN rows' = TxIds /\ rows'[c] = [half[c] EXCEPT !.call = call]
        /\ \A d \in TxIds \ {c} : rows'[d] = rows[d]
    BY <2>1, <2>3
  <2>5. rows'[c] = new
    BY <1>1, <2>2, <2>3, <2>4 DEF Rows
  <2>6. AsParked' = [AsParked EXCEPT ![c] = new]
    BY <2>4, <2>5 DEF AsParked
  <2>7. DOMAIN AsParked = TxIds
    BY DEF AsParked
  <2>8. /\ DOMAIN parkedHalf = TxIds /\ parkedHalf[c] = [AsParked[c] EXCEPT !.state = "pending"]
        /\ \A d \in TxIds \ {c} : parkedHalf[d] = AsParked[d]
    BY <2>7
  <2>9. [parkedHalf[c] EXCEPT !.call = call] = new
    <3>1. parkedHalf[c] = half[c]
      BY <1>1, <2>3, <2>8
    <3> HIDE DEF half, parkedHalf
    <3> QED BY <3>1, <2>4, <2>5
  <2>10. [parkedHalf EXCEPT ![c].call = call] = [AsParked EXCEPT ![c] = new]
    BY <2>7, <2>8, <2>9
  <2>11. AsParked' = [AsParked EXCEPT ![c].state = "pending", ![c].call = call]
    BY <2>6, <2>10
  <2> QED BY <1>0, <1>1, <1>3, <2>11 DEF Parking!Park
<1> QED BY <1>2, <1>3

LEMMA ParkingIsParking ==
  ASSUME TypeInv, RowNamesItsRequest, NEW c \in TxIds, Checks!ParkCall(c)
  PROVE  Parking!ParkCall(c)
<1>1. UNCHANGED rows => UNCHANGED AsParked
  BY DEF AsParked
<1>2. \A out : Checks!Park(c, Checks!Call(c), out) => Parking!Park(c, Parking!Call(c), out)
  BY FreshRowIsParked, SameOperators
<1>3. Checks!Outcomes(checkCtx[c]) = Parking!Outcomes(checkCtx[c])
  BY SameOperators
<1> QED
  BY <1>1, <1>2, <1>3, SameControl
  DEF Checks!ParkCall, Parking!ParkCall, Checks!policyVars, Checks!processVars,
      Parking!policyVars, Parking!processVars

\* Every step of a check is one over the parked calls as well.
LEMMA ChecksStayChecks ==
  ASSUME TypeInv, RowNamesItsRequest, NEW c \in TxIds,
         Checks!Arrive(c) \/ Checks!Step(c) \/ Checks!Disconnect(c)
  PROVE  Parking!Arrive(c) \/ Parking!Step(c) \/ Parking!Disconnect(c)
<1>1. ASSUME UNCHANGED rows PROVE AsParked' = AsParked
  BY <1>1 DEF AsParked
<1>2. CASE Checks!ParkCall(c)
  BY <1>2, ParkingIsParking DEF Parking!Step
<1>3. CASE ~Checks!ParkCall(c)
  <2>1. UNCHANGED rows
    BY <1>3 DEF Checks!Arrive, Checks!Step, Checks!Disconnect, Checks!Snapshot,
       Checks!AskOwner, Checks!RecordDecision, Checks!PostToSlack, Checks!Answer
  <2> QED BY <1>1, <1>3, <2>1, ChecksThatLeaveRows DEF Checks!Step, Parking!Step
<1> QED BY <1>2, <1>3

\* And it is what Executor takes for a check: a call parked, or nothing.
LEMMA ChecksOnlyPark ==
  ASSUME TypeInv, Parking!Shape, Parking!AuthzInv, ProcessIsUp, NEW c \in TxIds,
         Checks!Arrive(c) \/ Checks!Step(c) \/ Checks!Disconnect(c), UNCHANGED clickVars
  PROVE  ParkCall \/ UNCHANGED vars
<1> USE DEF clickVars, handlerVars, historyVars, policyVars, processVars, vars,
            Checks!policyVars, Checks!processVars
<1>1. CASE Checks!ParkCall(c)
  <2>1. up
    BY <1>1 DEF Checks!ParkCall, ProcessIsUp, Checks!Active
  <2>2. Checks!Call(c) \in Attempts
    <3>1. checkPc[c] = "park"
      BY <1>1 DEF Checks!ParkCall
    <3>2. Parking!Call(c) \in Attempts
      BY <3>1, Parking!ParksAnAttempt, AuthzApplies, StoreAssumption, PolicyAssumption,
         GraphAssumption
    <3> QED BY <3>2, SameOperators
  <2>3. UNCHANGED <<file, loaded, edges, audit, up, crashes, job, pc, ctx, text, plan, tool,
                    since, carried, held>>
    BY <1>1 DEF Checks!ParkCall
  <2>4. UNCHANGED rows \/ Park(c, Checks!Call(c), "ok")
    BY <1>1 DEF Checks!ParkCall, Checks!Park, Park
  <2> QED BY <2>1, <2>2, <2>3, <2>4 DEF ParkCall
<1>2. CASE ~Checks!ParkCall(c)
  BY <1>2 DEF Checks!Arrive, Checks!Step, Checks!Disconnect, Checks!Snapshot, Checks!AskOwner,
     Checks!RecordDecision, Checks!PostToSlack, Checks!Answer
<1> QED BY <1>1, <1>2

-----------------------------------------------------------------------------
(* Each step of the whole is a step of each part, or leaves the part alone. *)

\* The tool server takes up an approved call as Executor says, and may take its time.
LEMMA ServingIsToolServe ==
  ASSUME TypeInv, NEW h \in Requests, ServeApproved(h)
  PROVE  ToolServe(h) \/ UNCHANGED vars
<1>0. tool \in [Requests -> ToolStates] /\ tool[h] = "sent"
  BY DEF TypeInv, TypeOK, ServeApproved
<1>1. UNCHANGED <<policyVars, edges, rows, audit, processVars, job, handlerVars, historyVars>>
  BY DEF ServeApproved, sharedVars, policyVars, processVars
<1>2. CASE handler'[h] \in {"ran", "refused"}
  BY <1>0, <1>1, <1>2 DEF ServeApproved, ToolServe
<1>3. CASE handler'[h] \notin {"ran", "refused"}
  <2>1. tool' = tool
    BY <1>0, <1>3 DEF ServeApproved
  <2> QED BY <1>1, <2>1 DEF vars
<1> QED BY <1>2, <1>3

LEMMA GateStepIsStep ==
  ASSUME Types, GateInv, [GateNext]_gateVars
  PROVE  [Next]_vars
<1>0. /\ TypeInv /\ Parking!Shape /\ Parking!AuthzInv /\ ProcessIsUp
  BY DEF Types, GateInv
<1>1. ASSUME NEW h \in Requests, Click(h) PROVE Next
  BY <1>1 DEF Click, Next
<1>2. ASSUME NEW h \in Requests, ServeApproved(h) PROVE [Next]_vars
  BY <1>0, <1>2, ServingIsToolServe DEF Next
<1>3. ASSUME NEW c \in TxIds, Check(c) PROVE [Next]_vars
  BY <1>0, <1>3, ChecksOnlyPark DEF Check, Next, Environment
<1>4. CASE (\E c \in TxIds : ServeForwarded(c)) \/ ToolServerCrash \/ UNCHANGED gateVars
  BY <1>4 DEF ServeForwarded, ToolServerCrash, gateVars, sharedVars, clickVars, vars, policyVars,
     processVars
<1>5. CASE OperatorEdits \/ AdminEdits \/ ProcessCrash \/ ProcessRestart
  BY <1>5 DEF OperatorEdits, AdminEdits, ProcessCrash, ProcessRestart, Next, Environment
<1> QED BY <1>1, <1>2, <1>3, <1>4, <1>5 DEF GateNext

LEMMA GateStepIsCheckStep ==
  ASSUME Types, GateInv, [GateNext]_gateVars
  PROVE  [Parking!Next]_<<loaded, edges, AsParked, up, crashes, checkVars>>
<1>0. /\ TypeInv /\ ProcessIsUp /\ SwapsParse /\ RowNamesItsRequest
  BY DEF Types, GateInv, IInv, Bookkeeping
<1>1. UNCHANGED rows => UNCHANGED AsParked
  BY DEF AsParked
<1>2. ASSUME NEW h \in Requests, Click(h)
      PROVE  [Parking!Next]_<<loaded, edges, AsParked, up, crashes, checkVars>>
  BY <1>0, <1>2, ClicksReload DEF Click
<1>3. ASSUME NEW c \in TxIds, Check(c) PROVE Parking!Next
  BY <1>0, <1>3, ChecksStayChecks DEF Check, Parking!Next
<1>4. CASE \/ \E h \in Requests : ServeApproved(h)
           \/ \E c \in TxIds : ServeForwarded(c)
           \/ ToolServerCrash \/ OperatorEdits \/ UNCHANGED gateVars
  <2>1. UNCHANGED <<loaded, edges, rows, up, crashes, checkVars>>
    BY <1>4 DEF ServeApproved, ServeForwarded, ToolServerCrash, OperatorEdits, EditFile, SaveFile,
       gateVars, sharedVars, processVars
  <2> QED BY <1>1, <2>1
<1>5. CASE AdminEdits
  <2>1. Parking!Administer
    BY <1>1, <1>5
    DEF AdminEdits, Administer, AdministerGraph, Grant, Revoke, policyVars, processVars, checkVars,
        Parking!Administer, Parking!AdministerGraph, Parking!Grant, Parking!Revoke,
        Parking!policyVars, Parking!processVars, Parking!checkVars
  <2> QED BY <2>1 DEF Parking!Next
<1>6. CASE ProcessCrash
  <2>1. Parking!Crash
    BY <1>1, <1>6
    DEF ProcessCrash, Checks!Crash, Checks!Active, Checks!policyVars,
        Parking!Crash, Parking!Active, Parking!policyVars
  <2> QED BY <2>1 DEF Parking!Next
<1>7. CASE ProcessRestart
  <2>1. Parking!Restart
    BY <1>1, <1>7
    DEF ProcessRestart, Checks!Restart, Checks!SwapPolicies, Checks!SeedGraph, Checks!checkVars,
        Parking!Restart, Parking!SwapPolicies, Parking!SeedGraph, Parking!checkVars
  <2> QED BY <2>1 DEF Parking!Next
<1> QED BY <1>2, <1>3, <1>4, <1>5, <1>6, <1>7 DEF GateNext

\* So what was proved of Executor and of Authz carries over.
LEMMA PartsKeep ==
  ASSUME Types, GateInv, [GateNext]_gateVars
  PROVE  /\ TypeInv' /\ IInv'
         /\ Parking!Shape' /\ Parking!Tables' /\ Parking!AuthzInv'
<1>1. TypeInv' /\ IInv'
  BY GateStepIsStep, TypeStep, BookkeepingStep, WindowStep, SentStep
  DEF Types, GateInv, IInv, Window
<1>2. Parking!Next \/ UNCHANGED <<loaded, edges, AsParked, up, crashes, checkVars>>
  BY GateStepIsCheckStep
<1>3. Parking!Shape /\ Parking!Tables /\ Parking!AuthzInv
  BY DEF Types, GateInv
<1> USE AuthzApplies, StoreAssumption, PolicyAssumption, GraphAssumption
<1>4. Parking!Shape' /\ Parking!AuthzInv'
  <2>1. Parking!Next \/ UNCHANGED Parking!seenVars
    BY <1>2 DEF checkVars, Parking!seenVars, Parking!checkVars
  <2> QED BY <1>3, <2>1, Parking!CheckStep
<1>5. Parking!Tables'
  <2>1. CASE Parking!Next
    BY <1>3, <2>1, Parking!TablesStep
  <2>2. CASE UNCHANGED <<loaded, edges, AsParked, up, crashes, checkVars>>
    <3>1. PolicyTypeOK'
      BY <1>1 DEF TypeInv, TypeOK
    <3> QED BY <1>3, <2>2, <3>1
        DEF checkVars, PolicyTypeOK, Parking!Tables, Parking!PolicyTypeOK, Parking!GraphTypeOK,
            Parking!StoreTypeOK, Parking!AuditTypeOK, Parking!AuditRows
  <2> QED BY <1>2, <2>1, <2>2
<1> QED BY <1>1, <1>4, <1>5

-----------------------------------------------------------------------------
(* The process, the policies on their way into it, and the tool server.     *)

\* A click moves on in a process that is up, alone, and reads only texts that
\* parse; what was sent stays sent.
LEMMA ClickMoves ==
  ASSUME TypeInv, SwapsParse, NEW h \in Requests, Receive(h) \/ Step(h) \/ Disconnect(h)
  PROVE  /\ Active(h) \/ up
         /\ up' = up
         /\ \A g \in Requests \ {h} : pc'[g] = pc[g] /\ text'[g] = text[g]
         /\ pc'[h] = "swap" => text'[h] \in Texts /\ text'[h].parses
         /\ \A g \in Requests : tool[g] # "none" => tool'[g] # "none"
<1>0. /\ pc \in [Requests -> Steps] /\ text \in [Requests -> Texts \union {NoText}]
      /\ tool \in [Requests -> ToolStates] /\ file \in Texts
  BY DEF TypeInv, TypeOK, PolicyTypeOK
<1>1. Active(h) \/ up
  BY DEF Receive, Step, Disconnect, Decide, Get, ReadFile, Swap, Snapshot, AskOwner, CallTool,
     ToolAnswered, ToolLost, SaveResult, WriteAudit, Active
<1>2. up' = up
  BY DEF Receive, Step, Disconnect, Decide, Get, ReadFile, Swap, Snapshot, AskOwner, CallTool,
     ToolAnswered, ToolLost, SaveResult, WriteAudit, processVars
<1>3. \A g \in Requests \ {h} : pc'[g] = pc[g] /\ text'[g] = text[g]
  BY <1>0 DEF Receive, Step, Disconnect, Decide, Get, ReadFile, Swap, Snapshot, AskOwner,
     CallTool, ToolAnswered, ToolLost, SaveResult, WriteAudit, GoTo, Conclude, Return,
     FollowDecision
<1>4. ASSUME pc'[h] = "swap" PROVE text'[h] \in Texts /\ text'[h].parses
  <2>1. CASE ReadFile(h)
    BY <1>0, <1>4, <2>1 DEF ReadFile, GoTo, Conclude
  <2>2. CASE ~ReadFile(h)
    <3>1. pc[h] = "swap" /\ text' = text
      BY <1>0, <1>4, <2>2 DEF Receive, Step, Disconnect, Decide, Get, Swap, Snapshot, AskOwner,
         CallTool, ToolAnswered, ToolLost, SaveResult, WriteAudit, GoTo, Conclude, Return,
         FollowDecision
    <3> QED BY <3>1 DEF SwapsParse
  <2> QED BY <2>1, <2>2
<1>5. \A g \in Requests : tool[g] # "none" => tool'[g] # "none"
  BY <1>0 DEF Receive, Step, Disconnect, Decide, Get, ReadFile, Swap, Snapshot, AskOwner,
     CallTool, ToolAnswered, ToolLost, SaveResult, WriteAudit
<1> QED BY <1>1, <1>2, <1>3, <1>4, <1>5

\* So does a check; what the gateway was told stays told.
LEMMA CheckMoves ==
  ASSUME Parking!Shape, Parking!AuthzInv, NEW c \in TxIds,
         Checks!Arrive(c) \/ Checks!Step(c) \/ Checks!Disconnect(c)
  PROVE  /\ Checks!Active(c) \/ up
         /\ up' = up /\ ask' = ask
         /\ \A d \in TxIds \ {c} : checkPc'[d] = checkPc[d]
         /\ \A d \in TxIds : Forwards(d) => Forwards(d)'
<1>0. /\ checkPc \in [TxIds -> Parking!Steps] /\ reply \in [TxIds -> Parking!Replies]
      /\ Parking!StepsInOrder(c)
  BY DEF Parking!Shape, Parking!AuthzInv, Parking!CheckInv
<1>1. Checks!Active(c) \/ up
  BY DEF Checks!Arrive, Checks!Step, Checks!Disconnect, Checks!Snapshot, Checks!AskOwner,
     Checks!RecordDecision, Checks!ParkCall, Checks!PostToSlack, Checks!Answer, Checks!Active
<1>2. up' = up /\ ask' = ask
  BY DEF Checks!Arrive, Checks!Step, Checks!Disconnect, Checks!Snapshot, Checks!AskOwner,
     Checks!RecordDecision, Checks!ParkCall, Checks!PostToSlack, Checks!Answer,
     Checks!processVars
<1>3. \A d \in TxIds \ {c} : checkPc'[d] = checkPc[d]
  BY <1>0 DEF Checks!Arrive, Checks!Step, Checks!Disconnect, Checks!Snapshot, Checks!AskOwner,
     Checks!RecordDecision, Checks!ParkCall, Checks!PostToSlack, Checks!Answer, Checks!Parked,
     Checks!Unresolved, Checks!Resolved, Checks!GoTo, Checks!Return, Checks!Decided
<1>4. answered \subseteq answered'
  BY DEF Checks!Arrive, Checks!Step, Checks!Disconnect, Checks!Snapshot, Checks!AskOwner,
     Checks!RecordDecision, Checks!ParkCall, Checks!PostToSlack, Checks!Answer
<1>5. \A d \in TxIds \ {c} : reply'[d] = reply[d]
  BY <1>0 DEF Checks!Arrive, Checks!Step, Checks!Disconnect, Checks!Snapshot, Checks!AskOwner,
     Checks!RecordDecision, Checks!ParkCall, Checks!PostToSlack, Checks!Answer, Checks!Parked,
     Checks!Unresolved, Checks!Resolved, Checks!Return, Checks!Decided
<1>6. CASE Checks!Answer(c) \/ Checks!Disconnect(c)
  <2>1. reply' = reply
    BY <1>6 DEF Checks!Answer, Checks!Disconnect
  <2> QED BY <1>1, <1>2, <1>3, <1>4, <2>1 DEF Forwards
<1>7. CASE ~Checks!Answer(c) /\ ~Checks!Disconnect(c)
  <2>1. checkPc[c] \in {"idle", "policy", "owner", "record", "park", "slack"}
    BY <1>7 DEF Checks!Arrive, Checks!Step, Checks!Snapshot, Checks!AskOwner,
       Checks!RecordDecision, Checks!ParkCall, Checks!PostToSlack
  <2>2. c \notin answered
    BY <1>0, <2>1
    DEF Parking!StepsInOrder, Parking!BeforeReply, Parking!BeforePark, Parking!BeforeRecord
  <2> QED BY <1>1, <1>2, <1>3, <1>4, <1>5, <2>2 DEF Forwards
<1> QED BY <1>6, <1>7

\* What the gateway may forward is harmless, and waits for no approval.
LEMMA ForwardedIsHarmless ==
  ASSUME Parking!Shape, Parking!AuthzInv, NEW c \in TxIds, Forwards(c), IsToolCall(ask[c].body)
  PROVE  /\ rows[c].state = "absent"
         /\ ask[c].body.tool \notin DestructiveTools
         /\ CedarAllows(basis[c], Requested(who[c], ask[c].body))
<1>1. /\ Parking!VerdictIsSound(c) /\ Parking!RowIsParked(c) /\ Parking!ReplyIsTrue(c)
      /\ reply[c] = "allow"
  BY DEF Parking!AuthzInv, Parking!CheckInv, Forwards
<1>2. verdict[c] = "allow"
  BY <1>1 DEF Parking!ReplyIsTrue
<1>3. AsParked[c] = Parking!NoRow
  BY <1>1, <1>2 DEF Parking!RowIsParked
<1>4. rows[c].state = "absent"
  BY <1>3 DEF AsParked, Parking!NoRow
<1>5. Parking!IsToolCall(ask[c].body)
  BY DEF IsToolCall, Parking!IsToolCall
<1>6. ask[c].body.tool \notin DestructiveTools /\ Parking!CedarAllows(basis[c], Parking!Call(c))
  BY <1>1, <1>2, <1>5 DEF Parking!VerdictIsSound
<1>7. Parking!Call(c) = Requested(who[c], ask[c].body)
  BY DEF Parking!Call, Parking!Requested, Requested
<1> QED BY <1>4, <1>6, <1>7 DEF CedarAllows, Parking!CedarAllows, Risk, Parking!Risk

\* What one call does at the tool server leaves the others alone.
LEMMA ServeOne ==
  ASSUME ToolServer!ToyTypeOK, NEW k \in Requests \union TxIds, NEW deletes, NEW record,
         ToolServer!Serve(k, deletes, record)
  PROVE  /\ ToolServer!ToyTypeOK'
         /\ handler[k] # "ran"
         /\ \A j \in (Requests \union TxIds) \ {k} : handler'[j] = handler[j]
         /\ records' \subseteq records
         /\ records' # records => /\ handler[k] = "remove" /\ handler'[k] = "ran"
                                  /\ records \ records' \subseteq {record}
         /\ handler'[k] = "remove" => deletes
  BY DEF ToolServer!ToyTypeOK, ToolServer!Serve, ToolServer!TakeUp, ToolServer!LookUp,
     ToolServer!Remove, ToolServer!Handled, ToolServer!HandlerStates

-----------------------------------------------------------------------------
(* The invariant.                                                           *)

\* What ties the parts together.
Ties == /\ ProcessIsUp /\ SwapsParse /\ ServedWasSent /\ ServedWasForwarded
        /\ records \subseteq Stock /\ ToolServer!ToyTypeOK /\ demoted \in [Requests -> SUBSET Users]

LEMMA ClickTies ==
  ASSUME Types, GateInv, NEW h \in Requests, Click(h)
  PROVE  Ties'
<1>1. UNCHANGED <<checkVars, toolVars, demoted>>
  BY DEF Click
<1>2. TypeInv /\ SwapsParse /\ ProcessIsUp
  BY DEF Types, GateInv
<1>3. /\ Active(h) \/ up
      /\ up' = up
      /\ \A g \in Requests \ {h} : pc'[g] = pc[g] /\ text'[g] = text[g]
      /\ pc'[h] = "swap" => text'[h] \in Texts /\ text'[h].parses
      /\ \A g \in Requests : tool[g] # "none" => tool'[g] # "none"
  BY <1>2, ClickMoves DEF Click
<1>4. ProcessIsUp' /\ SwapsParse'
  BY <1>1, <1>2, <1>3 DEF checkVars, ProcessIsUp, SwapsParse, Active, Checks!Active
<1>5. ServedWasSent' /\ ServedWasForwarded'
  BY <1>1, <1>3 DEF GateInv, checkVars, toolVars, ServedWasSent, ServedWasForwarded, Forwards
<1> QED BY <1>1, <1>4, <1>5 DEF Types, GateInv, Ties, toolVars, ToolServer!ToyTypeOK

LEMMA CheckTies ==
  ASSUME Types, GateInv, NEW c \in TxIds, Check(c)
  PROVE  Ties'
<1>1. UNCHANGED <<clickVars, toolVars, demoted>>
  BY DEF Check
<1>2. Parking!Shape /\ Parking!AuthzInv /\ ProcessIsUp
  BY DEF Types, GateInv
<1>3. /\ Checks!Active(c) \/ up
      /\ up' = up /\ ask' = ask
      /\ \A d \in TxIds \ {c} : checkPc'[d] = checkPc[d]
      /\ \A d \in TxIds : Forwards(d) => Forwards(d)'
  BY <1>2, CheckMoves DEF Check
<1>4. ProcessIsUp' /\ SwapsParse'
  BY <1>1, <1>2, <1>3
  DEF GateInv, clickVars, handlerVars, ProcessIsUp, SwapsParse, Active, Checks!Active
<1>5. ServedWasSent' /\ ServedWasForwarded'
  BY <1>1, <1>3 DEF GateInv, clickVars, toolVars, ServedWasSent, ServedWasForwarded
<1> QED BY <1>1, <1>4, <1>5 DEF Types, GateInv, Ties, toolVars, ToolServer!ToyTypeOK

LEMMA ToolServerTies ==
  ASSUME Types, GateInv,
         \/ \E h \in Requests : ServeApproved(h)
         \/ \E c \in TxIds : ServeForwarded(c)
         \/ ToolServerCrash
  PROVE  Ties'
<1>0. UNCHANGED <<up, pc, text, checkVars, demoted>>
  BY DEF ServeApproved, ServeForwarded, ToolServerCrash, sharedVars, clickVars, handlerVars
<1>1. ProcessIsUp' /\ SwapsParse' /\ demoted' \in [Requests -> SUBSET Users]
  BY <1>0 DEF Types, GateInv, checkVars, ProcessIsUp, SwapsParse, Active, Checks!Active
<1>2. \A c \in TxIds : Forwards(c)' = Forwards(c) /\ ask'[c] = ask[c]
  BY <1>0 DEF checkVars, Forwards
<1>3. ASSUME NEW h \in Requests, ServeApproved(h)
      PROVE  /\ ServedWasSent' /\ ServedWasForwarded' /\ records' \subseteq Stock
             /\ ToolServer!ToyTypeOK'
  <2>1. ToolServer!Serve(h, TRUE, Call(h).record) /\ tool[h] = "sent" /\ h \notin TxIds
    BY <1>3, ExecutorAssumption DEF ServeApproved
  <2>2. /\ ToolServer!ToyTypeOK' /\ records' \subseteq records
        /\ \A j \in (Requests \union TxIds) \ {h} : handler'[j] = handler[j]
    BY <2>1, ServeOne DEF Types
  <2>3. \A g \in Requests : tool[g] # "none" => tool'[g] # "none"
    BY <1>3 DEF ServeApproved, Types, TypeInv, TypeOK
  <2>4. ServedWasSent'
    BY <2>1, <2>2, <2>3 DEF GateInv, ServedWasSent
  <2>5. ServedWasForwarded'
    BY <1>2, <2>1, <2>2 DEF GateInv, ServedWasForwarded
  <2> QED BY <2>2, <2>4, <2>5 DEF GateInv
<1>4. ASSUME NEW c \in TxIds, ServeForwarded(c)
      PROVE  /\ ServedWasSent' /\ ServedWasForwarded' /\ records' \subseteq Stock
             /\ ToolServer!ToyTypeOK'
  <2>1. /\ ToolServer!Serve(c, ask[c].body.tool \in DestructiveTools, ask[c].body.id)
        /\ Forwards(c) /\ IsToolCall(ask[c].body) /\ c \notin Requests /\ tool' = tool
    BY <1>4, ExecutorAssumption DEF ServeForwarded, ReachesTool, clickVars
  <2>2. ask[c].body.tool \notin DestructiveTools
    BY <2>1, ForwardedIsHarmless DEF Types, GateInv
  <2>0. c \in Requests \union TxIds /\ ToolServer!ToyTypeOK
    BY DEF Types
  <2>. DEFINE destroys == ask[c].body.tool \in DestructiveTools
  <2>a. ToolServer!Serve(c, destroys, ask[c].body.id) /\ ~destroys /\ destroys \in BOOLEAN
    BY <2>1, <2>2
  <2>. HIDE DEF destroys
  <2>3. /\ ToolServer!ToyTypeOK' /\ records' \subseteq records /\ handler'[c] # "remove"
        /\ \A j \in (Requests \union TxIds) \ {c} : handler'[j] = handler[j]
    BY <2>0, <2>a, ServeOne
  <2>4. ServedWasSent'
    BY <2>1, <2>3 DEF GateInv, ServedWasSent
  <2>5. ServedWasForwarded'
    BY <1>2, <2>1, <2>3 DEF GateInv, ServedWasForwarded
  <2> QED BY <2>3, <2>4, <2>5 DEF GateInv
<1>5. CASE ToolServerCrash
  <2>1. /\ records' = Stock /\ tool' = tool
        /\ handler' = [k \in Requests \union TxIds |->
                         IF handler[k] \in {"lookup", "remove"} THEN "lost" ELSE handler[k]]
    BY <1>5 DEF ToolServerCrash, ToolServer!ToyCrash, clickVars
  <2>2. ToolServer!ToyTypeOK'
    BY <2>1, GateAssumption DEF Types, ToolServer!ToyTypeOK, ToolServer!HandlerStates
  <2>3. ServedWasSent' /\ ServedWasForwarded'
    BY <1>2, <2>1 DEF GateInv, ServedWasSent, ServedWasForwarded
  <2> QED BY <1>1, <2>1, <2>2, <2>3 DEF Ties
<1> QED BY <1>1, <1>3, <1>4, <1>5 DEF Ties

LEMMA RestTies ==
  ASSUME Types, GateInv,
         OperatorEdits \/ AdminEdits \/ ProcessCrash \/ ProcessRestart \/ UNCHANGED gateVars
  PROVE  Ties'
<1>0. UNCHANGED <<text, tool, toolVars, demoted>> \/ ProcessCrash
  BY DEF OperatorEdits, AdminEdits, ProcessRestart, EditFile, Administer, Restart,
     gateVars, clickVars, handlerVars
<1>1. UNCHANGED <<tool, toolVars, demoted, answered, reply, ask>>
  BY <1>0 DEF OperatorEdits, AdminEdits, ProcessCrash, ProcessRestart, EditFile, Administer,
     Checks!Crash, Checks!Restart, Checks!checkVars, Crash, gateVars, checkVars, toolVars
<1>2. ServedWasSent' /\ ServedWasForwarded'
  BY <1>1 DEF GateInv, toolVars, ServedWasSent, ServedWasForwarded, Forwards
<1>3. ProcessIsUp' /\ SwapsParse'
  <2>1. CASE ProcessCrash
    BY <2>1 DEF ProcessCrash, Crash, Checks!Crash, ProcessIsUp, SwapsParse, Active, Checks!Active
  <2>2. CASE ProcessRestart
    BY <2>2 DEF ProcessRestart, Restart, Checks!Restart, handlerVars, GateInv, ProcessIsUp,
       SwapsParse
  <2>3. CASE OperatorEdits \/ AdminEdits \/ UNCHANGED gateVars
    <3>1. UNCHANGED <<up, pc, text, checkPc>>
      BY <2>3 DEF OperatorEdits, AdminEdits, EditFile, Administer, handlerVars, processVars,
         checkVars, gateVars, sharedVars, clickVars
    <3> QED BY <3>1 DEF GateInv, ProcessIsUp, SwapsParse, Active, Checks!Active
  <2> QED BY <2>1, <2>2, <2>3
<1> QED BY <1>1, <1>2, <1>3 DEF Types, GateInv, Ties, toolVars, ToolServer!ToyTypeOK

LEMMA GateInvInit == GateInit => Types /\ GateInv
<1> SUFFICES ASSUME GateInit PROVE Types /\ GateInv
  OBVIOUS
<1>1. TypeInv /\ IInv
  BY TypeInit, BookkeepingInit, WindowInit, SentInit DEF GateInit, IInv, Window
<1>2. Parking!Init
  <2>1. AsParked = rows
    BY DEF AsParked, GateInit, Init, StoreInit
  <2> QED
    BY <2>1
    DEF GateInit, Checks!Init, Checks!PolicyInit, Checks!GraphInit, Checks!StoreInit,
        Checks!AuditInit, Parking!Init, Parking!PolicyInit, Parking!GraphInit,
        Parking!StoreInit, Parking!AuditInit
<1>3. Parking!Shape /\ Parking!AuthzInv /\ Parking!Tables
  BY <1>2, Parking!CheckInit, Parking!TablesInit, AuthzApplies, StoreAssumption,
     PolicyAssumption, GraphAssumption
<1>4. Ties
  BY GateAssumption
  DEF GateInit, Init, Checks!Init, ToolServer!ToyInit, Ties, ProcessIsUp, SwapsParse, Active,
      Checks!Active, ServedWasSent, ServedWasForwarded, ToolServer!ToyTypeOK,
      ToolServer!HandlerStates
<1> QED BY <1>1, <1>3, <1>4 DEF Types, GateInv, Ties

LEMMA GateInvStep == Types /\ GateInv /\ [GateNext]_gateVars => (Types /\ GateInv)'
<1> SUFFICES ASSUME Types, GateInv, [GateNext]_gateVars PROVE (Types /\ GateInv)'
  OBVIOUS
<1>1. Ties'
  BY ClickTies, CheckTies, ToolServerTies, RestTies DEF GateNext
<1> QED BY <1>1, PartsKeep DEF Types, GateInv, Ties

-----------------------------------------------------------------------------
(* The theorems.                                                            *)

\* The invariant of GateInvariant holds, for every value of the constants.
THEOREM GateInvariance == GateSpec => [](Types /\ GateInv)
  BY GateInvInit, GateInvStep, PTL DEF GateSpec

\* Composed with the checks and with a tool server that has handlers, clicks do
\* what Executor says (server.go:103, executor.go:37-101).
THEOREM ClicksRemainExecutor == GateSpec => ClicksAreExecutor
<1>1. GateInit => Init
  BY DEF GateInit
<1>2. (Types /\ GateInv) /\ [GateNext]_gateVars => [Next]_vars
  BY GateStepIsStep
<1> QED BY <1>1, <1>2, GateInvariance, PTL DEF GateSpec, ClicksAreExecutor, Spec

\* So what was proved of Executor holds of the whole: one call per approval, only
\* of approved rows, true rows and a true log, and re-checks within the window.
COROLLARY WholeKeepsPromises ==
  GateSpec => [](OneCallPerApproval /\ CallsAreAuthorised /\ RecordsTellTruth
                   /\ RecheckWithinWindow)
  BY ClicksRemainExecutor, AtMostOneCall, OnlyApprovedCalls, TruthfulRecords, RecheckIsRecent,
     PTL DEF ClicksAreExecutor

\* And row and log agree in the whole, too, while statements succeed and clients wait.
COROLLARY WholeKeepsLog ==
  ASSUME StatementsSucceed
  PROVE  GateSpec => []RowAndAuditAgree
  BY ClicksRemainExecutor, RowAndLogAgree, PTL DEF ClicksAreExecutor

\* From the agent's request to the tool server's map, the whole promises for a parked
\* call what Approval says (server.go:103, store.go:81-103, executor.go:37-101).
COROLLARY WholeImplementsApproval == GateSpec => ImplementsApproval
  BY ClicksRemainExecutor, Refinement, PTL DEF ClicksAreExecutor

\* Composed with the clicks, checks do what Authz says, over the parked calls as
\* they left them (server.go:62-135).
THEOREM ChecksRemainAuthz == GateSpec => ChecksAreAuthz
<1>1. (Types /\ GateInv) /\ [GateNext]_gateVars =>
        [Parking!Next]_<<loaded, edges, AsParked, up, crashes, checkVars>>
  BY GateStepIsCheckStep
<1> QED BY <1>1, GateInvariance, PTL DEF GateSpec, ChecksAreAuthz

\* So what was proved of Authz holds of the whole: parked calls are linked to the
\* log, replies are true, and cards name rows, whatever clicks make of the rows.
COROLLARY WholeAnswersTruly ==
  GateSpec => [](Parking!ParkedIsLinked /\ Parking!RepliesAreTrue /\ Parking!CardsHaveRows)
<1>1. Types /\ GateInv =>
        Parking!ParkedIsLinked /\ Parking!RepliesAreTrue /\ Parking!CardsHaveRows
  BY AuthzApplies, StoreAssumption, PolicyAssumption, GraphAssumption,
     Parking!LinkedByInvariant, Parking!TrueByInvariant, Parking!CardsByInvariant
  DEF Types, GateInv
<1> QED BY <1>1, GateInvariance, PTL

\* If the tokens agents send carry their callers, the checks of the whole act for
\* the caller wherever every claim the walk over _meta may come upon does so, too,
\* whichever of them it comes upon first (identity.go:62-117, server.go:62-79).
COROLLARY WholeActsForCallers ==
  ASSUME Parking!TokensCarryCallers
  PROVE  GateSpec => []Parking!ActsForCaller
<1>1. Types /\ GateInv => Parking!ActsForCaller
  BY AuthzApplies, StoreAssumption, PolicyAssumption, GraphAssumption,
     Parking!CallerByInvariant
  DEF Types, GateInv
<1> QED BY <1>1, GateInvariance, PTL

\* Every variable keeps its type; clicks never spoil what the checks rely on.
THEOREM GateTypeCorrect == GateSpec => []GateTypeOK
<1>1. Types /\ GateInv => GateTypeOK
  BY DEF Types, GateTypeOK, TypeInv, TypeOK, PolicyTypeOK, GraphTypeOK, StoreTypeOK, Rows,
     RowStates, RowResults,
     Parking!Shape, Parking!Tables, Parking!Steps, Parking!Contexts, Parking!Verdicts,
     Parking!Replies, Parking!Identities, Parking!AuditTypeOK, Parking!AuditRows,
     Parking!CheckDecisions, Parking!OutcomeDecisions,
     Checks!TypeOK, Checks!PolicyTypeOK, Checks!GraphTypeOK, Checks!StoreTypeOK,
     Checks!AuditTypeOK, Checks!AuditRows, Checks!CheckDecisions, Checks!OutcomeDecisions,
     Checks!Rows, Checks!RowStates, Checks!RowResults, Checks!Steps, Checks!Contexts,
     Checks!Verdicts, Checks!Replies, Checks!Identities
<1> QED BY <1>1, GateInvariance, PTL

\* Whatever was sent for a click was approved and re-checked, and goes back to a
\* logged decision on a call an agent made.
LEMMA SentIsAuthorised ==
  ASSUME Types, GateInv, NEW h \in Requests, tool[h] # "none"
  PROVE  Authorised(h)
<1> DEFINE tx == Tx(h)
<1>1. TypeInv /\ IInv /\ Parking!AuthzInv /\ tx \in TxIds
  BY DEF Types, GateInv, TypeInv, TypeOK, Tx, Jobs
<1>2. /\ job[h].button = "approve" /\ rows[tx].by = h
      /\ rows[tx].state \in {"approved", "executed", "failed"}
  BY <1>1, AuthorisedByInvariant DEF CallsAreAuthorised
<1>10. Rechecked(h)
  BY <1>1 DEF IInv, SentWasRechecked
<1>3. /\ Parking!RowIsParked(tx) /\ Parking!KnownIsLogged(tx) /\ Parking!VerdictIsSound(tx)
  BY <1>1 DEF Parking!AuthzInv, Parking!CheckInv
<1>4. AsParked[tx].call = rows[tx].call /\ AsParked[tx].state = "pending"
  BY <1>1, <1>2 DEF AsParked
<1>5. /\ AsParked[tx] = Parking!RowOf(tx) /\ known[tx] /\ verdict[tx] = "needs_approval"
  BY <1>3, <1>4 DEF Parking!RowIsParked, Parking!NoRow
<1>6. rows[tx].call = Requested(who[tx], ask[tx].body) /\ rows[tx].call = Parking!Call(tx)
  BY <1>4, <1>5 DEF Parking!RowOf, Parking!Call, Parking!Requested, Requested
<1>7. PICK d \in decisions : d.id = tx /\ d.decision = verdict[tx] /\ d.basis = basis[tx]
  BY <1>3, <1>5 DEF Parking!KnownIsLogged
<1>8. Parking!CedarAllows(basis[tx], Parking!Call(tx))
  BY <1>3, <1>5 DEF Parking!VerdictIsSound
<1>9. CedarAllows(d.basis, rows[tx].call)
  BY <1>6, <1>7, <1>8 DEF CedarAllows, Parking!CedarAllows, Risk, Parking!Risk
<1> QED BY <1>2, <1>5, <1>6, <1>7, <1>9, <1>10 DEF AskedFor, Authorised

\* The tool server is given two kinds of calls: those a human approved, each with a
\* re-check that let it through and a logged decision that asked for the approval;
\* and those the gateway forwarded, each allowed by the policies a check decided on,
\* not destructive, and not parked (server.go:89-125, executor.go:38-66).
THEOREM CallsAreAccounted == GateSpec => []EveryCallAccounted
<1>1. Types /\ GateInv => EveryCallAccounted
  <2> SUFFICES ASSUME Types, GateInv PROVE EveryCallAccounted
    OBVIOUS
  <2>1. ASSUME NEW h \in Requests, handler[h] # "none"
        PROVE  Authorised(h)
    BY <2>1, SentIsAuthorised DEF GateInv, ServedWasSent
  <2>2. ASSUME NEW c \in TxIds, handler[c] # "none"
        PROVE  /\ rows[c].state = "absent"
               /\ ask[c].body.tool \notin DestructiveTools
               /\ CedarAllows(basis[c], Requested(who[c], ask[c].body))
    BY <2>2, ForwardedIsHarmless DEF Types, GateInv, ServedWasForwarded
  <2> QED BY <2>1, <2>2 DEF EveryCallAccounted
<1> QED BY <1>1, GateInvariance, PTL

\* A record disappears only in the handler of a call that names it, and that was
\* approved, re-checked and asked for (server.go:89-105, executor.go:38-66, main.go:53-64
\* of the tool server).
THEOREM RecordsNeedApproval == GateSpec => RecordsGoByApproval
<1> DEFINE ByApproval(r) == \E h \in Requests :
             /\ handler[h] = "remove" /\ handler'[h] = "ran"
             /\ Call(h).record = r
             /\ Authorised(h)
<1>1. ASSUME Types, GateInv, [GateNext]_gateVars, NEW r \in records \ records'
      PROVE  ByApproval(r)
  <2>0. ToolServer!ToyTypeOK /\ ServedWasForwarded /\ records \subseteq Stock
    BY <1>1 DEF Types, GateInv
  <2>1. ASSUME NEW h \in Requests, ServeApproved(h) PROVE ByApproval(r)
    <3>1. ToolServer!Serve(h, TRUE, Call(h).record) /\ tool[h] # "none"
      BY <2>1 DEF ServeApproved
    <3>2. h \in Requests \union TxIds
      OBVIOUS
    <3>3. handler[h] = "remove" /\ handler'[h] = "ran" /\ records \ records' \subseteq {Call(h).record}
      BY <1>1, <2>0, <3>1, <3>2, ServeOne
    <3>4. Authorised(h)
      BY <1>1, <3>1, SentIsAuthorised
    <3> QED BY <3>3, <3>4
  <2>2. ASSUME NEW c \in TxIds, ServeForwarded(c) PROVE FALSE
    <3>1. ToolServer!Serve(c, ask[c].body.tool \in DestructiveTools, ask[c].body.id)
      BY <2>2 DEF ServeForwarded
    <3>2. handler[c] = "remove"
      BY <1>1, <2>0, <3>1, ServeOne
    <3> QED BY <2>0, <3>2 DEF ServedWasForwarded
  <2>3. ~ToolServerCrash
    BY <1>1, <2>0 DEF ToolServerCrash, ToolServer!ToyCrash
  <2>4. /\ \A h \in Requests : ~Click(h)
        /\ \A c \in TxIds : ~Check(c)
        /\ ~OperatorEdits /\ ~AdminEdits /\ ~ProcessCrash /\ ~ProcessRestart
        /\ ~UNCHANGED gateVars
    BY <1>1 DEF Click, Check, OperatorEdits, AdminEdits, ProcessCrash, ProcessRestart, gateVars,
       toolVars
  <2> QED BY <1>1, <2>1, <2>2, <2>3, <2>4 DEF GateNext
<1>2. (Types /\ GateInv) /\ [GateNext]_gateVars =>
        [\A r \in records \ records' : ByApproval(r)]_gateVars
  BY <1>1
<1> QED BY <1>2, GateInvariance, PTL DEF GateSpec, RecordsGoByApproval

=============================================================================
