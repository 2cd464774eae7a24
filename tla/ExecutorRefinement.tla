-------------------------- MODULE ExecutorRefinement --------------------------
(***************************************************************************)
(* Executor implements Approval, for every value of the constants.  Only   *)
(* four kinds of step change what Approval sees: parking, Decide,          *)
(* SaveResult, and the two ends of a tool call.                            *)
(***************************************************************************)
EXTENDS ExecutorProofs

\* What Approval's variables stand for.
Seen == <<[tx \in TxIds |-> PhaseOf(tx)], [tx \in TxIds |-> EffectOf(tx)]>>

\* The effect of a call is that of the request that took its row.
LEMMA EffectOfOwner ==
  ASSUME RequestTookItsRow, NEW h \in Requests, NEW tx \in TxIds, tx = Tx(h),
         rows[tx].by = h
  PROVE  EffectOf(tx) = CASE tool[h] = "none" -> "none"
                          [] tool[h] = "ran" -> "ran"
                          [] OTHER -> "sent"
  BY DEF RequestTookItsRow, EffectOf, SentFor

\* The steps that leave rows and tool calls alone stutter.
LEMMA QuietSeen == UNCHANGED <<rows, job, tool>> => UNCHANGED Seen
  BY DEF Seen, PhaseOf, EffectOf, SentFor, Tx

\* A step that changes one row and no tool call.
LEMMA OneRow ==
  ASSUME UNCHANGED <<job, tool>>, NEW tx \in TxIds,
         \A t \in TxIds \ {tx} : rows'[t] = rows[t]
  PROVE  /\ PhaseOf(tx)' = PhaseOf(tx) => UNCHANGED Seen
         /\ Promise!Advance(tx, PhaseOf(tx), PhaseOf(tx)')
<1>1. [t \in TxIds |-> EffectOf(t)]' = [t \in TxIds |-> EffectOf(t)]
  BY DEF EffectOf, SentFor, Tx
<1>2. \A t \in TxIds \ {tx} : PhaseOf(t)' = PhaseOf(t)
  BY DEF PhaseOf
<1>3. PhaseOf(tx)' = PhaseOf(tx) => UNCHANGED Seen
  BY <1>1, <1>2 DEF Seen
<1>4. Promise!Advance(tx, PhaseOf(tx), PhaseOf(tx)')
  BY <1>1, <1>2 DEF Promise!Advance
<1> QED BY <1>3, <1>4

\* A step that changes one tool call, that of the request that took tx, and no row.
LEMMA OneCall ==
  ASSUME RequestTookItsRow, NEW h \in Requests, NEW tx \in TxIds, tx = Tx(h),
         rows[tx].by = h, UNCHANGED <<rows, job>>,
         \A g \in Requests \ {h} : tool'[g] = tool[g]
  PROVE  /\ [t \in TxIds |-> PhaseOf(t)]' = [t \in TxIds |-> PhaseOf(t)]
         /\ [t \in TxIds |-> EffectOf(t)]' =
              [[t \in TxIds |-> EffectOf(t)] EXCEPT ![tx] = EffectOf(tx)']
         /\ EffectOf(tx)' = CASE tool'[h] = "none" -> "none"
                               [] tool'[h] = "ran" -> "ran"
                               [] OTHER -> "sent"
<1>1. [t \in TxIds |-> PhaseOf(t)]' = [t \in TxIds |-> PhaseOf(t)]
  BY DEF PhaseOf
<1>2. \A t \in TxIds \ {tx} : EffectOf(t)' = EffectOf(t)
  BY DEF EffectOf, SentFor, Tx
<1>3. [t \in TxIds |-> EffectOf(t)]' =
        [[t \in TxIds |-> EffectOf(t)] EXCEPT ![tx] = EffectOf(tx)']
  BY <1>2
<1>4. \A g \in Requests \ {h} : Tx(g) = tx => tool'[g] = "none"
  BY DEF RequestTookItsRow
<1>5. EffectOf(tx)' = CASE tool'[h] = "none" -> "none"
                        [] tool'[h] = "ran" -> "ran"
                        [] OTHER -> "sent"
  BY <1>4 DEF EffectOf, SentFor, Tx
<1> QED BY <1>1, <1>3, <1>5

-----------------------------------------------------------------------------
(* The steps Approval sees.                                                 *)

LEMMA DecideSeen ==
  ASSUME TypeInv, IInv, NEW h \in Requests, Decide(h)
  PROVE  Promise!Next \/ UNCHANGED Seen
<1>t. PICK tx \in TxIds : tx = Tx(h)
  BY DEF TypeInv, TypeOK, Tx, Jobs
<1>0. /\ tx = Tx(h) /\ rows \in [TxIds -> Rows] /\ UNCHANGED <<job, tool>>
      /\ RowNamesItsRequest
  BY <1>t DEF Decide, TypeInv, TypeOK, StoreTypeOK, IInv, Bookkeeping
<1>1. PICK out \in Outcomes(ctx[h]), s \in {"approved", "denied"} :
        StoreDecide(tx, s, h, out)
  BY <1>0 DEF Decide
<1>2. CASE out = "error" \/ rows[tx].state # "pending"
  BY <1>0, <1>1, <1>2, QuietSeen DEF StoreDecide
<1>3. CASE ~(out = "error" \/ rows[tx].state # "pending")
  <2>1. /\ \A t \in TxIds \ {tx} : rows'[t] = rows[t]
        /\ rows'[tx].state = s /\ rows'[tx].result = rows[tx].result
    BY <1>0, <1>1, <1>3 DEF StoreDecide, Rows
  <2>2. rows[tx].result = "null"
    BY <1>0, <1>3 DEF RowNamesItsRequest
  <2>3. PhaseOf(tx) = "pending" /\ PhaseOf(tx)' = s
    BY <1>3, <1>0, <2>1, <2>2 DEF PhaseOf, Tx
  <2>4. Promise!Advance(tx, "pending", s)
    BY <1>0, <2>1, <2>3, OneRow
  <2> QED BY <1>0, <2>4 DEF Promise!Next, Promise!HumanDecides
<1> QED BY <1>2, <1>3

LEMMA SaveResultSeen ==
  ASSUME TypeInv, IInv, NEW h \in Requests, SaveResult(h)
  PROVE  Promise!Next \/ UNCHANGED Seen
<1>t. PICK tx \in TxIds : tx = Tx(h)
  BY DEF TypeInv, TypeOK, Tx, Jobs
<1>0. /\ tx = Tx(h) /\ rows \in [TxIds -> Rows] /\ UNCHANGED <<job, tool>>
      /\ RowNamesItsRequest /\ RequestTookItsRow /\ PlanIsTrue /\ pc[h] = "result"
      /\ plan[h] \in Plans
  BY <1>t DEF SaveResult, TypeInv, TypeOK, StoreTypeOK, IInv, Bookkeeping
<1>1. /\ rows[tx].by = h /\ rows[tx].result = "null"
      /\ rows[tx].state = IF plan[h] = "denied" THEN "denied" ELSE "approved"
  <2>1. rows[tx].by = h /\ h # Nobody
    BY <1>0, StoreAssumption DEF RequestTookItsRow, AfterTaking
  <2>2. rows[tx].result = "null"
    BY <1>0, <2>1 DEF RowNamesItsRequest
  <2>3. rows[tx].state \in {"approved", "denied"}
    BY <1>0, <2>1, <2>2 DEF RowNamesItsRequest, Rows, RowStates
  <2> QED BY <1>0, <2>1, <2>2, <2>3 DEF RowNamesItsRequest, PlanIsTrue
<1>2. /\ plan[h] # "none"
      /\ plan[h] = "executed" => EffectOf(tx) = "ran"
      /\ plan[h] = "void" => EffectOf(tx) = "none"
  BY <1>0, <1>1, EffectOfOwner DEF PlanIsTrue
<1>3. PICK out \in Outcomes(ctx[h]) :
        SetResult(tx, FinalState(plan[h]), FinalResult(plan[h]), out)
  BY <1>0 DEF SaveResult
<1>4. CASE out = "error"
  BY <1>0, <1>3, <1>4, QuietSeen DEF SetResult
<1>5. CASE out # "error"
  <2>1. /\ \A t \in TxIds \ {tx} : rows'[t] = rows[t]
        /\ rows'[tx].state = FinalState(plan[h])
        /\ rows'[tx].result = FinalResult(plan[h])
    BY <1>0, <1>1, <1>3, <1>5 DEF SetResult, Rows
  <2>2. /\ PhaseOf(tx) = IF plan[h] = "denied" THEN "denied" ELSE "approved"
        /\ PhaseOf(tx)' = IF plan[h] = "void" THEN "void" ELSE FinalState(plan[h])
    BY <1>0, <1>1, <2>1 DEF PhaseOf, FinalResult, Plans, Tx
  <2>3. CASE plan[h] = "denied"
    BY <1>0, <2>1, <2>2, <2>3, OneRow DEF FinalState
  <2>4. CASE plan[h] # "denied"
    <3>1. Promise!Advance(tx, "approved", IF plan[h] = "void" THEN "void"
                                             ELSE FinalState(plan[h]))
      BY <1>0, <2>1, <2>2, <2>4, OneRow
    <3>2. CASE plan[h] = "executed"
      BY <1>0, <1>2, <3>1, <3>2 DEF Promise!Next, Promise!ReportExecuted, FinalState
    <3>3. CASE plan[h] = "error"
      BY <1>0, <3>1, <3>3 DEF Promise!Next, Promise!ReportFailed, FinalState
    <3>4. CASE plan[h] = "void"
      BY <1>0, <1>2, <3>1, <3>4 DEF Promise!Next, Promise!ReportVoid
    <3> QED BY <1>0, <1>2, <2>4, <3>2, <3>3, <3>4 DEF Plans
  <2> QED BY <2>3, <2>4
<1> QED BY <1>4, <1>5

LEMMA CallToolSeen ==
  ASSUME TypeInv, IInv, NEW h \in Requests, CallTool(h)
  PROVE  Promise!Next \/ UNCHANGED Seen
<1>t. PICK tx \in TxIds : tx = Tx(h)
  BY DEF TypeInv, TypeOK, Tx, Jobs
<1>0. /\ tx = Tx(h) /\ rows \in [TxIds -> Rows] /\ UNCHANGED <<rows, job>>
      /\ RowNamesItsRequest /\ RequestTookItsRow /\ ToolFollowsSteps
      /\ pc[h] = "call" /\ tool \in [Requests -> ToolStates]
  BY <1>t DEF CallTool, TypeInv, TypeOK, StoreTypeOK, IInv, Bookkeeping
<1>1. CASE UNCHANGED tool
  BY <1>0, <1>1, QuietSeen
<1>2. CASE tool' = [tool EXCEPT ![h] = "sent"]
  <2>1. /\ rows[tx].by = h /\ h # Nobody /\ tool[h] = "none"
        /\ job[h].button = "approve"
    BY <1>0, StoreAssumption
    DEF RequestTookItsRow, AfterTaking, ToolFollowsSteps, BeforeTool, Approving
  <2>2. rows[tx].result = "null"
    BY <1>0, <2>1 DEF RowNamesItsRequest
  <2>3. rows[tx].state = "approved"
    BY <1>0, <2>1, <2>2 DEF RowNamesItsRequest, Rows, RowStates
  <2>4. PhaseOf(tx) = "approved" /\ EffectOf(tx) = "none"
    BY <1>0, <2>1, <2>2, <2>3, EffectOfOwner DEF PhaseOf
  <2>5. tool'[h] = "sent" /\ \A g \in Requests \ {h} : tool'[g] = tool[g]
    BY <1>0, <1>2
  <2>6. /\ [t \in TxIds |-> PhaseOf(t)]' = [t \in TxIds |-> PhaseOf(t)]
        /\ [t \in TxIds |-> EffectOf(t)]' =
             [[t \in TxIds |-> EffectOf(t)] EXCEPT ![tx] = "sent"]
    BY <1>0, <2>1, <2>5, OneCall
  <2> QED BY <1>0, <2>4, <2>6 DEF Promise!Next, Promise!Forward
<1> QED BY <1>1, <1>2 DEF CallTool

LEMMA ToolServeSeen ==
  ASSUME TypeInv, IInv, NEW h \in Requests, ToolServe(h)
  PROVE  Promise!Next \/ UNCHANGED Seen
<1>t. PICK tx \in TxIds : tx = Tx(h)
  BY DEF TypeInv, TypeOK, Tx, Jobs
<1>0. /\ tx = Tx(h) /\ UNCHANGED <<rows, job>> /\ RequestTookItsRow
      /\ tool[h] = "sent" /\ tool \in [Requests -> ToolStates]
  BY <1>t DEF ToolServe, TypeInv, TypeOK, IInv, Bookkeeping
<1>1. PICK result \in {"ran", "refused"} : tool' = [tool EXCEPT ![h] = result]
  BY DEF ToolServe
<1>2. tool'[h] = result /\ \A g \in Requests \ {h} : tool'[g] = tool[g]
  BY <1>0, <1>1
<1>3. rows[tx].by = h /\ EffectOf(tx) = "sent"
  BY <1>0, EffectOfOwner DEF RequestTookItsRow
<1>4. /\ [t \in TxIds |-> PhaseOf(t)]' = [t \in TxIds |-> PhaseOf(t)]
      /\ [t \in TxIds |-> EffectOf(t)]' =
           [[t \in TxIds |-> EffectOf(t)] EXCEPT
              ![tx] = IF result = "ran" THEN "ran" ELSE "sent"]
  BY <1>0, <1>2, <1>3, OneCall
<1>5. CASE result = "ran"
  BY <1>0, <1>3, <1>4, <1>5 DEF Promise!Next, Promise!Run
<1>6. CASE result = "refused"
  BY <1>0, <1>3, <1>4, <1>6 DEF Seen
<1> QED BY <1>1, <1>5, <1>6

LEMMA ParkCallSeen ==
  ASSUME TypeInv, IInv, ParkCall
  PROVE  Promise!Next \/ UNCHANGED Seen
<1>0. rows \in [TxIds -> Rows] /\ UNCHANGED <<job, tool>> /\ RowNamesItsRequest
  BY DEF ParkCall, TypeInv, TypeOK, StoreTypeOK, IInv, Bookkeeping, handlerVars
<1>1. PICK tx \in TxIds, call \in Attempts : Park(tx, call, "ok")
  BY DEF ParkCall
<1>2. /\ rows[tx].state = "absent" /\ rows'[tx].state = "pending"
      /\ rows'[tx].result = rows[tx].result
      /\ \A t \in TxIds \ {tx} : rows'[t] = rows[t]
  BY <1>0, <1>1 DEF Park, Rows
<1>3. rows[tx].result = "null"
  BY <1>0, <1>2 DEF RowNamesItsRequest
<1>4. PhaseOf(tx) = "absent" /\ PhaseOf(tx)' = "pending"
  BY <1>2, <1>3 DEF PhaseOf
<1>5. Promise!Advance(tx, "absent", "pending")
  BY <1>0, <1>2, <1>4, OneRow
<1> QED BY <1>5 DEF Promise!Next, Promise!Park

-----------------------------------------------------------------------------
(* The theorem.                                                             *)

LEMMA StepSeen == TypeInv /\ IInv /\ [Next]_vars => [Promise!Next]_Seen
<1> SUFFICES ASSUME TypeInv, IInv, [Next]_vars PROVE Promise!Next \/ UNCHANGED Seen
  OBVIOUS
<1>1. ASSUME NEW h \in Requests, Receive(h) \/ Step(h) \/ ToolServe(h) \/ Disconnect(h)
      PROVE  Promise!Next \/ UNCHANGED Seen
  <2>1. CASE Receive(h) \/ Disconnect(h)
    BY <2>1, QuietSeen DEF Receive, Disconnect
  <2>2. CASE Get(h) \/ ReadFile(h) \/ Swap(h) \/ Snapshot(h) \/ AskOwner(h)
    BY <2>2, QuietSeen DEF Get, ReadFile, Swap, Snapshot, AskOwner
  <2>3. CASE ToolAnswered(h) \/ ToolLost(h) \/ WriteAudit(h)
    BY <2>3, QuietSeen DEF ToolAnswered, ToolLost, WriteAudit
  <2>4. CASE Decide(h) \/ SaveResult(h) \/ CallTool(h) \/ ToolServe(h)
    BY <2>4, DecideSeen, SaveResultSeen, CallToolSeen, ToolServeSeen
  <2> QED BY <1>1, <2>1, <2>2, <2>3, <2>4 DEF Step
<1>2. CASE EditFile \/ Administer \/ Crash \/ Restart
  BY <1>2, QuietSeen DEF EditFile, Administer, Crash, Restart, handlerVars
<1>3. CASE ParkCall
  BY <1>3, ParkCallSeen
<1>4. CASE UNCHANGED vars
  BY <1>4, QuietSeen DEF vars
<1> QED BY <1>1, <1>2, <1>3, <1>4 DEF Next, Environment

\* Whatever requests, services, operators, clients and crashes do, a parked call
\* only ever goes the ways Approval allows (store.go:81-103, executor.go:35-101).
THEOREM Refinement == Spec => ImplementsApproval
<1>1. Init => Promise!Init
  BY DEF Init, StoreInit, Promise!Init, PhaseOf, EffectOf, SentFor
<1>2. TypeInv /\ IInv /\ [Next]_vars => [Promise!Next]_Seen
  BY StepSeen
<1> QED BY <1>1, <1>2, Invariance, PTL DEF Spec, ImplementsApproval, Promise!Spec, Seen

=============================================================================
