---------------------------- MODULE ExecutorProofs ----------------------------
(***************************************************************************)
(* Theorems about Executor, for every number of requests, parked calls,    *)
(* texts and crashes and for every set of faults.                          *)
(***************************************************************************)
EXTENDS ExecutorInvariant, StoreProofs

-----------------------------------------------------------------------------
(* Types.                                                                   *)

\* Only a text that parses gets as far as the lock of Reload.
SwapHasText == \A h \in Requests : pc[h] = "swap" => text[h] \in Texts

TypeInv == TypeOK /\ SwapHasText

LEMMA TypeInit == Init => TypeInv
  BY PolicyAssumption, GraphAssumption, StoreAssumption, ExecutorAssumption
  DEF Init, TypeInv, TypeOK, SwapHasText, PolicyInit, GraphInit, StoreInit, AuditInit,
      PolicyTypeOK, GraphTypeOK, StoreTypeOK, AuditTypeOK, Rows, RowStates, RowResults,
      Contexts, Steps, Plans, ToolStates

LEMMA AuditType ==
  ASSUME AuditTypeOK, PolicyTypeOK, NEW h \in Requests, NEW tx \in TxIds,
         NEW d \in OutcomeDecisions, NEW b \in Texts \union {NoText}, NEW out \in Results,
         Record(h, tx, d, b, out)
  PROVE  AuditTypeOK'
  BY DEF AuditTypeOK, PolicyTypeOK, Record, AuditRows

LEMMA FinalType ==
  ASSUME NEW p \in Plans
  PROVE  /\ FinalState(p) \in {"executed", "denied", "failed"}
         /\ FinalResult(p) \in RowResults
         /\ FinalDecision(p) \in OutcomeDecisions
  BY DEF Plans, FinalState, FinalResult, FinalDecision, RowResults, OutcomeDecisions

\* The types of the variables of the handlers.
HandlerTypeOK ==
  /\ pc \in [Requests -> Steps]
  /\ ctx \in [Requests -> Contexts]
  /\ text \in [Requests -> Texts \union {NoText}]
  /\ plan \in [Requests -> Plans]

LEMMA GoToType ==
  ASSUME HandlerTypeOK, NEW h \in Requests, NEW s \in Steps, GoTo(h, s)
  PROVE  /\ pc' \in [Requests -> Steps] /\ ctx' \in [Requests -> Contexts]
         /\ pc'[h] = s /\ \A g \in Requests \ {h} : pc'[g] = pc[g]
  BY DEF HandlerTypeOK, GoTo, AfterStep, Contexts

LEMMA ConcludeType ==
  ASSUME HandlerTypeOK, NEW h \in Requests, NEW p \in Plans, Conclude(h, p)
  PROVE  /\ pc' \in [Requests -> Steps] /\ ctx' \in [Requests -> Contexts]
         /\ plan' \in [Requests -> Plans]
         /\ pc'[h] = "result" /\ \A g \in Requests \ {h} : pc'[g] = pc[g]
  BY GoToType DEF HandlerTypeOK, Conclude, Steps

LEMMA ReturnType ==
  ASSUME HandlerTypeOK, NEW h \in Requests, Return(h)
  PROVE  /\ HandlerTypeOK'
         /\ pc'[h] = "done"
         /\ \A g \in Requests \ {h} : pc'[g] = pc[g] /\ text'[g] = text[g]
  BY DEF HandlerTypeOK, Return, Steps, Contexts, Plans

\* Each step of a request keeps the types.
LEMMA TypeStepRequest ==
  ASSUME TypeInv, NEW h \in Requests, Receive(h) \/ Step(h) \/ ToolServe(h) \/ Disconnect(h)
  PROVE  TypeInv'
<1> USE PolicyAssumption, ExecutorAssumption
<1>0. /\ HandlerTypeOK
      /\ ctx[h] \in Contexts /\ Tx(h) \in TxIds
      /\ job[h].button \in {"approve", "deny"}
      /\ Outcomes(ctx[h]) \subseteq Results
      /\ plan[h] \in Plans
      /\ StoreTypeOK /\ AuditTypeOK /\ PolicyTypeOK
  BY OutcomesAreResults DEF TypeInv, TypeOK, HandlerTypeOK, Jobs, Tx
<1>1. CASE Receive(h)
  BY <1>0, <1>1 DEF Receive, TypeInv, TypeOK, SwapHasText, PolicyTypeOK, GraphTypeOK, StoreTypeOK,
     AuditTypeOK, policyVars, processVars, historyVars, Steps
<1>2. CASE Decide(h)
  <2>1. PICK out \in Outcomes(ctx[h]) :
          /\ StoreDecide(Tx(h), IF job[h].button = "approve" THEN "approved" ELSE "denied", h, out)
          /\ \/ GoTo(h, "get") /\ UNCHANGED <<text, plan>> /\ OpenWindow(h)
             \/ Return(h) /\ UNCHANGED historyVars
    BY <1>2 DEF Decide
  <2>2. StoreTypeOK'
    BY <1>0, <2>1, RowsType DEF RowStates
  <2>3. /\ HandlerTypeOK' /\ SwapHasText'
        /\ since' \in [Requests -> SUBSET Texts] /\ carried' \in [Requests -> SUBSET Texts]
        /\ held' \in [Requests -> SUBSET (Users \X Records)]
    <3>1. CASE GoTo(h, "get") /\ UNCHANGED <<text, plan>> /\ OpenWindow(h)
      BY <1>0, <3>1, GoToType DEF OpenWindow, HandlerTypeOK, TypeInv, TypeOK, SwapHasText,
         PolicyTypeOK, GraphTypeOK, Steps
    <3>2. CASE Return(h) /\ UNCHANGED historyVars
      BY <1>0, <3>2, ReturnType DEF historyVars, TypeInv, TypeOK, SwapHasText
    <3> QED BY <2>1, <3>1, <3>2
  <2> QED
    BY <1>2, <2>2, <2>3 DEF Decide, TypeInv, TypeOK, HandlerTypeOK, PolicyTypeOK, GraphTypeOK,
       AuditTypeOK, policyVars, processVars
<1>3. CASE Get(h)
  <2>1. HandlerTypeOK' /\ SwapHasText'
    <3>1. CASE GoTo(h, "read") /\ UNCHANGED <<text, plan>>
      BY <1>0, <3>1, GoToType DEF HandlerTypeOK, SwapHasText, TypeInv, Steps
    <3>2. CASE Conclude(h, "denied") /\ UNCHANGED text
      BY <1>0, <3>2, ConcludeType DEF HandlerTypeOK, SwapHasText, TypeInv, Plans
    <3>3. CASE Return(h)
      BY <1>0, <3>3, ReturnType DEF SwapHasText, TypeInv
    <3> QED BY <1>3, <3>1, <3>2, <3>3 DEF Get
  <2> QED
    BY <1>3, <2>1 DEF Get, TypeInv, TypeOK, HandlerTypeOK, PolicyTypeOK, GraphTypeOK, StoreTypeOK,
       AuditTypeOK, policyVars, processVars, historyVars
<1>4. CASE ReadFile(h)
  <2>1. HandlerTypeOK' /\ SwapHasText'
    <3>1. CASE text' = [text EXCEPT ![h] = file] /\ GoTo(h, "swap") /\ UNCHANGED plan
      BY <1>0, <3>1, GoToType DEF HandlerTypeOK, SwapHasText, TypeInv, PolicyTypeOK, Steps
    <3>2. CASE Conclude(h, "void") /\ UNCHANGED text
      BY <1>0, <3>2, ConcludeType DEF HandlerTypeOK, SwapHasText, TypeInv, Plans
    <3> QED BY <1>4, <3>1, <3>2 DEF ReadFile
  <2> QED
    BY <1>4, <2>1 DEF ReadFile, TypeInv, TypeOK, HandlerTypeOK, PolicyTypeOK, GraphTypeOK,
       StoreTypeOK, AuditTypeOK, policyVars, processVars, historyVars
<1>5. CASE Swap(h)
  <2>1. HandlerTypeOK' /\ SwapHasText'
    BY <1>0, <1>5, GoToType DEF Swap, HandlerTypeOK, SwapHasText, TypeInv, Steps
  <2>2. PolicyTypeOK'
    BY <1>0, <1>5 DEF Swap, SwapPolicies, PolicyTypeOK, SwapHasText, TypeInv
  <2> QED
    BY <1>5, <2>1, <2>2 DEF Swap, TypeInv, TypeOK, HandlerTypeOK, GraphTypeOK, StoreTypeOK,
       AuditTypeOK, processVars, historyVars
<1>6. CASE Snapshot(h)
  <2>1. HandlerTypeOK' /\ SwapHasText'
    <3>1. text' \in [Requests -> Texts \union {NoText}] /\ \A g \in Requests \ {h} : text'[g] = text[g]
      BY <1>0, <1>6 DEF Snapshot, HandlerTypeOK, PolicyTypeOK
    <3>2. CASE Conclude(h, "void")
      BY <1>0, <3>1, <3>2, ConcludeType DEF HandlerTypeOK, SwapHasText, TypeInv, Plans
    <3>3. CASE \E s \in {"owner", "call"} : GoTo(h, s) /\ UNCHANGED plan
      BY <1>0, <3>1, <3>3, GoToType DEF HandlerTypeOK, SwapHasText, TypeInv, Steps
    <3> QED BY <1>6, <3>2, <3>3 DEF Snapshot, FollowDecision
  <2> QED
    BY <1>6, <2>1 DEF Snapshot, TypeInv, TypeOK, HandlerTypeOK, PolicyTypeOK, GraphTypeOK,
       StoreTypeOK, AuditTypeOK, policyVars, processVars, historyVars
<1>7. CASE AskOwner(h)
  <2>1. HandlerTypeOK' /\ SwapHasText'
    <3>1. CASE Conclude(h, "void") /\ UNCHANGED text
      BY <1>0, <3>1, ConcludeType DEF HandlerTypeOK, SwapHasText, TypeInv, Plans
    <3>2. CASE GoTo(h, "call") /\ UNCHANGED <<text, plan>>
      BY <1>0, <3>2, GoToType DEF HandlerTypeOK, SwapHasText, TypeInv, Steps
    <3> QED BY <1>7, <3>1, <3>2 DEF AskOwner, FollowDecision
  <2> QED
    BY <1>7, <2>1 DEF AskOwner, TypeInv, TypeOK, HandlerTypeOK, PolicyTypeOK, GraphTypeOK,
       StoreTypeOK, AuditTypeOK, policyVars, processVars, historyVars
<1>8. CASE CallTool(h) \/ ToolAnswered(h) \/ ToolLost(h)
  <2>1. HandlerTypeOK' /\ SwapHasText'
    <3>1. CASE GoTo(h, "await") /\ UNCHANGED <<text, plan>>
      BY <1>0, <3>1, GoToType DEF HandlerTypeOK, SwapHasText, TypeInv, Steps
    <3>2. CASE \E p \in {"executed", "error"} : Conclude(h, p) /\ UNCHANGED text
      BY <1>0, <3>2, ConcludeType DEF HandlerTypeOK, SwapHasText, TypeInv, Plans
    <3> QED BY <1>8, <3>1, <3>2 DEF CallTool, ToolAnswered, ToolLost
  <2> QED
    BY <1>8, <2>1 DEF CallTool, ToolAnswered, ToolLost, TypeInv, TypeOK, HandlerTypeOK,
       PolicyTypeOK, GraphTypeOK, StoreTypeOK, AuditTypeOK, policyVars, processVars, historyVars,
       ToolStates
<1>9. CASE SaveResult(h)
  <2>1. HandlerTypeOK' /\ SwapHasText'
    BY <1>0, <1>9, GoToType DEF SaveResult, HandlerTypeOK, SwapHasText, TypeInv, Steps
  <2>2. StoreTypeOK'
    BY <1>0, <1>9, RowsType, FinalType DEF SaveResult, RowStates
  <2> QED
    BY <1>9, <2>1, <2>2 DEF SaveResult, TypeInv, TypeOK, HandlerTypeOK, PolicyTypeOK, GraphTypeOK,
       AuditTypeOK, policyVars, processVars, historyVars
<1>10. CASE WriteAudit(h)
  <2>1. HandlerTypeOK' /\ SwapHasText'
    BY <1>0, <1>10, ReturnType DEF WriteAudit, SwapHasText, TypeInv
  <2>2. AuditTypeOK'
    <3>1. text[h] \in Texts \union {NoText} /\ FinalDecision(plan[h]) \in OutcomeDecisions
      BY <1>0, FinalType DEF HandlerTypeOK
    <3> QED BY <1>0, <1>10, <3>1, AuditType DEF WriteAudit
  <2> QED
    BY <1>10, <2>1, <2>2 DEF WriteAudit, TypeInv, TypeOK, HandlerTypeOK, PolicyTypeOK, GraphTypeOK,
       StoreTypeOK, policyVars, processVars, historyVars
<1>11. CASE ToolServe(h) \/ Disconnect(h)
  BY <1>0, <1>11 DEF ToolServe, Disconnect, TypeInv, TypeOK, SwapHasText, PolicyTypeOK,
     GraphTypeOK, StoreTypeOK, AuditTypeOK, policyVars, processVars, historyVars, handlerVars,
     ToolStates, Contexts
<1> QED BY <1>1, <1>2, <1>3, <1>4, <1>5, <1>6, <1>7, <1>8, <1>9, <1>10, <1>11 DEF Step

LEMMA WatchGraphType ==
  ASSUME held \in [Requests -> SUBSET (Users \X Records)], GraphTypeOK', WatchGraph
  PROVE  held' \in [Requests -> SUBSET (Users \X Records)]
  BY DEF GraphTypeOK, WatchGraph

\* And so does each step of everyone else.
LEMMA TypeStepEnvironment ==
  ASSUME TypeInv, Environment
  PROVE  TypeInv'
<1>1. CASE EditFile
  BY <1>1 DEF EditFile, SaveFile, SwapHasText, TypeInv, TypeOK, PolicyTypeOK, GraphTypeOK,
     StoreTypeOK, AuditTypeOK, processVars, handlerVars
<1>2. CASE Administer
  <2>1. GraphTypeOK'
    BY <1>2 DEF Administer, AdministerGraph, Grant, Revoke, TypeInv, TypeOK, GraphTypeOK
  <2>2. held' \in [Requests -> SUBSET (Users \X Records)]
    BY <1>2, <2>1, WatchGraphType DEF Administer, TypeInv, TypeOK
  <2> QED
    BY <1>2, <2>1, <2>2 DEF Administer, SwapHasText, TypeInv, TypeOK, PolicyTypeOK, StoreTypeOK,
       AuditTypeOK, policyVars, processVars, handlerVars
<1>3. CASE ParkCall
  <2>1. PICK tx \in TxIds, call \in Attempts : Park(tx, call, "ok")
    BY <1>3 DEF ParkCall
  <2>2. StoreTypeOK'
    BY <2>1, RowsType DEF TypeInv, TypeOK, Results
  <2> QED
    BY <1>3, <2>2 DEF ParkCall, SwapHasText, TypeInv, TypeOK, PolicyTypeOK, GraphTypeOK,
       AuditTypeOK, policyVars, processVars, handlerVars, historyVars
<1>4. CASE Crash
  <2>1. up' \in BOOLEAN /\ crashes' \in 0..MaxCrashes
    <3>1. crashes \in 0..MaxCrashes /\ crashes < MaxCrashes /\ crashes' = crashes + 1
      BY <1>4 DEF Crash, TypeInv, TypeOK
    <3>2. up' = FALSE
      BY <1>4 DEF Crash
    <3>3. crashes' \in 0..MaxCrashes
      BY <3>1, ExecutorAssumption
    <3> QED BY <3>2, <3>3
  <2>2. HandlerTypeOK' /\ SwapHasText'
    BY <1>4 DEF Crash, Active, SwapHasText, HandlerTypeOK, TypeInv, TypeOK, Steps, Contexts, Plans
  <2> QED
    BY <1>4, <2>1, <2>2 DEF Crash, HandlerTypeOK, TypeInv, TypeOK, PolicyTypeOK, GraphTypeOK,
       StoreTypeOK, AuditTypeOK, policyVars, historyVars
<1>5. CASE Restart
  <2>1. GraphTypeOK'
    BY <1>5, GraphAssumption DEF Restart, SeedGraph, TypeInv, TypeOK, GraphTypeOK
  <2>2. held' \in [Requests -> SUBSET (Users \X Records)]
    BY <1>5, <2>1, WatchGraphType DEF Restart, TypeInv, TypeOK
  <2> QED
    BY <1>5, <2>1, <2>2 DEF Restart, SwapPolicies, SwapHasText, TypeInv, TypeOK, PolicyTypeOK,
       StoreTypeOK, AuditTypeOK, handlerVars
<1> QED BY <1>1, <1>2, <1>3, <1>4, <1>5 DEF Environment

LEMMA TypeStep == TypeInv /\ [Next]_vars => TypeInv'
<1> SUFFICES ASSUME TypeInv, [Next]_vars PROVE TypeInv'
  OBVIOUS
<1>1. CASE Next
  BY <1>1, TypeStepRequest, TypeStepEnvironment DEF Next
<1>2. CASE UNCHANGED vars
  BY <1>2 DEF vars, TypeInv, TypeOK, SwapHasText, PolicyTypeOK, GraphTypeOK, StoreTypeOK,
     AuditTypeOK, policyVars, processVars, handlerVars, historyVars
<1> QED BY <1>1, <1>2

\* Every variable keeps its type; in particular no request ever swaps in a text
\* that did not parse (Reload, executor.go:54 and engine.go:82-89).
THEOREM TypeCorrect == Spec => []TypeOK
<1>1. TypeInv => TypeOK
  BY DEF TypeInv
<1> QED BY <1>1, TypeInit, TypeStep, PTL DEF Spec

-----------------------------------------------------------------------------
(* The books: rows, requests, tool and log.                                 *)

LEMMA BookkeepingInit == Init => Bookkeeping
  BY StoreAssumption
  DEF Init, StoreInit, AuditInit, Bookkeeping, RowNamesItsRequest, RequestTookItsRow,
      ToolFollowsSteps, PlanIsTrue, LogIsTrue, AfterTaking, Approving

\* A step of a request that writes neither table and sends nothing keeps the
\* books as long as it goes forward and its plan is true.
LEMMA QuietStep ==
  ASSUME TypeInv, Bookkeeping, NEW h \in Requests,
         UNCHANGED <<rows, audit, tool, job>>,
         \A g \in Requests \ {h} : pc'[g] = pc[g] /\ plan'[g] = plan[g],
         pc[h] \notin {"done", "dead"},
         pc[h] = "audit" => pc'[h] \in {"audit", "done", "dead"},
         pc[h] \notin {"idle", "decide"} => pc'[h] \notin {"idle", "decide"},
         pc'[h] \in AfterTaking => pc[h] \in AfterTaking,
         pc'[h] \in BeforeTool => pc[h] \in BeforeTool,
         pc'[h] = "await" => pc[h] = "await",
         pc'[h] \in Approving => job[h].button = "approve",
         pc'[h] \in {"result", "audit"} =>
           /\ plan'[h] # "none"
           /\ plan'[h] = "denied" <=> job[h].button = "deny"
           /\ plan'[h] = "executed" => tool[h] = "ran"
           /\ plan'[h] = "void" => tool[h] = "none"
  PROVE  Bookkeeping'
<1> USE DEF Bookkeeping, Tx
<1>0. rows \in [TxIds -> Rows] /\ audit \subseteq AuditRows /\ job \in [Requests -> Jobs]
  BY DEF TypeInv, TypeOK, StoreTypeOK, AuditTypeOK
<1>1. RowNamesItsRequest'
  BY <1>0, StoreAssumption DEF RowNamesItsRequest, Rows
<1>2. RequestTookItsRow'
  BY DEF RequestTookItsRow
<1>3. ToolFollowsSteps'
  BY DEF ToolFollowsSteps
<1>4. PlanIsTrue'
  BY DEF PlanIsTrue
<1>5. LogIsTrue'
  BY DEF LogIsTrue
<1> QED BY <1>1, <1>2, <1>3, <1>4, <1>5

LEMMA BookkeepingStepRequest ==
  ASSUME TypeInv, Bookkeeping, NEW h \in Requests,
         Receive(h) \/ Step(h) \/ ToolServe(h) \/ Disconnect(h)
  PROVE  Bookkeeping'
<1> USE DEF BeforeTool, AfterTaking, Approving
<1>0. /\ HandlerTypeOK
      /\ job \in [Requests -> Jobs] /\ tool \in [Requests -> ToolStates]
      /\ rows \in [TxIds -> Rows] /\ audit \subseteq AuditRows
      /\ ToolFollowsSteps /\ PlanIsTrue
  BY DEF TypeInv, TypeOK, HandlerTypeOK, StoreTypeOK, AuditTypeOK, Bookkeeping
<1>1. CASE Receive(h)
  BY <1>0, <1>1, QuietStep DEF Receive, GoTo, Conclude, Return, FollowDecision, HandlerTypeOK,
     ToolFollowsSteps, PlanIsTrue, Jobs
<1>2. CASE Get(h)
  BY <1>0, <1>2, QuietStep DEF Get, GoTo, Conclude, Return, FollowDecision, HandlerTypeOK,
     ToolFollowsSteps, PlanIsTrue, Jobs
<1>3. CASE ReadFile(h)
  BY <1>0, <1>3, QuietStep DEF ReadFile, GoTo, Conclude, Return, FollowDecision, HandlerTypeOK,
     ToolFollowsSteps, PlanIsTrue, Jobs
<1>4. CASE Swap(h)
  BY <1>0, <1>4, QuietStep DEF Swap, GoTo, Conclude, Return, FollowDecision, HandlerTypeOK,
     ToolFollowsSteps, PlanIsTrue, Jobs
<1>5. CASE Snapshot(h)
  BY <1>0, <1>5, QuietStep DEF Snapshot, GoTo, Conclude, Return, FollowDecision, HandlerTypeOK,
     ToolFollowsSteps, PlanIsTrue, Jobs
<1>6. CASE AskOwner(h)
  BY <1>0, <1>6, QuietStep DEF AskOwner, GoTo, Conclude, Return, FollowDecision, HandlerTypeOK,
     ToolFollowsSteps, PlanIsTrue, Jobs
<1>7. CASE ToolAnswered(h)
  BY <1>0, <1>7, QuietStep DEF ToolAnswered, GoTo, Conclude, Return, FollowDecision, HandlerTypeOK,
     ToolFollowsSteps, PlanIsTrue, Jobs
<1>8. CASE ToolLost(h)
  BY <1>0, <1>8, QuietStep DEF ToolLost, GoTo, Conclude, Return, FollowDecision, HandlerTypeOK,
     ToolFollowsSteps, PlanIsTrue, Jobs
<1>9. CASE Disconnect(h)
  BY <1>0, <1>9, QuietStep DEF Disconnect, GoTo, Conclude, Return, FollowDecision, HandlerTypeOK,
     ToolFollowsSteps, PlanIsTrue, Jobs, Active
<1>10. CASE Decide(h)
  <2>0. PICK out \in Outcomes(ctx[h]) :
          /\ StoreDecide(Tx(h), IF job[h].button = "approve" THEN "approved" ELSE "denied", h, out)
          /\ \/ DecideWins(Tx(h), out) /\ pc' = [pc EXCEPT ![h] = "get"] /\ plan' = plan
             \/ ~DecideWins(Tx(h), out) /\ Return(h)
    BY <1>10 DEF Decide, GoTo
  <2>1. CASE rows' = rows
    <3>1. ~DecideWins(Tx(h), out)
      BY <1>0, <2>0, <2>1 DEF DecideWins, StoreDecide, Rows, Jobs, Tx
    <3> QED
      BY <1>0, <1>10, <2>0, <2>1, <3>1, QuietStep DEF Decide, Return, HandlerTypeOK
  <2>2. CASE rows' # rows
    <3>0. /\ UNCHANGED <<audit, tool, job>> /\ pc[h] = "decide" /\ Tx(h) \in TxIds
          /\ job[h].button \in {"approve", "deny"}
          /\ \A g \in Requests \ {h} : pc'[g] = pc[g] /\ plan'[g] = plan[g]
          /\ pc'[h] \in {"get", "done"}
      BY <1>0, <1>10, <2>0 DEF Decide, Return, HandlerTypeOK, Tx, Jobs
    <3>1. /\ rows[Tx(h)].state = "pending"
          /\ rows'[Tx(h)].state = IF job[h].button = "approve" THEN "approved" ELSE "denied"
          /\ rows'[Tx(h)].by = h /\ rows'[Tx(h)].result = rows[Tx(h)].result
          /\ \A t \in TxIds \ {Tx(h)} : rows'[t] = rows[t]
      BY <1>0, <2>0, <2>2, <3>0 DEF StoreDecide, Rows
    <3>2. rows[Tx(h)].by = Nobody /\ rows[Tx(h)].result = "null" /\ tool[h] = "none"
      BY <1>0, <3>0, <3>1 DEF Bookkeeping, RowNamesItsRequest, ToolFollowsSteps
    <3>3. RowNamesItsRequest'
      <4> SUFFICES ASSUME NEW t \in TxIds
                   PROVE  RowNamesItsRequest!(t)'
        BY DEF RowNamesItsRequest
      <4>1. CASE t = Tx(h)
        BY <3>0, <3>1, <3>2, <4>1, StoreAssumption DEF Tx
      <4>2. CASE t # Tx(h)
        BY <1>0, <3>0, <3>1, <4>2, StoreAssumption DEF Bookkeeping, RowNamesItsRequest, Rows, Tx
      <4> QED BY <4>1, <4>2
    <3>4. RequestTookItsRow'
      BY <1>0, <3>0, <3>1, <3>2, StoreAssumption DEF Bookkeeping, RequestTookItsRow, Tx, Jobs
    <3>5. ToolFollowsSteps'
      BY <3>0, <3>2 DEF Bookkeeping, ToolFollowsSteps
    <3>6. PlanIsTrue'
      BY <1>0, <3>0 DEF PlanIsTrue
    <3>7. LogIsTrue'
      BY <1>0, <3>0, <3>1, <3>2, StoreAssumption DEF Bookkeeping, LogIsTrue, Tx, AuditRows
    <3> QED BY <3>3, <3>4, <3>5, <3>6, <3>7 DEF Bookkeeping
  <2> QED BY <2>1, <2>2
<1>11. CASE CallTool(h)
  <2>1. CASE Conclude(h, "error") /\ tool' = tool
    BY <1>0, <1>11, <2>1, QuietStep DEF CallTool, GoTo, Conclude, HandlerTypeOK, ToolFollowsSteps
  <2>2. CASE tool' = [tool EXCEPT ![h] = "sent"] /\ GoTo(h, "await") /\ plan' = plan
    <3>0. /\ UNCHANGED <<rows, audit, job, plan>> /\ pc[h] = "call" /\ tool[h] = "none"
          /\ \A g \in Requests \ {h} : pc'[g] = pc[g] /\ tool'[g] = tool[g]
          /\ pc'[h] = "await" /\ tool'[h] = "sent"
      BY <1>0, <1>11, <2>2 DEF CallTool, GoTo, HandlerTypeOK, ToolFollowsSteps
    <3>1. RowNamesItsRequest'
      <4> SUFFICES ASSUME NEW t \in TxIds PROVE RowNamesItsRequest!(t)'
        BY DEF RowNamesItsRequest
      <4>1. RowNamesItsRequest!(t)
        BY DEF Bookkeeping, RowNamesItsRequest
      <4>2. rows[t].by # Nobody => rows[t].by \in Requests
        BY <1>0 DEF Rows
      <4> QED BY <3>0, <4>1, <4>2 DEF Tx
    <3>2. RequestTookItsRow'
      BY <3>0 DEF Bookkeeping, RequestTookItsRow, Tx
    <3>3. ToolFollowsSteps'
      BY <1>0, <3>0 DEF ToolFollowsSteps
    <3>4. PlanIsTrue'
      BY <1>0, <3>0 DEF PlanIsTrue
    <3>5. LogIsTrue'
      BY <3>0 DEF Bookkeeping, LogIsTrue, Tx
    <3> QED BY <3>1, <3>2, <3>3, <3>4, <3>5 DEF Bookkeeping
  <2> QED BY <1>11, <2>1, <2>2 DEF CallTool
<1>12. CASE SaveResult(h)
  <2>0. /\ UNCHANGED <<audit, job, tool, plan>> /\ pc[h] = "result" /\ pc'[h] = "audit"
        /\ \A g \in Requests \ {h} : pc'[g] = pc[g]
        /\ Tx(h) \in TxIds /\ job[h].button \in {"approve", "deny"} /\ plan[h] \in Plans
    BY <1>0, <1>12 DEF SaveResult, GoTo, HandlerTypeOK, Tx, Jobs
  <2>1. /\ \A t \in TxIds \ {Tx(h)} : rows'[t] = rows[t]
        /\ rows'[Tx(h)].by = rows[Tx(h)].by
        /\ \/ rows'[Tx(h)] = rows[Tx(h)]
           \/ /\ rows'[Tx(h)].state = FinalState(plan[h])
              /\ rows'[Tx(h)].result = FinalResult(plan[h])
    BY <1>0, <1>12, <2>0 DEF SaveResult, SetResult, Rows
  <2>2. rows[Tx(h)].by = h
    BY <2>0 DEF Bookkeeping, RequestTookItsRow
  <2>3. /\ FinalState(plan[h]) \notin {"absent", "pending"}
        /\ FinalState(plan[h]) = "denied" <=> job[h].button = "deny"
        /\ FinalState(plan[h]) = "executed" => tool[h] = "ran"
        /\ FinalResult(plan[h]) = "void" => tool[h] = "none"
        /\ FinalResult(plan[h]) # "null"
    BY <1>0, <2>0 DEF PlanIsTrue, FinalState, FinalResult, Plans
  <2>4. RowNamesItsRequest'
    <3> SUFFICES ASSUME NEW t \in TxIds PROVE RowNamesItsRequest!(t)'
      BY DEF RowNamesItsRequest
    <3>1. RowNamesItsRequest!(t)
      BY DEF Bookkeeping, RowNamesItsRequest
    <3>2. CASE t = Tx(h)
      BY <2>0, <2>1, <2>2, <2>3, <3>1, <3>2, StoreAssumption DEF Tx
    <3>3. CASE t # Tx(h)
      <4>1. rows[t].by # Nobody => rows[t].by \in Requests \ {h}
        BY <1>0, <3>1, <3>3 DEF Rows
      <4> QED BY <2>0, <2>1, <3>1, <3>3, <4>1 DEF Tx
    <3> QED BY <3>2, <3>3
  <2>5. RequestTookItsRow'
    BY <1>0, <2>0, <2>1 DEF Bookkeeping, RequestTookItsRow, Tx, Jobs
  <2>6. ToolFollowsSteps'
    BY <1>0, <2>0 DEF ToolFollowsSteps
  <2>7. PlanIsTrue'
    BY <1>0, <2>0 DEF PlanIsTrue
  <2>8. LogIsTrue'
    BY <1>0, <2>0, <2>1 DEF Bookkeeping, LogIsTrue, Tx, AuditRows
  <2> QED BY <2>4, <2>5, <2>6, <2>7, <2>8 DEF Bookkeeping
<1>13. CASE WriteAudit(h)
  <2>0. /\ UNCHANGED <<rows, job, tool>> /\ pc[h] = "audit" /\ pc'[h] = "done"
        /\ \A g \in Requests \ {h} : pc'[g] = pc[g] /\ plan'[g] = plan[g]
        /\ rows[Tx(h)].by = h
    BY <1>0, <1>13 DEF WriteAudit, Return, HandlerTypeOK, Bookkeeping, RequestTookItsRow
  <2>1. /\ RowNamesItsRequest' /\ RequestTookItsRow' /\ ToolFollowsSteps' /\ PlanIsTrue'
    <3>1. RowNamesItsRequest'
      BY <1>0, <2>0 DEF Bookkeeping, RowNamesItsRequest, Rows, Tx
    <3>2. RequestTookItsRow' /\ ToolFollowsSteps' /\ PlanIsTrue'
      BY <1>0, <2>0 DEF Bookkeeping, RequestTookItsRow, ToolFollowsSteps, PlanIsTrue, Tx
    <3> QED BY <3>1, <3>2
  <2>2. LogIsTrue'
    <3>1. \A r \in audit' \ audit :
            r.id = h /\ r.about = Tx(h) /\ r.decision = FinalDecision(plan[h])
      BY <1>13 DEF WriteAudit, Record
    <3>2. /\ FinalDecision(plan[h]) = "executed_after_approval" => tool[h] = "ran"
          /\ FinalDecision(plan[h]) \in {"deny", "denied_by_human"} => tool[h] = "none"
      BY <1>0, <2>0 DEF PlanIsTrue, ToolFollowsSteps, FinalDecision, Jobs, HandlerTypeOK, Plans
    <3> QED BY <2>0, <3>1, <3>2 DEF Bookkeeping, LogIsTrue, Tx
  <2> QED BY <2>1, <2>2 DEF Bookkeeping
<1>14. CASE ToolServe(h)
  <2>0. /\ UNCHANGED <<rows, audit, job, pc, plan>>
        /\ tool[h] = "sent" /\ tool'[h] \in {"ran", "refused"}
        /\ \A g \in Requests \ {h} : tool'[g] = tool[g]
    BY <1>0, <1>14 DEF ToolServe, handlerVars
  <2>1. RowNamesItsRequest'
    BY <1>0, <2>0 DEF Bookkeeping, RowNamesItsRequest, Rows, Tx
  <2>2. RequestTookItsRow' /\ ToolFollowsSteps' /\ PlanIsTrue' /\ LogIsTrue'
    BY <1>0, <2>0 DEF Bookkeeping, RequestTookItsRow, ToolFollowsSteps, PlanIsTrue, LogIsTrue, Tx
  <2> QED BY <2>1, <2>2 DEF Bookkeeping
<1> QED
  BY <1>1, <1>2, <1>3, <1>4, <1>5, <1>6, <1>7, <1>8, <1>9, <1>10, <1>11, <1>12, <1>13, <1>14
  DEF Step

LEMMA BookkeepingStepEnvironment ==
  ASSUME TypeInv, Bookkeeping, Environment
  PROVE  Bookkeeping'
<1>0. rows \in [TxIds -> Rows] /\ pc \in [Requests -> Steps]
  BY DEF TypeInv, TypeOK, StoreTypeOK
<1>1. CASE EditFile \/ Administer \/ Restart
  <2>1. UNCHANGED <<rows, audit, job, pc, plan, tool>>
    BY <1>1 DEF EditFile, Administer, Restart, handlerVars
  <2> QED
    BY <2>1 DEF Bookkeeping, RowNamesItsRequest, RequestTookItsRow, ToolFollowsSteps, PlanIsTrue,
       LogIsTrue, Tx
<1>2. CASE ParkCall
  <2>1. PICK tx \in TxIds, call \in Attempts : Park(tx, call, "ok")
    BY <1>2 DEF ParkCall
  <2>2. /\ UNCHANGED <<audit, job, pc, plan, tool>>
        /\ rows[tx].state = "absent" /\ rows'[tx].state = "pending"
        /\ rows'[tx].by = rows[tx].by /\ rows'[tx].result = rows[tx].result
        /\ \A t \in TxIds \ {tx} : rows'[t] = rows[t]
    <3>1. UNCHANGED <<audit, job, pc, plan, tool>>
      BY <1>2 DEF ParkCall, handlerVars
    <3>2. rows' = [rows EXCEPT ![tx].state = "pending", ![tx].call = call]
      BY <2>1 DEF Park
    <3> QED BY <1>0, <2>1, <3>1, <3>2 DEF Park, Rows
  <2>3. RowNamesItsRequest'
    <3> SUFFICES ASSUME NEW t \in TxIds PROVE RowNamesItsRequest!(t)'
      BY DEF RowNamesItsRequest
    <3>1. RowNamesItsRequest!(t)
      BY DEF Bookkeeping, RowNamesItsRequest
    <3> QED BY <2>2, <3>1 DEF Tx
  <2>4. job \in [Requests -> Jobs] /\ audit \subseteq AuditRows
    BY DEF TypeInv, TypeOK, AuditTypeOK
  <2>5. RequestTookItsRow' /\ ToolFollowsSteps' /\ PlanIsTrue' /\ LogIsTrue'
    BY <2>2, <2>4 DEF Bookkeeping, RequestTookItsRow, ToolFollowsSteps, PlanIsTrue, LogIsTrue, Tx,
       Jobs, AuditRows
  <2> QED BY <2>3, <2>5 DEF Bookkeeping
<1>3. CASE Crash
  <2>1. /\ UNCHANGED <<rows, audit, job, tool>>
        /\ \A h \in Requests : pc'[h] = IF Active(h) THEN "dead" ELSE pc[h]
    BY <1>3 DEF Crash
  <2>2. RowNamesItsRequest'
    BY <1>0, <2>1 DEF Bookkeeping, RowNamesItsRequest, Rows, Tx, Active
  <2>3. RequestTookItsRow' /\ ToolFollowsSteps' /\ PlanIsTrue' /\ LogIsTrue'
    BY <2>1 DEF Bookkeeping, RequestTookItsRow, ToolFollowsSteps, PlanIsTrue, LogIsTrue, Tx, Active,
       BeforeTool, AfterTaking, Approving
  <2> QED BY <2>2, <2>3 DEF Bookkeeping
<1> QED BY <1>1, <1>2, <1>3 DEF Environment

LEMMA BookkeepingStep == TypeInv /\ Bookkeeping /\ [Next]_vars => Bookkeeping'
<1> SUFFICES ASSUME TypeInv, Bookkeeping, [Next]_vars PROVE Bookkeeping'
  OBVIOUS
<1>1. CASE Next
  BY <1>1, BookkeepingStepRequest, BookkeepingStepEnvironment DEF Next
<1>2. CASE UNCHANGED vars
  BY <1>2 DEF vars, handlerVars, Bookkeeping, RowNamesItsRequest, RequestTookItsRow,
     ToolFollowsSteps, PlanIsTrue, LogIsTrue, Tx
<1> QED BY <1>1, <1>2

-----------------------------------------------------------------------------
(* The window of an approval: the texts and edges its re-check may go by.    *)

Window == WindowIsClosed /\ RecheckWithinWindow

LEMMA WindowInit == Init => Window
  BY DEF Init, Window, WindowIsClosed, RecheckWithinWindow, Rechecking

\* A step of request h that leaves file, engine, graph and history alone keeps
\* the window, if what h is about to swap in, or goes by, belongs to it.
LEMMA QuietWindow ==
  ASSUME Window, NEW h \in Requests,
         UNCHANGED <<file, loaded, edges, since, carried, held, job>>,
         \A g \in Requests : rows'[Tx(g)].call = rows[Tx(g)].call,
         \A g \in Requests \ {h} : pc'[g] = pc[g] /\ text'[g] = text[g],
         Rechecking(h)' => Rechecking(h),
         pc'[h] = "swap" => text'[h] = file \/ (pc[h] = "swap" /\ text'[h] = text[h]),
         pc'[h] = "snapshot" => pc[h] = "snapshot",
         pc'[h] \in {"owner", "call", "await"} =>
           /\ text'[h] \in since[h] \union carried[h]
           /\ CedarAllows(text'[h], Call(h)),
         pc'[h] \in {"call", "await"} => OwnedMeanwhile(h)
  PROVE  Window'
<1>0. \A g \in Requests : Call(g)' = Call(g)
  BY DEF Call, Tx
<1>1. WindowIsClosed'
  BY DEF Window, WindowIsClosed, Rechecking
<1>2. RecheckWithinWindow'
  <2>1. ASSUME NEW g \in Requests, pc'[g] \in {"owner", "call", "await"}
        PROVE  /\ text'[g] \in since[g] \union carried[g]
               /\ CedarAllows(text'[g], Call(g))
    BY <2>1 DEF Window, RecheckWithinWindow
  <2>2. ASSUME NEW g \in Requests, pc'[g] \in {"call", "await"}
        PROVE  OwnedMeanwhile(g)
    BY <2>2 DEF Window, RecheckWithinWindow
  <2>3. \A g \in Requests : OwnedMeanwhile(g) => OwnedMeanwhile(g)'
    BY <1>0 DEF OwnedMeanwhile, OwnershipGated
  <2> QED BY <1>0, <2>1, <2>2, <2>3 DEF RecheckWithinWindow, CedarAllows
<1> QED BY <1>1, <1>2 DEF Window

\* What the engine does not deny, Cedar allowed, and if it is gated, the graph did.
LEMMA NotDenied ==
  ASSUME NEW t, NEW call, NEW answer, EngineDecide(t, call, answer) # "deny"
  PROVE  CedarAllows(t, call) /\ (OwnershipGated(call) => answer = "owner")
  BY DEF EngineDecide, Refused

LEMMA WindowStepRequest ==
  ASSUME TypeInv, Window, NEW h \in Requests,
         Receive(h) \/ Step(h) \/ ToolServe(h) \/ Disconnect(h)
  PROVE  Window'
<1> USE DEF HandlerTypeOK, Rechecking
<1>0. /\ HandlerTypeOK /\ rows \in [TxIds -> Rows] /\ Tx(h) \in TxIds
      /\ \A g \in Requests : Tx(g) \in TxIds
      /\ since \in [Requests -> SUBSET Texts] /\ carried \in [Requests -> SUBSET Texts]
      /\ held \in [Requests -> SUBSET (Users \X Records)]
  BY DEF TypeInv, TypeOK, HandlerTypeOK, StoreTypeOK, Tx, Jobs
<1>1. CASE Receive(h) \/ Get(h) \/ ReadFile(h) \/ ToolAnswered(h) \/ ToolLost(h)
  BY <1>0, <1>1, QuietWindow DEF Receive, Get, ReadFile, ToolAnswered, ToolLost, GoTo, Conclude,
     Return, policyVars, historyVars
<1>2. CASE ToolServe(h) \/ Disconnect(h) \/ CallTool(h)
  BY <1>0, <1>2, QuietWindow DEF ToolServe, Disconnect, CallTool, GoTo, Conclude, Window,
     RecheckWithinWindow, policyVars, handlerVars, historyVars
<1>3. CASE SaveResult(h) \/ WriteAudit(h)
  <2>1. \A g \in Requests : rows'[Tx(g)].call = rows[Tx(g)].call
    BY <1>0, <1>3 DEF SaveResult, WriteAudit, SetResult, Rows
  <2> QED
    BY <1>0, <1>3, <2>1, QuietWindow DEF SaveResult, WriteAudit, GoTo, Return, policyVars,
       historyVars
<1>4. CASE Snapshot(h)
  <2>1. pc'[h] \in {"owner", "call"} => CedarAllows(loaded, Call(h))
    BY <1>0, <1>4, NotDenied DEF Snapshot, FollowDecision, AsksGraph, GoTo, Conclude
  <2>2. pc'[h] = "call" => OwnedMeanwhile(h)
    BY <1>0, <1>4, NotDenied DEF Snapshot, FollowDecision, GoTo, Conclude, OwnedMeanwhile
  <2>3. loaded \in since[h] \union carried[h]
    BY <1>4 DEF Snapshot, Window, WindowIsClosed
  <2> QED
    BY <1>0, <1>4, <2>1, <2>2, <2>3, QuietWindow DEF Snapshot, FollowDecision, GoTo, Conclude,
       policyVars, historyVars
<1>5. CASE AskOwner(h)
  <2>1. pc'[h] = "call" => OwnedMeanwhile(h)
    <3>1. PICK answer \in OwnerAnswers(Call(h), ctx[h]) :
            FollowDecision(h, EngineDecide(text[h], Call(h), answer))
      BY <1>5 DEF AskOwner
    <3>2. answer = "owner" => <<Call(h).user, Call(h).record>> \in edges
      BY <3>1 DEF OwnerAnswers
    <3>3. edges \subseteq held[h]
      BY <1>5 DEF AskOwner, Window, WindowIsClosed
    <3> QED
      BY <1>0, <3>1, <3>2, <3>3, NotDenied DEF FollowDecision, GoTo, Conclude, OwnedMeanwhile
  <2> QED
    BY <1>0, <1>5, <2>1, QuietWindow DEF AskOwner, FollowDecision, GoTo, Conclude, Window,
       RecheckWithinWindow, policyVars, historyVars
<1>6. CASE Swap(h)
  <2>1. /\ UNCHANGED <<file, edges, since, carried, held, job, rows, text>> /\ loaded' = text[h]
        /\ pc[h] = "swap" /\ pc'[h] = "snapshot" /\ \A g \in Requests \ {h} : pc'[g] = pc[g]
    BY <1>0, <1>6 DEF Swap, SwapPolicies, GoTo, historyVars
  <2>2. WindowIsClosed'
    BY <2>1 DEF Window, WindowIsClosed
  <2>3. RecheckWithinWindow'
    BY <2>1 DEF Window, RecheckWithinWindow, OwnedMeanwhile, OwnershipGated, CedarAllows, Call, Tx
  <2> QED BY <2>2, <2>3 DEF Window
<1>7. CASE Decide(h)
  <2>0. /\ UNCHANGED <<file, loaded, edges, job>> /\ pc[h] = "decide"
        /\ \A g \in Requests \ {h} : pc'[g] = pc[g] /\ text'[g] = text[g]
        /\ \A g \in Requests : rows'[Tx(g)].call = rows[Tx(g)].call
    BY <1>0, <1>7 DEF Decide, StoreDecide, GoTo, Return, policyVars, Rows
  <2>1. CASE GoTo(h, "get") /\ OpenWindow(h)
    <3>1. /\ pc'[h] = "get" /\ since'[h] = {file} /\ held'[h] = edges
          /\ \A g \in Requests \ {h} :
               since'[g] = since[g] /\ carried'[g] = carried[g] /\ held'[g] = held[g]
          /\ carried'[h] = {text[g] : g \in {r \in Requests : pc[r] = "swap"}}
      BY <1>0, <2>1 DEF GoTo, OpenWindow
    <3>2. WindowIsClosed'
      BY <2>0, <3>1 DEF Window, WindowIsClosed
    <3>3. RecheckWithinWindow'
      BY <2>0, <3>1
      DEF Window, RecheckWithinWindow, OwnedMeanwhile, OwnershipGated, CedarAllows, Call, Tx
    <3> QED BY <3>2, <3>3 DEF Window
  <2>2. CASE Return(h) /\ UNCHANGED historyVars
    BY <1>0, <2>0, <2>2, QuietWindow DEF Return, historyVars
  <2> QED BY <1>7, <2>1, <2>2 DEF Decide
<1> QED BY <1>1, <1>2, <1>3, <1>4, <1>5, <1>6, <1>7 DEF Step

\* Park does not touch the call of a row that a request took.
LEMMA ParkedLater ==
  ASSUME TypeInv, Bookkeeping, ParkCall, NEW g \in Requests,
         pc[g] \in AfterTaking \/ tool[g] # "none"
  PROVE  Call(g)' = Call(g)
<1>1. PICK tx \in TxIds, call \in Attempts : Park(tx, call, "ok")
  BY DEF ParkCall
<1>2. Tx(g) \in TxIds /\ rows \in [TxIds -> Rows]
  BY DEF TypeInv, TypeOK, StoreTypeOK, Tx, Jobs
<1>3. rows[Tx(g)].by = g
  BY DEF Bookkeeping, RequestTookItsRow
<1>4. rows[Tx(g)].state # "absent"
  BY <1>2, <1>3, StoreAssumption DEF Bookkeeping, RowNamesItsRequest
<1>5. rows'[Tx(g)].call = rows[Tx(g)].call
  BY <1>1, <1>2, <1>4 DEF Park, Rows
<1> QED BY <1>5 DEF ParkCall, Call, Tx

\* What was written to the graph belongs to every open window, and no window loses
\* an edge.
LEMMA GraphIsWatched ==
  ASSUME WatchGraph, NEW h \in Requests
  PROVE  /\ held[h] \subseteq held'[h]
         /\ Rechecking(h) => edges' \subseteq held'[h]
  BY DEF WatchGraph

LEMMA WindowStepEnvironment ==
  ASSUME TypeInv, Bookkeeping, Window, Environment
  PROVE  Window'
<1>1. CASE EditFile
  <2>1. PICK t \in Texts :
          /\ file' = t /\ UNCHANGED <<loaded, edges, job, rows, pc, text, carried, held>>
          /\ since' = [h \in Requests |->
                         IF Rechecking(h) THEN since[h] \union {t} ELSE since[h]]
    BY <1>1 DEF EditFile, SaveFile, handlerVars
  <2>2. WindowIsClosed'
    BY <2>1 DEF Window, WindowIsClosed, Rechecking
  <2>3. RecheckWithinWindow'
    BY <2>1 DEF Window, RecheckWithinWindow, OwnedMeanwhile, OwnershipGated, CedarAllows, Call, Tx,
       Rechecking
  <2> QED BY <2>2, <2>3 DEF Window
<1>2. CASE Administer \/ Restart
  <2>1. /\ UNCHANGED <<file, since, carried, job, rows, pc, text>> /\ WatchGraph
        /\ loaded' \in {loaded, file}
    BY <1>2 DEF Administer, Restart, SwapPolicies, policyVars, handlerVars
  <2>2. \A h \in Requests : /\ held[h] \subseteq held'[h]
                            /\ Rechecking(h) => edges' \subseteq held'[h]
    BY <2>1, GraphIsWatched
  <2>3. WindowIsClosed'
    BY <2>1, <2>2 DEF Window, WindowIsClosed, Rechecking
  <2>4. RecheckWithinWindow'
    BY <2>1, <2>2
    DEF Window, RecheckWithinWindow, OwnedMeanwhile, OwnershipGated, CedarAllows, Call, Tx
  <2> QED BY <2>3, <2>4 DEF Window
<1>3. CASE ParkCall
  <2>1. UNCHANGED <<file, loaded, edges, since, carried, held, job, pc, text>>
    BY <1>3 DEF ParkCall, policyVars, handlerVars, historyVars
  <2>2. \A g \in Requests : pc[g] \in {"owner", "call", "await"} => Call(g)' = Call(g)
    BY <1>3, ParkedLater DEF AfterTaking
  <2>3. WindowIsClosed'
    BY <2>1 DEF Window, WindowIsClosed, Rechecking
  <2>4. RecheckWithinWindow'
    BY <2>1, <2>2 DEF Window, RecheckWithinWindow, OwnedMeanwhile, OwnershipGated, CedarAllows
  <2> QED BY <2>3, <2>4 DEF Window
<1>4. CASE Crash
  BY <1>4 DEF Crash, Active, Window, WindowIsClosed, RecheckWithinWindow, Rechecking
<1> QED BY <1>1, <1>2, <1>3, <1>4 DEF Environment

LEMMA WindowStep == TypeInv /\ Bookkeeping /\ Window /\ [Next]_vars => Window'
<1> SUFFICES ASSUME TypeInv, Bookkeeping, Window, [Next]_vars PROVE Window'
  OBVIOUS
<1>1. CASE Next
  BY <1>1, WindowStepRequest, WindowStepEnvironment DEF Next
<1>2. CASE UNCHANGED vars
  BY <1>2 DEF vars, policyVars, handlerVars, historyVars, Window, WindowIsClosed,
     RecheckWithinWindow, OwnedMeanwhile, OwnershipGated, Rechecking, CedarAllows, Call, Tx
<1> QED BY <1>1, <1>2

-----------------------------------------------------------------------------
(* What was sent was re-checked.                                             *)

LEMMA SentInit == Init => SentWasRechecked
  BY DEF Init, SentWasRechecked

\* A window that only grows goes on telling why the call was let through.
LEMMA StaysRechecked ==
  ASSUME NEW g \in Requests, Rechecked(g), Call(g)' = Call(g),
         since[g] \subseteq since'[g], carried[g] \subseteq carried'[g],
         held[g] \subseteq held'[g]
  PROVE  Rechecked(g)'
  BY DEF Rechecked, OwnedMeanwhile, OwnershipGated, CedarAllows

LEMMA SentStepRequest ==
  ASSUME TypeInv, Bookkeeping, Window, SentWasRechecked, NEW h \in Requests,
         Receive(h) \/ Step(h) \/ ToolServe(h) \/ Disconnect(h)
  PROVE  SentWasRechecked'
<1>0. /\ rows \in [TxIds -> Rows] /\ \A g \in Requests : Tx(g) \in TxIds
      /\ tool \in [Requests -> ToolStates]
      /\ since \in [Requests -> SUBSET Texts] /\ carried \in [Requests -> SUBSET Texts]
      /\ held \in [Requests -> SUBSET (Users \X Records)]
  BY DEF TypeInv, TypeOK, StoreTypeOK, Tx, Jobs
<1>1. \A g \in Requests : Call(g)' = Call(g)
  <2>1. job' = job
    BY DEF Receive, Step, Decide, Get, ReadFile, Swap, Snapshot, AskOwner, CallTool, ToolAnswered,
       ToolLost, SaveResult, WriteAudit, ToolServe, Disconnect
  <2>2. CASE Decide(h) \/ SaveResult(h)
    <3>1. \A g \in Requests : rows'[Tx(g)].call = rows[Tx(g)].call
      <4>1. CASE Decide(h)
        BY <1>0, <4>1 DEF Decide, StoreDecide, Rows
      <4>2. CASE SaveResult(h)
        BY <1>0, <4>2 DEF SaveResult, SetResult, Rows
      <4> QED BY <2>2, <4>1, <4>2
    <3> QED BY <2>1, <3>1 DEF Call, Tx
  <2>3. CASE ~(Decide(h) \/ SaveResult(h))
    <3>1. rows' = rows
      BY <2>3 DEF Receive, Step, Get, ReadFile, Swap, Snapshot, AskOwner, CallTool, ToolAnswered,
         ToolLost, WriteAudit, ToolServe, Disconnect
    <3> QED BY <2>1, <3>1 DEF Call, Tx
  <2> QED BY <2>2, <2>3
<1>2. CASE Decide(h)
  <2>1. tool' = tool /\ tool[h] = "none"
    BY <1>2 DEF Decide, Bookkeeping, ToolFollowsSteps, BeforeTool
  <2>2. \A g \in Requests \ {h} :
          since'[g] = since[g] /\ carried'[g] = carried[g] /\ held'[g] = held[g]
    BY <1>0, <1>2 DEF Decide, OpenWindow, historyVars
  <2> QED BY <1>1, <2>1, <2>2, StaysRechecked DEF SentWasRechecked
<1>3. CASE ~Decide(h)
  <2>1. UNCHANGED <<since, carried, held>>
    BY <1>3 DEF Receive, Step, Get, ReadFile, Swap, Snapshot, AskOwner, CallTool, ToolAnswered,
       ToolLost, SaveResult, WriteAudit, ToolServe, Disconnect, historyVars
  <2>2. ASSUME NEW g \in Requests, tool'[g] # "none", tool[g] = "none"
        PROVE  g = h /\ pc[g] = "call"
    BY <1>0, <1>3, <2>2 DEF Receive, Step, Get, ReadFile, Swap, Snapshot, AskOwner, CallTool,
       ToolAnswered, ToolLost, SaveResult, WriteAudit, ToolServe, Disconnect
  <2>3. pc[h] = "call" => Rechecked(h)
    BY DEF Window, RecheckWithinWindow, Rechecked
  <2>4. \A g \in Requests : tool'[g] # "none" => Rechecked(g)
    BY <2>2, <2>3 DEF SentWasRechecked
  <2> QED BY <1>1, <2>1, <2>4, StaysRechecked DEF SentWasRechecked
<1> QED BY <1>2, <1>3

LEMMA SentStepEnvironment ==
  ASSUME TypeInv, Bookkeeping, SentWasRechecked, Environment
  PROVE  SentWasRechecked'
<1>0. since \in [Requests -> SUBSET Texts]
  BY DEF TypeInv, TypeOK
<1>1. tool' = tool
  BY DEF Environment, EditFile, Administer, ParkCall, Crash, Restart
<1>2. ASSUME NEW g \in Requests, tool[g] # "none" PROVE Call(g)' = Call(g)
  <2>1. CASE ParkCall
    BY <1>2, <2>1, ParkedLater
  <2>2. CASE ~ParkCall
    BY <2>2 DEF Environment, EditFile, Administer, Crash, Restart, Call, Tx
  <2> QED BY <2>1, <2>2
<1>3. ASSUME NEW g \in Requests
      PROVE  /\ since[g] \subseteq since'[g] /\ carried[g] \subseteq carried'[g]
             /\ held[g] \subseteq held'[g]
  <2>1. CASE EditFile
    BY <1>0, <2>1 DEF EditFile
  <2>2. CASE Administer \/ Restart
    BY <2>2, GraphIsWatched DEF Administer, Restart
  <2>3. CASE ParkCall \/ Crash
    BY <2>3 DEF ParkCall, Crash, historyVars
  <2> QED BY <2>1, <2>2, <2>3 DEF Environment
<1> QED BY <1>1, <1>2, <1>3, StaysRechecked DEF SentWasRechecked

LEMMA SentStep ==
  TypeInv /\ Bookkeeping /\ Window /\ SentWasRechecked /\ [Next]_vars => SentWasRechecked'
<1> SUFFICES ASSUME TypeInv, Bookkeeping, Window, SentWasRechecked, [Next]_vars
             PROVE  SentWasRechecked'
  OBVIOUS
<1>1. CASE Next
  BY <1>1, SentStepRequest, SentStepEnvironment DEF Next
<1>2. CASE UNCHANGED vars
  <2>1. UNCHANGED <<tool, since, carried, held>> /\ \A g \in Requests : Call(g)' = Call(g)
    BY <1>2 DEF vars, historyVars, Call, Tx
  <2> QED BY <2>1, StaysRechecked DEF SentWasRechecked
<1> QED BY <1>1, <1>2

-----------------------------------------------------------------------------
(* Row and log, while statements succeed and clients wait.                   *)

LEMMA StatementsAreDone ==
  ASSUME StatementsSucceed, NEW c \in Contexts, c = "live"
  PROVE  \A out \in Outcomes(c) : out = "ok"
  BY DEF StatementsSucceed, Outcomes, Results

LEMMA LoggedAsFiled == \A p \in Plans : LoggedState(FinalDecision(p)) = FinalState(p)
  BY DEF Plans, LoggedState, FinalDecision, FinalState

\* A row that the log tells of, or that a request writes on, names that request.
LEMMA NamedByItsRequest ==
  ASSUME TypeInv, Bookkeeping
  PROVE  /\ \A h \in Requests : pc[h] \in AfterTaking => rows[Tx(h)].by = h
         /\ \A r \in audit : /\ r.id \in Requests /\ r.about \in TxIds
                             /\ pc[r.id] = "done" /\ rows[r.about].by = r.id
         /\ \A tx \in TxIds : rows[tx].by \in Requests =>
              /\ rows[tx].state \notin {"absent", "pending"}
              /\ Tx(rows[tx].by) = tx
              /\ pc[rows[tx].by] \notin {"idle", "decide"}
  BY StoreAssumption
  DEF TypeInv, TypeOK, AuditTypeOK, AuditRows, Bookkeeping, RequestTookItsRow, LogIsTrue,
      RowNamesItsRequest

LEMMA CompleteInit == Init => LogIsComplete
  BY StoreAssumption, ExecutorAssumption
  DEF Init, LogIsComplete, StoreInit, AuditInit, Tx, Jobs

\* A step of h that leaves row and log alone keeps them complete, if h neither
\* gets to its last write nor returns from a call it took.
LEMMA QuietLog ==
  ASSUME LogIsComplete, NEW h \in Requests, UNCHANGED <<rows, audit, job>>,
         \A g \in Requests \ {h} : pc'[g] = pc[g] /\ ctx'[g] = ctx[g] /\ plan'[g] = plan[g],
         ctx'[h] = "live", pc'[h] # "audit", pc'[h] = "done" => rows[Tx(h)].by # h
  PROVE  LogIsComplete'
  BY DEF LogIsComplete, Tx

LEMMA CompleteStepRequest ==
  ASSUME StatementsSucceed, TypeInv, Bookkeeping, LogIsComplete, NEW h \in Requests,
         Receive(h) \/ Step(h) \/ ToolServe(h) \/ Disconnect(h)
  PROVE  LogIsComplete'
<1> USE DEF HandlerTypeOK
<1>0. /\ HandlerTypeOK /\ rows \in [TxIds -> Rows] /\ audit \subseteq AuditRows
      /\ \A g \in Requests : Tx(g) \in TxIds
      /\ ctx[h] = "live" /\ AfterStep(ctx[h]) = "live"
      /\ \A out \in Outcomes(ctx[h]) : out = "ok"
  BY StatementsAreDone
  DEF TypeInv, TypeOK, StoreTypeOK, AuditTypeOK, Tx, Jobs, LogIsComplete, AfterStep
<1>1. CASE Receive(h) \/ ReadFile(h) \/ Swap(h) \/ CallTool(h) \/ ToolAnswered(h) \/ ToolLost(h)
  BY <1>0, <1>1, QuietLog DEF Receive, ReadFile, Swap, CallTool, ToolAnswered, ToolLost, GoTo,
     Conclude
<1>2. CASE Snapshot(h) \/ AskOwner(h)
  BY <1>0, <1>2, QuietLog DEF Snapshot, AskOwner, FollowDecision, GoTo, Conclude
<1>3. CASE ToolServe(h) \/ Disconnect(h)
  BY <1>0, <1>3 DEF ToolServe, Disconnect, StatementsSucceed, handlerVars, LogIsComplete, Tx
<1>4. CASE Get(h)
  <2>1. rows[Tx(h)].state # "absent"
    BY <1>0, <1>4, NamedByItsRequest DEF Get, AfterTaking
  <2> QED
    BY <1>0, <1>4, <2>1, QuietLog DEF Get, GetFinds, GoTo, Conclude, Return
<1>5. CASE Decide(h)
  <2>0. rows[Tx(h)].by # h
    BY <1>0, <1>5, NamedByItsRequest DEF Decide
  <2>1. CASE rows[Tx(h)].state = "pending"
    <3>1. /\ UNCHANGED <<audit, job, plan>> /\ pc'[h] = "get" /\ ctx'[h] = "live"
          /\ \A g \in Requests \ {h} : pc'[g] = pc[g] /\ ctx'[g] = ctx[g]
          /\ rows'[Tx(h)].by = h
          /\ \A t \in TxIds \ {Tx(h)} : rows'[t] = rows[t]
      BY <1>0, <1>5, <2>1 DEF Decide, DecideWins, StoreDecide, GoTo, Rows
    <3>2. /\ \A r \in audit : r.about \in TxIds \ {Tx(h)}
          /\ \A g \in Requests : pc[g] = "audit" => Tx(g) # Tx(h)
      BY <1>0, <2>1, NamedByItsRequest DEF AfterTaking
    <3>3. \A g \in Requests : Tx(g)' = Tx(g)
      BY <3>1 DEF Tx
    <3>4. ASSUME NEW g \in Requests
          PROVE  /\ ctx'[g] = "live"
                 /\ pc'[g] = "audit" => rows'[Tx(g)].state = FinalState(plan[g])
                 /\ rows'[Tx(g)].by = g /\ pc'[g] = "done" => \E r \in audit : r.id = g
      BY <1>0, <3>1, <3>2 DEF LogIsComplete
    <3>5. \A r \in audit : /\ rows'[r.about].state = LoggedState(r.decision)
                           /\ \A q \in audit : q.about = r.about => q = r
      BY <3>1, <3>2 DEF LogIsComplete
    <3> QED BY <3>1, <3>3, <3>4, <3>5 DEF LogIsComplete
  <2>2. CASE rows[Tx(h)].state # "pending"
    BY <1>0, <1>5, <2>0, <2>2, QuietLog DEF Decide, DecideWins, StoreDecide, Return
  <2> QED BY <2>1, <2>2
<1>6. CASE SaveResult(h)
  <2>1. /\ rows[Tx(h)].by = h /\ rows[Tx(h)].state # "absent"
        /\ \A r \in audit : r.about # Tx(h)
        /\ \A g \in Requests \ {h} : pc[g] = "audit" => Tx(g) # Tx(h)
    BY <1>0, <1>6, NamedByItsRequest DEF SaveResult, AfterTaking
  <2>2. /\ UNCHANGED <<audit, job, plan>> /\ pc'[h] = "audit" /\ ctx'[h] = "live"
        /\ \A g \in Requests \ {h} : pc'[g] = pc[g] /\ ctx'[g] = ctx[g]
        /\ rows'[Tx(h)].by = h /\ rows'[Tx(h)].state = FinalState(plan[h])
        /\ \A t \in TxIds \ {Tx(h)} : rows'[t] = rows[t]
    <3>1. rows' = [rows EXCEPT ![Tx(h)].state = FinalState(plan[h]),
                               ![Tx(h)].result = FinalResult(plan[h])]
      BY <1>0, <1>6, <2>1 DEF SaveResult, SetResult
    <3>2. UNCHANGED <<audit, job, plan>> /\ GoTo(h, "audit")
      BY <1>6 DEF SaveResult
    <3> QED BY <1>0, <2>1, <3>1, <3>2 DEF GoTo, Rows
  <2> QED BY <1>0, <2>1, <2>2, NamedByItsRequest DEF LogIsComplete, Tx
<1>7. CASE WriteAudit(h)
  <2> DEFINE new == [id |-> h, about |-> Tx(h), decision |-> FinalDecision(plan[h]),
                     version |-> loaded, basis |-> text[h]]
  <2>1. /\ rows[Tx(h)].by = h /\ pc[h] = "audit" /\ \A r \in audit : r.about # Tx(h)
    BY <1>0, <1>7, NamedByItsRequest DEF WriteAudit, AfterTaking
  <2>2. /\ UNCHANGED <<rows, job>> /\ pc'[h] = "done" /\ ctx'[h] = "live"
        /\ \A g \in Requests \ {h} : pc'[g] = pc[g] /\ ctx'[g] = ctx[g] /\ plan'[g] = plan[g]
        /\ audit' = audit \union {new}
    BY <1>0, <1>7 DEF WriteAudit, Record, Return
  <2>3. rows[Tx(h)].state = LoggedState(new.decision)
    BY <1>0, <2>1, LoggedAsFiled DEF LogIsComplete
  <2>4. new.id = h /\ new.about = Tx(h)
    OBVIOUS
  <2> HIDE DEF new
  <2> QED BY <1>0, <2>1, <2>2, <2>3, <2>4 DEF LogIsComplete, Tx
<1> QED BY <1>1, <1>2, <1>3, <1>4, <1>5, <1>6, <1>7 DEF Step

LEMMA CompleteStepEnvironment ==
  ASSUME TypeInv, Bookkeeping, LogIsComplete, Environment
  PROVE  LogIsComplete'
<1>1. CASE EditFile \/ Administer \/ Restart
  BY <1>1 DEF EditFile, Administer, Restart, handlerVars, LogIsComplete, Tx
<1>2. CASE ParkCall
  <2>1. PICK tx \in TxIds, call \in Attempts : Park(tx, call, "ok")
    BY <1>2 DEF ParkCall
  <2>2. /\ UNCHANGED <<audit, job, pc, ctx, plan>>
        /\ rows[tx].state = "absent" /\ rows'[tx].by = rows[tx].by
        /\ \A t \in TxIds \ {tx} : rows'[t] = rows[t]
    BY <1>2, <2>1 DEF ParkCall, Park, handlerVars, TypeInv, TypeOK, StoreTypeOK, Rows
  <2>3. \A r \in audit : r.about \in TxIds \ {tx}
    BY <2>2, NamedByItsRequest
  <2>4. \A g \in Requests : Tx(g) \in TxIds
    BY DEF TypeInv, TypeOK, Tx, Jobs
  <2>5. \A g \in Requests : pc[g] = "audit" => Tx(g) # tx
    BY <2>2, NamedByItsRequest DEF AfterTaking
  <2> QED BY <2>2, <2>3, <2>4, <2>5 DEF LogIsComplete, Tx
<1>3. CASE Crash
  BY <1>3 DEF Crash, Active, LogIsComplete, Tx
<1> QED BY <1>1, <1>2, <1>3 DEF Environment

LEMMA CompleteStep ==
  ASSUME StatementsSucceed, TypeInv, Bookkeeping, LogIsComplete, [Next]_vars
  PROVE  LogIsComplete'
<1>1. CASE Next
  BY <1>1, CompleteStepRequest, CompleteStepEnvironment DEF Next
<1>2. CASE UNCHANGED vars
  BY <1>2 DEF vars, handlerVars, LogIsComplete, Tx
<1> QED BY <1>1, <1>2

-----------------------------------------------------------------------------
(* The theorems.                                                            *)

\* The invariant of ExecutorInvariant holds, for every value of the constants.
THEOREM Invariance == Spec => [](TypeInv /\ IInv)
<1>1. Init => TypeInv /\ Bookkeeping /\ Window /\ SentWasRechecked
  BY TypeInit, BookkeepingInit, WindowInit, SentInit
<1>2. TypeInv /\ Bookkeeping /\ Window /\ SentWasRechecked /\ [Next]_vars =>
        (TypeInv /\ Bookkeeping /\ Window /\ SentWasRechecked)'
  BY TypeStep, BookkeepingStep, WindowStep, SentStep
<1>3. TypeInv /\ Bookkeeping /\ Window /\ SentWasRechecked => TypeInv /\ IInv
  BY DEF IInv, Window
<1> QED BY <1>1, <1>2, <1>3, PTL DEF Spec

\* However many humans click and whatever fails, a parked call is forwarded at
\* most once (Store.Decide, store.go:81-93, as Approve uses it).
THEOREM AtMostOneCall == Spec => []OneCallPerApproval
<1>1. IInv => OneCallPerApproval
  BY DEF IInv, Bookkeeping, RequestTookItsRow, OneCallPerApproval, SentFor
<1> QED BY <1>1, Invariance, PTL

LEMMA AuthorisedByInvariant == TypeInv /\ IInv => CallsAreAuthorised
<1> SUFFICES ASSUME TypeInv, IInv, NEW h \in Requests, tool[h] # "none"
             PROVE  /\ job[h].button = "approve" /\ rows[Tx(h)].by = h
                    /\ rows[Tx(h)].state \in {"approved", "executed", "failed"}
  BY DEF CallsAreAuthorised
<1>1. job[h].button = "approve" /\ rows[Tx(h)].by = h
  BY DEF IInv, Bookkeeping, ToolFollowsSteps, RequestTookItsRow
<1>2. Tx(h) \in TxIds /\ rows[Tx(h)] \in Rows
  BY DEF TypeInv, TypeOK, StoreTypeOK, Tx, Jobs
<1>3. rows[Tx(h)].state \notin {"absent", "pending", "denied"}
  BY <1>1, <1>2, StoreAssumption DEF IInv, Bookkeeping, RowNamesItsRequest
<1> QED BY <1>1, <1>2, <1>3 DEF Rows, RowStates

\* Only the request that took the row with "approve" forwards the call, and the
\* row never claims otherwise afterwards (Approve, executor.go:38-73).
THEOREM OnlyApprovedCalls == Spec => []CallsAreAuthorised
  BY AuthorisedByInvariant, Invariance, PTL

\* What rows and log say of the tool is so: "executed" only of a call that ran,
\* "void" and "denied" only of one never sent (executor.go:60-101).
THEOREM TruthfulRecords == Spec => []RecordsTellTruth
<1>1. TypeInv /\ IInv => RecordsTellTruth
  <2> SUFFICES ASSUME TypeInv, IInv PROVE RecordsTellTruth
    OBVIOUS
  <2>0. /\ rows \in [TxIds -> Rows] /\ audit \subseteq AuditRows
        /\ RowNamesItsRequest /\ RequestTookItsRow /\ ToolFollowsSteps /\ LogIsTrue
    BY DEF IInv, Bookkeeping, TypeInv, TypeOK, StoreTypeOK, AuditTypeOK
  <2>1. ASSUME NEW tx \in TxIds, rows[tx].state = "executed"
        PROVE  \E h \in Requests : Tx(h) = tx /\ tool[h] = "ran"
    BY <2>0, <2>1 DEF RowNamesItsRequest, Rows
  <2>2. ASSUME NEW tx \in TxIds, rows[tx].state = "denied" \/ rows[tx].result = "void",
               NEW h \in Requests
        PROVE  ~SentFor(h, tx)
    BY <2>0, <2>2, StoreAssumption
    DEF RowNamesItsRequest, RequestTookItsRow, ToolFollowsSteps, SentFor
  <2>3. ASSUME NEW r \in audit
        PROVE  /\ r.decision = "executed_after_approval" =>
                    \E h \in Requests : Tx(h) = r.about /\ tool[h] = "ran"
               /\ r.decision \in {"deny", "denied_by_human"} =>
                    \A h \in Requests : ~SentFor(h, r.about)
    BY <2>0 DEF LogIsTrue, RequestTookItsRow, SentFor
  <2> QED BY <2>1, <2>2, <2>3 DEF RecordsTellTruth
<1> QED BY <1>1, Invariance, PTL

\* No re-check goes by a text that had left both the file and the hands of every
\* reload before the human decided, nor by an edge revoked before
\* (executor.go:54-59 with engine.go:77-110 and relations.go:74-92).
THEOREM RecheckIsRecent == Spec => []RecheckWithinWindow
<1>1. IInv => RecheckWithinWindow
  BY DEF IInv
<1> QED BY <1>1, Invariance, PTL

\* As long as statements succeed and clients wait, the log is complete, even if
\* the process crashes between any two steps (executor.go:67-101).
THEOREM LogStaysComplete ==
  ASSUME StatementsSucceed
  PROVE  Spec => []LogIsComplete
<1>1. TypeInv /\ IInv => Bookkeeping
  BY DEF IInv
<1>2. (TypeInv /\ Bookkeeping) /\ LogIsComplete /\ [Next]_vars => LogIsComplete'
  BY CompleteStep
<1> QED BY <1>1, <1>2, CompleteInit, Invariance, PTL DEF Spec

\* As long as statements succeed and clients wait, row and log tell the same
\* story of every call whose request returned, once (executor.go:67-101).
THEOREM RowAndLogAgree ==
  ASSUME StatementsSucceed
  PROVE  Spec => []RowAndAuditAgree
<1>1. (TypeInv /\ IInv) /\ LogIsComplete => RowAndAuditAgree
  <2> SUFFICES ASSUME TypeInv, IInv, LogIsComplete, NEW h \in Requests,
                      rows[Tx(h)].by = h, pc[h] = "done"
               PROVE  RowAndAuditAgree!(h)!2
    BY DEF RowAndAuditAgree
  <2>1. PICK r \in audit : r.id = h
    BY DEF LogIsComplete
  <2>2. r.about = Tx(h)
    BY <2>1 DEF IInv, Bookkeeping, LogIsTrue
  <2> QED BY <2>1, <2>2 DEF LogIsComplete
<1> QED BY <1>1, Invariance, LogStaysComplete, PTL

=============================================================================
