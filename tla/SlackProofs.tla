------------------------------ MODULE SlackProofs ------------------------------
(***************************************************************************)
(* Theorems about SlackCards, for every number of requests and parked      *)
(* calls, whatever they carry, and for every set of faults.                *)
(***************************************************************************)
EXTENDS SlackInvariant, ExecutorProofs

-----------------------------------------------------------------------------
(* The handlers leave the executor as it is.                                *)

LEMMA SlackStepIsStep == [SlackNext]_allVars => [Next]_vars
  BY DEF SlackNext, allVars, Press, Proceed, Respond, PostCard, Others, ProcessCrash, Next,
     Environment

\* Requests that come in through the two endpoints, and messages that go out to
\* Slack, add no behaviour to the executor: its theorems hold of the whole
\* (http.go:93-170).
THEOREM HandlersKeepExecutor == SlackSpec => Spec
<1>1. SlackInit => Init
  BY DEF SlackInit
<1> QED BY <1>1, SlackStepIsStep, PTL DEF SlackSpec, Spec

-----------------------------------------------------------------------------
(* What later steps of the executor cannot take back.                       *)

\* A row stays, and a decision on it stays with the request that took it.
LEMMA RowsGoForward ==
  ASSUME TypeInv, IInv, [Next]_vars, NEW tx \in TxIds, rows[tx].state # "absent"
  PROVE  /\ rows'[tx].state # "absent"
         /\ rows[tx].state # "pending" =>
              rows'[tx].state # "pending" /\ rows'[tx].by = rows[tx].by
<1>0. rows \in [TxIds -> Rows]
  BY DEF TypeInv, TypeOK, StoreTypeOK
<1>1. CASE UNCHANGED rows
  BY <1>1
<1>2. ASSUME NEW h \in Requests, Decide(h)
      PROVE  /\ rows'[tx].state # "absent"
             /\ rows[tx].state # "pending" => rows'[tx] = rows[tx]
  BY <1>0, <1>2 DEF Decide, StoreDecide, Rows
<1>3. ASSUME NEW h \in Requests, SaveResult(h)
      PROVE  /\ rows'[tx].state \notin {"absent", "pending"} \/ rows'[tx] = rows[tx]
             /\ rows'[tx].by = rows[tx].by
  <2>1. plan[h] \in Plans
    BY DEF TypeInv, TypeOK
  <2>2. FinalState(plan[h]) \in {"executed", "denied", "failed"}
    BY <2>1, FinalType
  <2> QED BY <1>0, <1>3, <2>2 DEF SaveResult, SetResult, Rows
<1>4. CASE ParkCall
  BY <1>0, <1>4 DEF ParkCall, Park, Rows
<1>5. ASSUME NEW h \in Requests, Step(h), ~Decide(h), ~SaveResult(h)
      PROVE  UNCHANGED rows
  BY <1>5 DEF Step, Get, ReadFile, Swap, Snapshot, AskOwner, CallTool, ToolAnswered, ToolLost,
     WriteAudit
<1>6. ASSUME NEW h \in Requests, Receive(h) \/ ToolServe(h) \/ Disconnect(h)
      PROVE  UNCHANGED rows
  BY <1>6 DEF Receive, ToolServe, Disconnect
<1>7. CASE EditFile \/ Administer \/ Crash \/ Restart
  BY <1>1, <1>7 DEF EditFile, Administer, Crash, Restart
<1> QED
  BY <1>1, <1>2, <1>3, <1>4, <1>5, <1>6, <1>7 DEF Next, Environment, vars

\* A request that has returned does nothing more; its tool call goes on alone.
LEMMA DoneIsFinal ==
  ASSUME TypeInv, [Next]_vars, NEW h \in Requests, pc[h] = "done"
  PROVE  /\ pc'[h] = "done"
         /\ tool[h] \in {"none", "ran"} => tool'[h] = tool[h]
<1>0. pc \in [Requests -> Steps] /\ tool \in [Requests -> ToolStates] /\ HandlerTypeOK
  BY DEF TypeInv, TypeOK, HandlerTypeOK
<1>1. ASSUME NEW g \in Requests, Step(g)
      PROVE  /\ \A r \in Requests \ {g} : pc'[r] = pc[r] /\ tool'[r] = tool[r]
             /\ pc[g] # "done"
  BY <1>0, <1>1 DEF Step, Decide, Get, ReadFile, Swap, Snapshot, AskOwner, CallTool, ToolAnswered,
     ToolLost, SaveResult, WriteAudit, GoTo, Conclude, Return, FollowDecision
<1>2. ASSUME NEW g \in Requests, Receive(g) \/ ToolServe(g) \/ Disconnect(g)
      PROVE  pc'[h] = "done" /\ (tool[h] \in {"none", "ran"} => tool'[h] = tool[h])
  BY <1>0, <1>2 DEF Receive, ToolServe, Disconnect, handlerVars
<1>3. CASE Environment
  BY <1>0, <1>3 DEF Environment, EditFile, Administer, ParkCall, Crash, Restart, handlerVars, Active
<1>4. CASE UNCHANGED vars
  BY <1>4 DEF vars, handlerVars
<1> QED BY <1>1, <1>2, <1>3, <1>4 DEF Next

\* Nothing the executor does changes who asked for what.
LEMMA JobsStay == [Next]_vars => job' = job
  BY DEF Next, Environment, vars, Step, Receive, ToolServe, Disconnect, Decide, Get, ReadFile,
     Swap, Snapshot, AskOwner, CallTool, ToolAnswered, ToolLost, SaveResult, WriteAudit, EditFile,
     Administer, ParkCall, Crash, Restart

\* A request stays idle until it comes in at one of the two endpoints.
LEMMA IdleUntilPressed ==
  ASSUME TypeInv, [SlackNext]_allVars, NEW h \in Requests, pc[h] = "idle", pc'[h] # "idle"
  PROVE  Press(h)
<1>0. pc \in [Requests -> Steps]
  BY DEF TypeInv, TypeOK
<1>1. ASSUME NEW g \in Requests, Step(g)
      PROVE  pc'[h] = pc[h]
  BY <1>0, <1>1 DEF Step, Decide, Get, ReadFile, Swap, Snapshot, AskOwner, CallTool, ToolAnswered,
     ToolLost, SaveResult, WriteAudit, GoTo, Conclude, Return, FollowDecision
<1>2. ASSUME NEW g \in Requests, Press(g)
      PROVE  g = h
  BY <1>0, <1>2 DEF Press, Receive
<1>3. Others \/ ProcessCrash => pc'[h] = pc[h]
  BY <1>0 DEF Others, ProcessCrash, ToolServe, Disconnect, EditFile, Administer, ParkCall, Crash,
     Restart, handlerVars, Active
<1>4. (\E g \in Requests : Respond(g)) \/ (\E tx \in TxIds : PostCard(tx)) \/ UNCHANGED allVars
        => pc'[h] = pc[h]
  BY DEF Respond, PostCard, allVars, vars, handlerVars
<1> QED BY <1>1, <1>2, <1>3, <1>4 DEF SlackNext, Proceed

-----------------------------------------------------------------------------
(* Types.                                                                   *)

SlackShape ==
  /\ post \in [Requests -> Posts]
  /\ answer \in [Requests -> Answers \union {"none"}]
  /\ sending \subseteq Requests
  /\ card \in [TxIds -> Answers \union {"none", "buttons"}]

LEMMA SlackShapeInit == SlackInit => SlackShape
  BY DEF SlackInit, SlackShape

LEMMA SlackShapeStep ==
  ASSUME TypeInv, SlackShape, [SlackNext]_allVars
  PROVE  SlackShape'
<1>1. ASSUME NEW h \in Requests, Proceed(h)
      PROVE  SlackShape'
  BY <1>1 DEF Proceed, SlackShape
<1>2. ASSUME NEW h \in Requests, Respond(h)
      PROVE  SlackShape'
  <2>1. Tx(h) \in TxIds
    BY DEF TypeInv, TypeOK, Tx, Jobs
  <2> QED BY <1>2, <2>1 DEF Respond, SlackShape
<1>3. ASSUME NEW tx \in TxIds, PostCard(tx)
      PROVE  SlackShape'
  BY <1>3 DEF PostCard, SlackShape
<1>4. ASSUME UNCHANGED slackVars \/ ProcessCrash
      PROVE  SlackShape'
  BY <1>4 DEF ProcessCrash, slackVars, SlackShape
<1> QED
  BY <1>1, <1>2, <1>3, <1>4 DEF SlackNext, Press, Others, allVars

-----------------------------------------------------------------------------
(* The invariant.                                                           *)

LEMMA SlackInvInit == SlackInit => SlackInv
  BY DEF SlackInit, Init, SlackInv, AnswerIsFounded, ButtonHasRow, SendingIsAnswered,
     CardShowsAnswer, Verdicts, Answers

\* What the executor's invariant says of a request about to return.
LEMMA LastStep ==
  ASSUME TypeInv, IInv, NEW h \in Requests, NEW a \in Answers, Step(h), MayAnswer(h, a)
  PROVE  /\ tool' = tool
         /\ a \in Verdicts => rows[Tx(h)].by = h
         /\ a = "executed" => tool[h] = "ran"
         /\ a \in {"voided", "denied", "error"} => tool[h] = "none"
         /\ a = "already" => pc[h] = "decide" /\ rows[Tx(h)].state # "pending"
<1>0. /\ pc[h] \in AfterTaking => rows[Tx(h)].by = h
      /\ pc[h] \in BeforeTool => tool[h] = "none"
      /\ tool[h] # "none" => job[h].button = "approve"
      /\ pc[h] = "audit" =>
           /\ plan[h] # "none"
           /\ plan[h] = "denied" <=> job[h].button = "deny"
           /\ plan[h] = "executed" => tool[h] = "ran"
           /\ plan[h] = "void" => tool[h] = "none"
      /\ plan[h] \in Plans
  BY DEF IInv, Bookkeeping, RequestTookItsRow, ToolFollowsSteps, PlanIsTrue, TypeInv, TypeOK
<1>1. pc[h] \in {"decide", "get", "audit"}
  BY DEF MayAnswer
<1>2. tool' = tool
  BY <1>1 DEF Step, Decide, Get, ReadFile, Swap, Snapshot, AskOwner, CallTool, ToolAnswered,
     ToolLost, SaveResult, WriteAudit
<1>3. CASE pc[h] = "decide"
  BY <1>0, <1>2, <1>3 DEF MayAnswer, Verdicts, BeforeTool
<1>4. CASE pc[h] = "get"
  BY <1>0, <1>2, <1>4 DEF MayAnswer, Verdicts, BeforeTool, AfterTaking
<1>5. CASE pc[h] = "audit"
  <2>1. a = Told(plan[h])
    BY <1>5 DEF MayAnswer
  <2> QED BY <1>0, <1>2, <1>5, <2>1 DEF Told, Plans, AfterTaking
<1> QED BY <1>1, <1>3, <1>4, <1>5

\* The row of a request that got a verdict was decided.
LEMMA TakenIsDecided ==
  ASSUME TypeInv, IInv, NEW h \in Requests, rows[Tx(h)].by = h
  PROVE  Tx(h) \in TxIds /\ rows[Tx(h)].state \notin {"absent", "pending"}
<1>1. Tx(h) \in TxIds
  BY DEF TypeInv, TypeOK, Tx, Jobs
<1> QED
  BY <1>1, StoreAssumption DEF IInv, Bookkeeping, RowNamesItsRequest

\* A step keeps an answer given before founded, and gives none that is not.
LEMMA AnswersStayFounded ==
  ASSUME TypeInv, IInv, SlackShape, SlackInv, [SlackNext]_allVars, NEW h \in Requests
  PROVE  AnswerIsFounded(h)'
<1>0. /\ [Next]_vars /\ job' = job /\ Tx(h)' = Tx(h) /\ Tx(h) \in TxIds
      /\ AnswerIsFounded(h)
  BY SlackStepIsStep, JobsStay DEF Tx, SlackInv, TypeInv, TypeOK, Jobs
<1>1. CASE answer'[h] = answer[h]
  <2>1. answer[h] # "none" =>
          /\ pc'[h] = "done"
          /\ tool[h] \in {"none", "ran"} => tool'[h] = tool[h]
    BY <1>0, DoneIsFinal DEF AnswerIsFounded
  <2>2. rows[Tx(h)].by = h => rows'[Tx(h)].by = h
    BY <1>0, TakenIsDecided, RowsGoForward
  <2> QED BY <1>0, <1>1, <2>1, <2>2 DEF AnswerIsFounded, Verdicts
<1>2. CASE Proceed(h) /\ pc'[h] = "done"
  <2>1. PICK a \in Answers : MayAnswer(h, a) /\ answer'[h] = a
    BY <1>2 DEF Proceed, SlackShape
  <2>2. Step(h)
    BY <1>2 DEF Proceed
  <2>3. rows[Tx(h)].by = h => rows'[Tx(h)].by = h
    BY <1>0, TakenIsDecided, RowsGoForward
  <2> QED BY <1>0, <1>2, <2>1, <2>2, <2>3, LastStep DEF AnswerIsFounded
<1>3. answer'[h] = answer[h] \/ (Proceed(h) /\ pc'[h] = "done")
  BY DEF SlackNext, allVars, slackVars, Press, Proceed, Respond, PostCard, Others, ProcessCrash,
     SlackShape
<1> QED BY <1>1, <1>2, <1>3

LEMMA ButtonsKeepRows ==
  ASSUME TypeInv, IInv, SlackShape, SlackInv, [SlackNext]_allVars, NEW h \in Requests
  PROVE  ButtonHasRow(h)'
<1>0. /\ [Next]_vars /\ job' = job /\ Tx(h)' = Tx(h) /\ Tx(h) \in TxIds
      /\ ButtonHasRow(h)
  BY SlackStepIsStep, JobsStay DEF Tx, SlackInv, TypeInv, TypeOK, Jobs
<1> SUFFICES ASSUME post'[h].endpoint = "slack"
             PROVE  /\ pc'[h] # "idle" => rows'[Tx(h)].state # "absent"
                    /\ answer'[h] = "already" => rows'[Tx(h)].state \notin {"absent", "pending"}
  BY <1>0 DEF ButtonHasRow
<1>1. post' = post
  BY DEF SlackNext, allVars, slackVars, Press, Proceed, Respond, PostCard, Others, ProcessCrash
<1>2. pc'[h] # "idle" => rows[Tx(h)].state # "absent"
  <2>1. CASE pc[h] # "idle"
    BY <1>0, <1>1, <2>1 DEF ButtonHasRow
  <2>2. CASE pc[h] = "idle" /\ pc'[h] # "idle"
    <3>1. Press(h)
      BY <2>2, IdleUntilPressed
    <3>2. CASE card[Tx(h)] = "buttons"
      BY <1>0, <3>2 DEF SlackInv, CardShowsAnswer
    <3>3. CASE Redelivered(h)
      <4>1. PICK g \in Requests : pc[g] # "idle" /\ post[g] = post[h] /\ job[g] = job[h]
        BY <3>3 DEF Redelivered
      <4>2. ButtonHasRow(g)
        BY DEF SlackInv
      <4> QED BY <1>1, <4>1, <4>2 DEF ButtonHasRow, Tx
    <3> QED BY <1>1, <3>1, <3>2, <3>3 DEF Press
  <2> QED BY <2>1, <2>2
<1>3. pc'[h] # "idle" => rows'[Tx(h)].state # "absent"
  BY <1>0, <1>2, RowsGoForward
<1>4. ASSUME answer'[h] = "already"
      PROVE  rows[Tx(h)].state \notin {"absent", "pending"}
  <2>1. CASE answer[h] = "already"
    BY <1>0, <1>1, <2>1 DEF ButtonHasRow
  <2>2. CASE answer[h] # "already"
    <3>1. Proceed(h) /\ answer' = [answer EXCEPT ![h] = "already"] /\ MayAnswer(h, "already")
      BY <1>4, <2>2 DEF SlackNext, allVars, slackVars, Press, Proceed, Respond, PostCard, Others,
         ProcessCrash, SlackShape
    <3>2. Step(h) /\ "already" \in Answers
      BY <3>1 DEF Proceed, Answers
    <3>3. pc[h] = "decide" /\ rows[Tx(h)].state # "pending"
      BY <3>1, <3>2, LastStep
    <3> QED BY <1>0, <1>1, <3>3 DEF ButtonHasRow
  <2> QED BY <2>1, <2>2
<1> QED BY <1>0, <1>3, <1>4, RowsGoForward

LEMMA SendingStaysAnswered ==
  ASSUME SlackShape, SlackInv, [SlackNext]_allVars, NEW h \in Requests
  PROVE  SendingIsAnswered(h)'
<1>0. post' = post
  BY DEF SlackNext, allVars, slackVars, Press, Proceed, Respond, PostCard, Others, ProcessCrash
<1>1. SendingIsAnswered(h)
  BY DEF SlackInv
<1>2. CASE UNCHANGED <<answer, sending>> \/ ProcessCrash
  BY <1>0, <1>1, <1>2 DEF SendingIsAnswered, ProcessCrash
<1>3. ASSUME NEW g \in Requests, Proceed(g)
      PROVE  SendingIsAnswered(h)'
  BY <1>0, <1>1, <1>3 DEF SendingIsAnswered, Proceed, SlackShape, Answers, Verdicts
<1>4. ASSUME NEW g \in Requests, Respond(g)
      PROVE  SendingIsAnswered(h)'
  BY <1>0, <1>1, <1>4 DEF SendingIsAnswered, Respond
<1> QED
  BY <1>2, <1>3, <1>4 DEF SlackNext, allVars, slackVars, Press, PostCard, Others

LEMMA CardsStayTrue ==
  ASSUME TypeInv, IInv, SlackShape, SlackInv, [SlackNext]_allVars, NEW tx \in TxIds
  PROVE  CardShowsAnswer(tx)'
<1>0. /\ [Next]_vars /\ job' = job /\ \A h \in Requests : Tx(h)' = Tx(h) /\ Tx(h) \in TxIds
      /\ CardShowsAnswer(tx)
  BY SlackStepIsStep, JobsStay DEF Tx, SlackInv, TypeInv, TypeOK, Jobs
<1>1. post' = post
  BY DEF SlackNext, allVars, slackVars, Press, Proceed, Respond, PostCard, Others, ProcessCrash
<1>2. rows[tx].state # "absent" => rows'[tx].state # "absent"
  BY <1>0, RowsGoForward
<1>3. ASSUME NEW h \in Requests, answer[h] # "none"
      PROVE  answer'[h] = answer[h]
  <2>1. pc[h] = "done"
    BY <1>3 DEF SlackInv, AnswerIsFounded
  <2>2. ~Step(h)
    BY <2>1 DEF Step, Decide, Get, ReadFile, Swap, Snapshot, AskOwner, CallTool, ToolAnswered,
       ToolLost, SaveResult, WriteAudit
  <2> QED
    BY <2>2 DEF SlackNext, allVars, slackVars, Press, Proceed, Respond, PostCard, Others,
       ProcessCrash, SlackShape
<1>4. CASE card'[tx] = card[tx]
  BY <1>0, <1>1, <1>2, <1>3, <1>4 DEF CardShowsAnswer, Answers, Verdicts
<1>5. ASSUME NEW h \in Requests, Respond(h), card'[tx] # card[tx]
      PROVE  CardShowsAnswer(tx)'
  <2>1. tx = Tx(h) /\ card'[tx] = answer[h] /\ answer' = answer
    BY <1>0, <1>5 DEF Respond, SlackShape
  <2>2. answer[h] # "none" /\ post[h].endpoint = "slack" /\ pc[h] # "idle"
    BY <1>5 DEF Respond, SlackInv, SendingIsAnswered, AnswerIsFounded
  <2>3. rows[tx].state # "absent"
    BY <2>1, <2>2 DEF SlackInv, ButtonHasRow
  <2> QED BY <1>0, <1>1, <1>2, <2>1, <2>2, <2>3 DEF CardShowsAnswer
<1>6. ASSUME NEW t \in TxIds, PostCard(t), card'[tx] # card[tx]
      PROVE  CardShowsAnswer(tx)'
  <2>1. card'[tx] = "buttons" /\ rows[tx].state # "absent"
    BY <1>6 DEF PostCard, SlackShape
  <2> QED BY <1>2, <2>1 DEF CardShowsAnswer, Answers, Verdicts
<1> QED
  BY <1>4, <1>5, <1>6 DEF SlackNext, allVars, slackVars, Press, Proceed, Others, ProcessCrash

LEMMA SlackInvStep == TypeInv /\ IInv /\ SlackShape /\ SlackInv /\ [SlackNext]_allVars => SlackInv'
  BY AnswersStayFounded, ButtonsKeepRows, SendingStaysAnswered, CardsStayTrue DEF SlackInv

-----------------------------------------------------------------------------
(* The theorems.                                                            *)

\* The invariant of SlackInvariant holds, for every value of the constants.
THEOREM SlackInvariance == SlackSpec => [](TypeInv /\ IInv /\ SlackShape /\ SlackInv)
<1>1. SlackInit => SlackShape /\ SlackInv
  BY SlackShapeInit, SlackInvInit
<1>2. TypeInv /\ IInv /\ SlackShape /\ SlackInv /\ [SlackNext]_allVars => SlackShape' /\ SlackInv'
  BY SlackShapeStep, SlackInvStep
<1> QED BY <1>1, <1>2, HandlersKeepExecutor, Invariance, PTL DEF SlackSpec

\* Every variable keeps its type, whatever comes in at the two endpoints.
THEOREM SlackTypeCorrect == SlackSpec => []SlackTypeOK
<1>1. TypeInv /\ SlackShape => SlackTypeOK
  BY DEF TypeInv, SlackShape, SlackTypeOK
<1> QED BY <1>1, SlackInvariance, PTL

\* However many humans click on one call, in Slack and on the page, and whatever
\* is lost or repeated: at most one of them is told a verdict (store.go:81-94
\* with http.go:93-170).
THEOREM OneIsToldTheVerdict == SlackSpec => []OneVerdictPerCall
<1>1. SlackInv => OneVerdictPerCall
  BY DEF SlackInv, AnswerIsFounded, OneVerdictPerCall, Tx
<1> QED BY <1>1, SlackInvariance, PTL

\* What humans are told of their clicks is so and stays so, in the reply and in
\* the message (executor.go:37-101, http.go:164-168, slack.go:123-131).
THEOREM TruthfulAnswers == SlackSpec => []AnswersAreTrue
<1>1. TypeInv /\ IInv /\ SlackShape /\ SlackInv => AnswersAreTrue
  <2> SUFFICES ASSUME TypeInv, IInv, SlackShape, SlackInv PROVE AnswersAreTrue
    OBVIOUS
  <2>1. ASSUME NEW h \in Requests, answer[h] # "none"
        PROVE  IsTrue(answer[h], h)
    <3>1. AnswerIsFounded(h)
      BY DEF SlackInv
    <3>2. ASSUME answer[h] \in {"voided", "denied"}, NEW g \in Requests
          PROVE  ~SentFor(g, Tx(h))
      <4>1. rows[Tx(h)].by = h /\ tool[h] = "none"
        BY <3>1, <3>2 DEF AnswerIsFounded, Verdicts
      <4> QED BY <4>1 DEF IInv, Bookkeeping, RequestTookItsRow, SentFor
    <3> QED BY <3>1, <3>2 DEF AnswerIsFounded, IsTrue
  <2>2. ASSUME NEW tx \in TxIds, card[tx] \in Answers
        PROVE  /\ card[tx] = "already" => rows[tx].state \notin {"absent", "pending"}
               /\ \E h \in Requests :
                    Tx(h) = tx /\ answer[h] = card[tx] /\ IsTrue(card[tx], h)
    <3>1. PICK h \in Requests : Tx(h) = tx /\ answer[h] = card[tx] /\ post[h].endpoint = "slack"
      BY <2>2 DEF SlackInv, CardShowsAnswer
    <3>2. answer[h] # "none"
      BY <2>2, <3>1 DEF Answers, Verdicts
    <3> QED BY <2>1, <3>1, <3>2 DEF SlackInv, ButtonHasRow
  <2> QED BY <2>1, <2>2 DEF AnswersAreTrue, Answers
<1> QED BY <1>1, SlackInvariance, PTL

=============================================================================
