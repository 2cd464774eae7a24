---------------------------- MODULE DashboardProofs ----------------------------
(***************************************************************************)
(* Theorems about Dashboard, for every number of open refreshes, changes   *)
(* and rows and for every limit of the log's panel.                        *)
(***************************************************************************)
EXTENDS DashboardInvariant, StoreProofs

-----------------------------------------------------------------------------
(* Types.                                                                   *)

Panels == [pending : SUBSET TxIds, audit : SUBSET Nat, graph : SUBSET (Users \X Records)]

Readings == [from : Nat, pending : SUBSET SUBSET TxIds, audit : SUBSET SUBSET Nat,
             graph : SUBSET SUBSET (Users \X Records)]

Shape ==
  /\ PolicyTypeOK /\ StoreTypeOK /\ GraphTypeOK
  /\ newest \in Nat
  /\ reading \in [Refreshes -> Readings]
  /\ past \in Seq(Panels)
  /\ calm \in BOOLEAN

\* The log's panels hold ids of rows that are there.
AuditIsInLog ==
  /\ page.pending \subseteq TxIds /\ page.audit \subseteq 1..newest
  /\ page.graph \subseteq Users \X Records
  /\ \A r \in Refreshes : reading[r].audit \subseteq SUBSET (1..newest)

LEMMA DashboardInit == Init => Shape /\ AuditIsInLog /\ PanelsInv
<1> SUFFICES ASSUME Init PROVE Shape /\ AuditIsInLog /\ PanelsInv
  OBVIOUS
<1> USE DashboardAssumption
<1>1. PolicyTypeOK /\ StoreTypeOK /\ GraphTypeOK
  BY GraphAssumption, PolicyAssumption DEF Init, PolicyInit, StoreInit, GraphInit, PolicyTypeOK,
     StoreTypeOK, GraphTypeOK, Rows, RowStates, RowResults
<1>2. newest = 0 /\ calm = FALSE /\ past = <<Tables>>
  BY DEF Init
<1>3. reading = [r \in Refreshes |-> Idle] /\ Idle \in Readings
  BY DEF Init, Idle, Readings
<1>4. Tables \in Panels
  BY <1>1, <1>2 DEF Tables, Panels, ListPending, Recent, GraphTypeOK
<1>5. Shape
  <2>1. past \in Seq(Panels)
    BY <1>2, <1>4
  <2>2. reading \in [Refreshes -> Readings]
    BY <1>3
  <2>3. newest \in Nat /\ calm \in BOOLEAN
    BY <1>2
  <2> QED BY <1>1, <2>1, <2>2, <2>3 DEF Shape
<1>6. AuditIsInLog
  BY <1>3 DEF AuditIsInLog, Init, Blank, Idle
<1>7. PanelsInv
  BY <1>2, <1>3, <1>4 DEF PanelsInv, HistoryIsUpToDate, RefreshIsOpenOrIdle, AnswersAreRecent,
     Idle, Since
<1> QED BY <1>5, <1>6, <1>7

-----------------------------------------------------------------------------
(* The tables change.                                                       *)

\* Whatever changes the tables adds the present to the history and leaves the
\* refreshes with what they hold.
LEMMA ChangeKeeps ==
  ASSUME Shape, AuditIsInLog, PanelsInv, Changed,
         PolicyTypeOK', StoreTypeOK', GraphTypeOK', newest' \in {newest, newest + 1}
  PROVE  Shape' /\ AuditIsInLog' /\ PanelsInv'
<1> USE DashboardAssumption
<1>1. /\ past' = Append(past, Tables') /\ reading' = reading /\ page' = page /\ calm' = calm
      /\ Len(past) <= MaxChanges
  BY DEF Changed
<1>2. newest' \in Nat /\ newest <= newest'
  BY DEF Shape
<1>3. Tables' \in Panels
  BY <1>2 DEF Tables, Panels, ListPending, Recent, GraphTypeOK
<1>4. Shape'
  BY <1>1, <1>2, <1>3 DEF Shape
<1>5. AuditIsInLog'
  BY <1>1, <1>2 DEF AuditIsInLog, Shape
<1>6. /\ Len(past') = Len(past) + 1 /\ past'[Len(past) + 1] = Tables'
      /\ \A n \in 1..Len(past) : past'[n] = past[n]
  BY <1>1, <1>3 DEF Shape
<1>7. HistoryIsUpToDate'
  BY <1>1, <1>2, <1>6 DEF PanelsInv, HistoryIsUpToDate, Shape
<1>8. ASSUME NEW r \in Refreshes
      PROVE  (RefreshIsOpenOrIdle(r) /\ AnswersAreRecent(r))'
  <2>1. RefreshIsOpenOrIdle(r) /\ AnswersAreRecent(r) /\ reading[r].from \in Nat
    BY DEF PanelsInv, Shape, Readings
  <2>0. reading'[r] = reading[r]
    BY <1>1
  <2>2. RefreshIsOpenOrIdle(r)'
    BY <1>1, <1>6, <2>1 DEF RefreshIsOpenOrIdle, Shape
  <2>3. CASE reading[r].from = 0
    BY <1>1, <2>1, <2>3 DEF RefreshIsOpenOrIdle, AnswersAreRecent, Idle
  <2>4. CASE reading[r].from # 0
    <3>1. \A n \in Since(r) : n \in Since(r)' /\ past'[n] = past[n]
      BY <1>1, <1>6, <2>1, <2>4 DEF Since, Shape
    <3> QED BY <2>0, <2>1, <2>2, <3>1 DEF AnswersAreRecent
  <2> QED BY <2>2, <2>3, <2>4
<1> QED BY <1>4, <1>5, <1>7, <1>8 DEF PanelsInv

LEMMA TablesKeep ==
  ASSUME Shape, AuditIsInLog, PanelsInv, ParkCall \/ DecideCall \/ WriteLog \/ Administer
  PROVE  Shape' /\ AuditIsInLog' /\ PanelsInv'
<1>0. PolicyTypeOK /\ StoreTypeOK /\ GraphTypeOK
  BY DEF Shape
<1>1. Changed /\ UNCHANGED <<file, loaded>>
  BY DEF ParkCall, DecideCall, WriteLog, Administer, Changed
<1>2. StoreTypeOK'
  <2>1. CASE UNCHANGED rows
    BY <1>0, <2>1 DEF StoreTypeOK
  <2>2. CASE ParkCall
    BY <1>0, <2>2, RowsType DEF ParkCall, Results
  <2>3. CASE DecideCall
    BY <1>0, <2>3, RowsType DEF DecideCall, Results, ListPending, RowStates
  <2> QED BY <2>1, <2>2, <2>3 DEF WriteLog, Administer
<1>3. GraphTypeOK'
  BY <1>0 DEF ParkCall, DecideCall, WriteLog, Administer, AdministerGraph, Grant, Revoke,
     GraphTypeOK
<1>4. PolicyTypeOK'
  BY <1>0, <1>1 DEF PolicyTypeOK
<1>5. newest' \in {newest, newest + 1}
  BY DEF ParkCall, DecideCall, WriteLog, Administer
<1> QED BY <1>1, <1>2, <1>3, <1>4, <1>5, ChangeKeeps

-----------------------------------------------------------------------------
(* The page reads and draws.                                                *)

\* A step that changes one refresh and no table keeps the invariant if what the
\* refresh then holds is recent.
LEMMA OneRefresh ==
  ASSUME Shape, AuditIsInLog, PanelsInv, NEW r \in Refreshes,
         UNCHANGED worldVars, calm' \in BOOLEAN, page'.audit \subseteq 1..newest,
         page'.pending \subseteq TxIds, page'.graph \subseteq Users \X Records,
         reading' \in [Refreshes -> Readings],
         \A q \in Refreshes \ {r} : reading'[q] = reading[q],
         reading'[r].audit \subseteq SUBSET (1..newest),
         RefreshIsOpenOrIdle(r)', AnswersAreRecent(r)'
  PROVE  Shape' /\ AuditIsInLog' /\ PanelsInv'
<1>1. UNCHANGED <<file, loaded, rows, edges, newest, past>>
  BY DEF worldVars
<1>2. Shape'
  BY <1>1 DEF Shape, PolicyTypeOK, StoreTypeOK, GraphTypeOK
<1>3. AuditIsInLog'
  BY <1>1 DEF AuditIsInLog
<1>4. HistoryIsUpToDate'
  BY <1>1 DEF PanelsInv, HistoryIsUpToDate, Tables, ListPending, Recent
<1>5. ASSUME NEW q \in Refreshes \ {r}
      PROVE  (RefreshIsOpenOrIdle(q) /\ AnswersAreRecent(q))'
  BY <1>1, <1>5 DEF PanelsInv, RefreshIsOpenOrIdle, AnswersAreRecent, Since
<1> QED BY <1>2, <1>3, <1>4, <1>5 DEF PanelsInv

\* The present is a moment since any refresh began.
LEMMA NowIsRecent ==
  ASSUME Shape, PanelsInv, NEW r \in Refreshes
  PROVE  /\ Len(past) \in Since(r)
         /\ past[Len(past)].pending = ListPending
         /\ past[Len(past)].audit = Recent(PageLimit)
         /\ past[Len(past)].graph = edges
<1>1. past[Len(past)] = Tables /\ RefreshIsOpenOrIdle(r) /\ Len(past) \in Nat
  BY DEF PanelsInv, HistoryIsUpToDate, Shape
<1>2. reading[r].from \in Nat
  BY DEF Shape, Readings
<1> QED BY <1>1, <1>2 DEF RefreshIsOpenOrIdle, Since, Tables

LEMMA TickKeeps ==
  ASSUME Shape, AuditIsInLog, PanelsInv, NEW r \in Refreshes, Tick(r)
  PROVE  Shape' /\ AuditIsInLog' /\ PanelsInv'
<1>0. Len(past) \in Nat \ {0} /\ past' = past
  BY DEF Tick, worldVars, Shape, PanelsInv, HistoryIsUpToDate
<1>1. /\ reading' \in [Refreshes -> Readings]
      /\ \A q \in Refreshes \ {r} : reading'[q] = reading[q]
      /\ reading'[r] = [Idle EXCEPT !.from = Len(past)]
  BY <1>0 DEF Tick, Shape, Readings, Idle
<1>2. /\ reading'[r].from = Len(past) /\ reading'[r].pending = {} /\ reading'[r].audit = {}
      /\ reading'[r].graph = {}
  BY <1>1 DEF Idle
<1>3. RefreshIsOpenOrIdle(r)' /\ AnswersAreRecent(r)'
  BY <1>0, <1>2 DEF RefreshIsOpenOrIdle, AnswersAreRecent
<1> QED BY <1>1, <1>2, <1>3, OneRefresh DEF Tick, AuditIsInLog, Shape

\* What a request may bring: the present, or what its failure looks like.
Brought(w) ==
  /\ \A list \in w.pending : list = ListPending \/ (list = {} /\ "db" \in Faults)
  /\ \A list \in w.audit : list = Recent(PageLimit) \/ (list = {} /\ "db" \in Faults)
  /\ \A list \in w.graph : list = edges \/ (list \subseteq edges /\ "graph" \in Faults)

\* An answer that was there, or one that is brought, is recent.
LEMMA AnswerKeeps ==
  ASSUME Shape, AuditIsInLog, PanelsInv, NEW r \in Refreshes,
         UNCHANGED worldVars, page' = page, calm' = calm,
         NEW w \in Readings, NEW new \in Readings, Brought(new),
         reading' = [reading EXCEPT ![r] = w], w.from = reading[r].from, w.from # 0,
         w.pending \in {reading[r].pending, new.pending},
         w.audit \in {reading[r].audit, new.audit}, w.graph \in {reading[r].graph, new.graph}
  PROVE  Shape' /\ AuditIsInLog' /\ PanelsInv'
<1>1. /\ reading' \in [Refreshes -> Readings] /\ reading'[r] = w
      /\ \A q \in Refreshes \ {r} : reading'[q] = reading[q]
  BY DEF Shape
<1>2. past' = past /\ Since(r)' = Since(r)
  BY <1>1 DEF worldVars, Since
<1>3. RefreshIsOpenOrIdle(r)'
  BY <1>1, <1>2 DEF PanelsInv, RefreshIsOpenOrIdle
<1>4. AnswersAreRecent(r)
  BY DEF PanelsInv
<1>5. \A list \in w.pending :
        (list = {} /\ "db" \in Faults) \/ \E n \in Since(r) : list = past[n].pending
  <2>1. CASE w.pending = reading[r].pending
    BY <1>4, <2>1 DEF AnswersAreRecent
  <2>2. CASE w.pending = new.pending
    BY <2>2, NowIsRecent DEF Brought
  <2> QED BY <2>1, <2>2
<1>6. \A list \in w.audit :
        (list = {} /\ "db" \in Faults) \/ \E n \in Since(r) : list = past[n].audit
  <2>1. CASE w.audit = reading[r].audit
    BY <1>4, <2>1 DEF AnswersAreRecent
  <2>2. CASE w.audit = new.audit
    BY <2>2, NowIsRecent DEF Brought
  <2> QED BY <2>1, <2>2
<1>7. \A list \in w.graph :
        \E n \in Since(r) :
          list = past[n].graph \/ (list \subseteq past[n].graph /\ "graph" \in Faults)
  <2>1. CASE w.graph = reading[r].graph
    BY <1>4, <2>1 DEF AnswersAreRecent
  <2>2. CASE w.graph = new.graph
    BY <2>2, NowIsRecent DEF Brought
  <2> QED BY <2>1, <2>2
<1>8. AnswersAreRecent(r)'
  BY <1>1, <1>2, <1>5, <1>6, <1>7 DEF AnswersAreRecent
<1>9. w.audit \subseteq SUBSET (1..newest)
  <2>1. reading[r].audit \subseteq SUBSET (1..newest)
    BY DEF AuditIsInLog
  <2>2. new.audit \subseteq SUBSET (1..newest)
    BY DEF Brought, Recent
  <2> QED BY <2>1, <2>2
<1> QED BY <1>1, <1>3, <1>8, <1>9, OneRefresh DEF AuditIsInLog, Shape

\* A request of a refresh comes back with the tables as they are, or with less.
LEMMA GetKeeps ==
  ASSUME Shape, AuditIsInLog, PanelsInv, NEW r \in Refreshes,
         GetPending(r) \/ GetAudit(r) \/ GetRelations(r)
  PROVE  Shape' /\ AuditIsInLog' /\ PanelsInv'
<1>0. /\ UNCHANGED worldVars /\ page' = page /\ calm' = calm
      /\ reading[r].from # 0 /\ reading[r] \in Readings /\ Idle \in Readings
  BY DEF GetPending, GetAudit, GetRelations, Shape, Readings, Idle
<1>1. CASE GetPending(r)
  <2>1. PICK list \in {ListPending} \union (IF Failing("db") THEN {{}} ELSE {}) :
          reading' = [reading EXCEPT ![r].pending = {list}]
    BY <1>1 DEF GetPending
  <2> DEFINE new == [Idle EXCEPT !.pending = {list}]
             w == [reading[r] EXCEPT !.pending = {list}]
  <2>2. list \subseteq TxIds /\ (list = ListPending \/ (list = {} /\ "db" \in Faults))
    BY <2>1 DEF ListPending, Failing
  <2>3. /\ w \in Readings /\ w.from = reading[r].from /\ w.pending = {list}
        /\ w.audit = reading[r].audit /\ w.graph = reading[r].graph
    BY <1>0, <2>2 DEF Readings
  <2>4. new \in Readings /\ new.pending = {list} /\ new.audit = {} /\ new.graph = {}
    BY <2>2 DEF Readings, Idle
  <2>5. Brought(new)
    BY <2>2, <2>4 DEF Brought
  <2>6. reading' = [reading EXCEPT ![r] = w]
    BY <2>1
  <2> HIDE DEF new, w
  <2> QED BY <1>0, <2>3, <2>4, <2>5, <2>6, AnswerKeeps
<1>2. CASE GetAudit(r)
  <2>1. PICK list \in {Recent(PageLimit)} \union (IF Failing("db") THEN {{}} ELSE {}) :
          reading' = [reading EXCEPT ![r].audit = {list}]
    BY <1>2 DEF GetAudit
  <2> DEFINE new == [Idle EXCEPT !.audit = {list}]
             w == [reading[r] EXCEPT !.audit = {list}]
  <2>2. list \subseteq Nat /\ (list = Recent(PageLimit) \/ (list = {} /\ "db" \in Faults))
    BY <2>1 DEF Recent, Failing, Shape
  <2>3. /\ w \in Readings /\ w.from = reading[r].from /\ w.pending = reading[r].pending
        /\ w.audit = {list} /\ w.graph = reading[r].graph
    <3>1. {list} \in SUBSET SUBSET Nat
      BY <2>2
    <3> QED BY <1>0, <3>1 DEF Readings
  <2>4. new \in Readings /\ new.pending = {} /\ new.audit = {list} /\ new.graph = {}
    <3>1. {list} \in SUBSET SUBSET Nat
      BY <2>2
    <3> QED BY <3>1 DEF Readings, Idle
  <2>5. Brought(new)
    BY <2>2, <2>4 DEF Brought
  <2>6. reading' = [reading EXCEPT ![r] = w]
    BY <2>1
  <2> HIDE DEF new, w
  <2> QED BY <1>0, <2>3, <2>4, <2>5, <2>6, AnswerKeeps
<1>3. CASE GetRelations(r)
  <2>1. PICK list \in {edges} \union (IF Failing("graph") THEN SUBSET edges ELSE {}) :
          reading' = [reading EXCEPT ![r].graph = {list}]
    BY <1>3 DEF GetRelations
  <2> DEFINE new == [Idle EXCEPT !.graph = {list}]
             w == [reading[r] EXCEPT !.graph = {list}]
  <2>2. /\ list \subseteq Users \X Records
        /\ list = edges \/ (list \subseteq edges /\ "graph" \in Faults)
    BY <2>1 DEF Failing, Shape, GraphTypeOK
  <2>3. /\ w \in Readings /\ w.from = reading[r].from /\ w.pending = reading[r].pending
        /\ w.audit = reading[r].audit /\ w.graph = {list}
    <3>1. {list} \in SUBSET SUBSET (Users \X Records)
      BY <2>2
    <3> QED BY <1>0, <3>1 DEF Readings
  <2>4. new \in Readings /\ new.pending = {} /\ new.audit = {} /\ new.graph = {list}
    <3>1. {list} \in SUBSET SUBSET (Users \X Records)
      BY <2>2
    <3> QED BY <3>1 DEF Readings, Idle
  <2>5. Brought(new)
    BY <2>2, <2>4 DEF Brought
  <2>6. reading' = [reading EXCEPT ![r] = w]
    BY <2>1
  <2> HIDE DEF new, w
  <2> QED BY <1>0, <2>3, <2>4, <2>5, <2>6, AnswerKeeps
<1> QED BY <1>1, <1>2, <1>3

\* What is drawn is what the refresh holds.
LEMMA DrawShows ==
  ASSUME NEW r \in Refreshes, Draw(r)
  PROVE  /\ page'.pending \in reading[r].pending /\ page'.audit \in reading[r].audit
         /\ page'.graph \in reading[r].graph
<1>1. \A answer : answer # {} => Only(answer) \in answer
  BY DEF Only
<1> QED BY <1>1 DEF Draw, Complete

LEMMA DrawingKeeps ==
  ASSUME Shape, AuditIsInLog, PanelsInv, NEW r \in Refreshes, Draw(r)
  PROVE  Shape' /\ AuditIsInLog' /\ PanelsInv'
<1>1. /\ UNCHANGED worldVars /\ calm' = calm
      /\ reading' = [reading EXCEPT ![r] = Idle] /\ Idle \in Readings
  BY DEF Draw, Idle, Readings
<1>2. /\ reading' \in [Refreshes -> Readings] /\ reading'[r] = Idle
      /\ \A q \in Refreshes \ {r} : reading'[q] = reading[q]
  BY <1>1 DEF Shape
<1>3. /\ page'.audit \subseteq 1..newest /\ page'.pending \subseteq TxIds
      /\ page'.graph \subseteq Users \X Records
  <2>1. reading[r] \in Readings /\ reading[r].audit \subseteq SUBSET (1..newest)
    BY DEF Shape, AuditIsInLog
  <2> QED BY <2>1, DrawShows DEF Readings
<1>4. RefreshIsOpenOrIdle(r)' /\ AnswersAreRecent(r)'
  BY <1>1, <1>2 DEF RefreshIsOpenOrIdle, AnswersAreRecent, Idle, worldVars, Shape
<1> QED BY <1>1, <1>2, <1>3, <1>4, OneRefresh DEF Idle, Shape

LEMMA DashboardStep ==
  Shape /\ AuditIsInLog /\ PanelsInv /\ [Next]_vars => Shape' /\ AuditIsInLog' /\ PanelsInv'
<1> SUFFICES ASSUME Shape, AuditIsInLog, PanelsInv, [Next]_vars
             PROVE  Shape' /\ AuditIsInLog' /\ PanelsInv'
  OBVIOUS
<1>1. CASE CalmDown \/ UNCHANGED vars
  <2>1. UNCHANGED <<file, loaded, rows, edges, newest, past, reading, page>> /\ calm' \in BOOLEAN
    BY <1>1 DEF CalmDown, vars, worldVars, Shape
  <2>2. Shape' /\ AuditIsInLog'
    BY <2>1 DEF Shape, AuditIsInLog, PolicyTypeOK, StoreTypeOK, GraphTypeOK
  <2>3. PanelsInv'
    BY <2>1 DEF PanelsInv, HistoryIsUpToDate, Tables, ListPending, Recent, RefreshIsOpenOrIdle,
       AnswersAreRecent, Since
  <2> QED BY <2>2, <2>3
<1> QED BY <1>1, TablesKeep, TickKeeps, GetKeeps, DrawingKeeps DEF Next, Progress

-----------------------------------------------------------------------------
(* The theorems.                                                            *)

\* The invariant of DashboardInvariant holds, for every value of the constants.
THEOREM PanelsInvariance == Spec => [](Shape /\ AuditIsInLog /\ PanelsInv)
  BY DashboardInit, DashboardStep, PTL DEF Spec

\* Every variable keeps its type; in particular no panel shows a row that is not
\* in its table.
THEOREM DashboardTypeCorrect == Spec => []TypeOK
<1>1. Shape /\ AuditIsInLog /\ PanelsInv => TypeOK
  BY DashboardAssumption
  DEF Shape, AuditIsInLog, PanelsInv, HistoryIsUpToDate, RefreshIsOpenOrIdle, TypeOK, Readings
<1> QED BY <1>1, PanelsInvariance, PTL

\* What a refresh draws was in the tables since it began, or is less where a
\* request failed, however many refreshes overlap (dashboard.go:87-129).
THEOREM PageIsRecent == Spec => PanelsAreRecent
<1> DEFINE Drawn(r) == LET since == reading[r].from..Len(past) IN
       /\ \/ page'.pending = {} /\ "db" \in Faults
          \/ \E n \in since : page'.pending = past[n].pending
       /\ \/ page'.audit = {} /\ "db" \in Faults
          \/ \E n \in since : page'.audit = past[n].audit
       /\ \E n \in since :
            \/ page'.graph = past[n].graph
            \/ page'.graph \subseteq past[n].graph /\ "graph" \in Faults
<1>1. ASSUME Shape, AuditIsInLog, PanelsInv, [Next]_vars,
             NEW r \in Refreshes, reading[r] # Idle, reading'[r] = Idle
      PROVE  Drawn(r)
  <2>1. Draw(r)
    <3>1. /\ reading \in [Refreshes -> Readings]
          /\ \A q \in Refreshes : reading[q] \in Readings
      BY <1>1 DEF Shape
    <3>2. ASSUME NEW q \in Refreshes, GetPending(q) \/ GetAudit(q) \/ GetRelations(q)
          PROVE  FALSE
      <4>1. reading'[q].from = reading[q].from /\ reading[q].from # 0
        BY <3>1, <3>2 DEF GetPending, GetAudit, GetRelations, Readings
      <4>2. q # r => reading'[r] = reading[r]
        BY <3>1, <3>2 DEF GetPending, GetAudit, GetRelations
      <4> QED BY <1>1, <4>1, <4>2 DEF Idle
    <3>3. ASSUME NEW q \in Refreshes, Tick(q)
          PROVE  FALSE
      BY <1>1, <3>3 DEF Tick, Shape
    <3>4. ASSUME NEW q \in Refreshes, Draw(q)
          PROVE  q = r
      BY <1>1, <3>4 DEF Draw, Shape
    <3>5. ParkCall \/ DecideCall \/ WriteLog \/ Administer \/ CalmDown \/ UNCHANGED vars
            => reading' = reading
      BY DEF ParkCall, DecideCall, WriteLog, Administer, Changed, CalmDown, vars
    <3> QED BY <1>1, <3>2, <3>3, <3>4, <3>5 DEF Next, Progress
  <2> QED BY <1>1, <2>1, DrawShows DEF PanelsInv, AnswersAreRecent, Since
<1>2. Shape /\ AuditIsInLog /\ PanelsInv /\ [Next]_vars =>
        [\A r \in Refreshes : reading[r] # Idle /\ reading'[r] = Idle => Drawn(r)]_vars
  BY <1>1
<1> QED BY <1>2, PanelsInvariance, PTL DEF Spec, PanelsAreRecent

=============================================================================
