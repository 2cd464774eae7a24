------------------------------ MODULE AuthzProofs ------------------------------
(***************************************************************************)
(* Theorems about Authz, for every number of checks, requests, texts and   *)
(* crashes and for every set of faults.                                    *)
(***************************************************************************)
EXTENDS AuthzInvariant, StoreProofs

-----------------------------------------------------------------------------
(* Types, as far as the invariant needs them.                               *)

Shape ==
  /\ DOMAIN rows = TxIds
  /\ ask \in [TxIds -> Asks] /\ who \in [TxIds -> Identities \union {NoOne}]
  /\ loaded \in Texts
  /\ pc \in [TxIds -> Steps] /\ ctx \in [TxIds -> Contexts]
  /\ basis \in [TxIds -> Texts \union {NoText}] /\ verdict \in [TxIds -> Verdicts]
  /\ known \in [TxIds -> BOOLEAN] /\ reply \in [TxIds -> Replies]
  /\ answered \subseteq TxIds /\ cards \subseteq TxIds

\* What is read out of a request's tokens and metadata is an identity.
LEMMA RequestsNameIdentities ==
  ASSUME NEW request \in CheckRequests
  PROVE  FromCheckRequest(request) \subseteq Identities
<1>1. ASSUME NEW m \in Maps PROVE FromClaims(m) \in Identities
  <2> USE CheckRequestAssumption
  <2>1. NameIn(m) \in Users
    BY DEF NameIn, Optional
  <2>2. UNION (IF m.roles # {} THEN m.roles ELSE m.realm) \in SUBSET Roles
    BY DEF Optional
  <2> QED BY <2>1, <2>2 DEF FromClaims, Identities
<1>2. ClaimsFromMetadata(request) \subseteq Maps /\ request.token \in Maps
  BY DEF ClaimsFromMetadata, CheckRequests
<1> QED BY <1>1, <1>2 DEF FromCheckRequest

LEMMA ShapeInit == Init => Shape
  BY PolicyAssumption
  DEF Init, Shape, PolicyInit, StoreInit, Steps, Contexts, Verdicts, Replies

\* What GoTo, Return and Decided do to the control state of a check.
LEMMA GoToShape ==
  ASSUME Shape, NEW c \in TxIds, NEW s \in Steps, GoTo(c, s)
  PROVE  /\ pc' \in [TxIds -> Steps] /\ ctx' \in [TxIds -> Contexts]
         /\ pc'[c] = s /\ \A d \in TxIds \ {c} : pc'[d] = pc[d]
  BY DEF Shape, GoTo, AfterStep, Contexts

LEMMA ReturnShape ==
  ASSUME Shape, NEW c \in TxIds, NEW r \in Replies, Return(c, r)
  PROVE  /\ pc' \in [TxIds -> Steps] /\ ctx' \in [TxIds -> Contexts]
         /\ reply' \in [TxIds -> Replies]
         /\ pc'[c] = "answer" /\ reply'[c] = r
         /\ \A d \in TxIds \ {c} : pc'[d] = pc[d] /\ reply'[d] = reply[d]
  BY GoToShape DEF Shape, Return, Steps

LEMMA DecidedShape ==
  ASSUME Shape, NEW c \in TxIds, NEW v \in Verdicts, Decided(c, v)
  PROVE  /\ pc' \in [TxIds -> Steps] /\ ctx' \in [TxIds -> Contexts]
         /\ verdict' \in [TxIds -> Verdicts]
         /\ pc'[c] = "record" /\ verdict'[c] = v
         /\ \A d \in TxIds \ {c} : pc'[d] = pc[d] /\ verdict'[d] = verdict[d]
  BY GoToShape DEF Shape, Decided, Steps

-----------------------------------------------------------------------------
(* A check is only disturbed by its own steps.                              *)

\* A step leaves check d as it is: it may add to the log, and end or cancel d.
Undisturbed(d) ==
  /\ pc'[d] = pc[d] \/ pc'[d] = "dead"
  /\ ask'[d] = ask[d] /\ who'[d] = who[d] /\ basis'[d] = basis[d]
  /\ verdict'[d] = verdict[d] /\ known'[d] = known[d] /\ reply'[d] = reply[d]
  /\ rows'[d] = rows[d] /\ audit \subseteq audit'
  /\ d \in answered' <=> d \in answered
  /\ d \in cards' <=> d \in cards

LEMMA Quiet ==
  ASSUME NEW d \in TxIds, Undisturbed(d), CheckInv(d)
  PROVE  CheckInv(d)'
<1>1. RowOf(d)' = RowOf(d) /\ Call(d)' = Call(d)
  BY DEF RowOf, Call, Undisturbed
<1>2. StepsInOrder(d)'
  BY DEF CheckInv, StepsInOrder, WhoIsNamed, Undisturbed, BeforeRecord, BeforePark, BeforeReply
<1>7. WhoIsNamed(d)'
  BY DEF CheckInv, WhoIsNamed, Undisturbed
<1>3. VerdictIsSound(d)'
  BY <1>1 DEF CheckInv, VerdictIsSound, Undisturbed
<1>4. KnownIsLogged(d)'
  BY DEF CheckInv, KnownIsLogged, Undisturbed
<1>5. RowIsParked(d)'
  BY <1>1 DEF CheckInv, RowIsParked, Undisturbed
<1>6. ReplyIsTrue(d)'
  BY DEF CheckInv, ReplyIsTrue, Undisturbed
<1> QED BY <1>2, <1>3, <1>4, <1>5, <1>6, <1>7 DEF CheckInv

-----------------------------------------------------------------------------
(* Operators.                                                               *)

\* What an answer of the engine says of the call (engine.go:100-177).
LEMMA EngineIsSound ==
  ASSUME NEW t, NEW call, NEW answer
  PROVE  /\ EngineDecide(t, call, answer) \in {"deny", "needs_approval", "allow"}
         /\ EngineDecide(t, call, answer) = "needs_approval" =>
              call.tool \in DestructiveTools /\ CedarAllows(t, call)
         /\ EngineDecide(t, call, answer) = "allow" =>
              call.tool \notin DestructiveTools /\ CedarAllows(t, call)
  BY DEF EngineDecide, Refused

LEMMA CallNamesTool == \A c : Call(c).tool = ask[c].body.tool
  BY DEF Call, Requested

-----------------------------------------------------------------------------
(* Each step of a check keeps the invariant: of the other checks because it *)
(* leaves them alone, of its own conjunct by conjunct.                      *)

LEMMA OthersKeep ==
  ASSUME AuthzInv, NEW c \in TxIds, CheckInv(c)', \A d \in TxIds \ {c} : Undisturbed(d)
  PROVE  AuthzInv'
  BY Quiet DEF AuthzInv

LEMMA ArriveKeeps ==
  ASSUME Shape, AuthzInv, NEW c \in TxIds, Arrive(c)
  PROVE  Shape' /\ AuthzInv'
<1>0. /\ CheckInv(c) /\ pc[c] = "idle"
      /\ ask' = ask /\ basis' = basis /\ known' = known /\ rows' = rows /\ audit' = audit
      /\ loaded' = loaded /\ answered' = answered /\ cards' = cards
  BY DEF AuthzInv, Arrive, policyVars
<1>1. CASE Unresolved(c)
  <2>1. Return(c, "denied") /\ who' = who /\ verdict' = verdict
    BY <1>1 DEF Unresolved
  <2>2. Shape'
    BY <1>0, <2>1, ReturnShape DEF Shape, Replies
  <2>3. \A d \in TxIds \ {c} : Undisturbed(d)
    BY <1>0, <2>1, ReturnShape DEF Undisturbed, Replies
  <2>4. pc'[c] = "answer" /\ reply'[c] = "denied"
    BY <2>1, ReturnShape DEF Replies
  <2>5. CheckInv(c)'
    BY <1>0, <2>1, <2>4
    DEF CheckInv, StepsInOrder, WhoIsNamed, VerdictIsSound, KnownIsLogged, RowIsParked, ReplyIsTrue,
        BeforeRecord, BeforePark, BeforeReply
  <2> QED BY <2>2, <2>3, <2>5, OthersKeep
<1>2. CASE Resolved(c)
  <2>1. PICK i \in FromCheckRequest(ask[c]) : who' = [who EXCEPT ![c] = i]
    BY <1>2 DEF Resolved
  <2>2. /\ who' \in [TxIds -> Identities \union {NoOne}]
        /\ who'[c] = i /\ i # NoOne
        /\ \A d \in TxIds \ {c} : who'[d] = who[d]
    BY <2>1, RequestsNameIdentities, AuthzAssumption DEF AuthzConstants, Shape
  <2>3. CASE ~IsToolCall(ask[c].body) /\ Decided(c, "allow") /\ UNCHANGED reply
    <3>1. Shape'
      BY <1>0, <2>2, <2>3, DecidedShape DEF Shape, Verdicts
    <3>2. \A d \in TxIds \ {c} : Undisturbed(d)
      BY <1>0, <2>2, <2>3, DecidedShape DEF Undisturbed, Verdicts
    <3>3. pc'[c] = "record" /\ verdict'[c] = "allow"
      BY <2>3, DecidedShape DEF Verdicts
    <3>4. CheckInv(c)'
      BY <1>0, <2>1, <2>2, <2>3, <3>3
      DEF CheckInv, StepsInOrder, WhoIsNamed, VerdictIsSound, KnownIsLogged, RowIsParked, ReplyIsTrue,
          BeforeRecord, BeforePark, BeforeReply
    <3> QED BY <3>1, <3>2, <3>4, OthersKeep
  <2>4. CASE GoTo(c, "policy") /\ UNCHANGED <<verdict, reply>>
    <3>1. Shape'
      BY <1>0, <2>2, <2>4, GoToShape DEF Shape, Steps
    <3>2. \A d \in TxIds \ {c} : Undisturbed(d)
      BY <1>0, <2>2, <2>4, GoToShape DEF Undisturbed, Steps
    <3>3. pc'[c] = "policy"
      BY <2>4, GoToShape DEF Steps
    <3>4. CheckInv(c)'
      BY <1>0, <2>1, <2>2, <2>4, <3>3
      DEF CheckInv, StepsInOrder, WhoIsNamed, VerdictIsSound, KnownIsLogged, RowIsParked, ReplyIsTrue,
          BeforeRecord, BeforePark, BeforeReply
    <3> QED BY <3>1, <3>2, <3>4, OthersKeep
  <2> QED BY <1>2, <2>3, <2>4 DEF Resolved
<1> QED BY <1>1, <1>2 DEF Arrive

LEMMA SnapshotKeeps ==
  ASSUME Shape, AuthzInv, NEW c \in TxIds, Snapshot(c)
  PROVE  Shape' /\ AuthzInv'
<1>0. /\ CheckInv(c) /\ pc[c] = "policy"
      /\ ask' = ask /\ who' = who /\ known' = known /\ reply' = reply /\ rows' = rows
      /\ audit' = audit /\ loaded' = loaded /\ answered' = answered /\ cards' = cards
  BY DEF AuthzInv, Snapshot, policyVars
<1>1. /\ basis' \in [TxIds -> Texts \union {NoText}] /\ basis'[c] = loaded
      /\ \A d \in TxIds \ {c} : basis'[d] = basis[d]
  BY DEF Snapshot, Shape
<1>2. Call(c)' = Call(c)
  BY <1>0 DEF Call
<1>3. CASE GoTo(c, "owner") /\ UNCHANGED verdict
  <2>1. Shape'
    BY <1>0, <1>1, <1>3, GoToShape DEF Shape, Steps
  <2>2. \A d \in TxIds \ {c} : Undisturbed(d)
    BY <1>0, <1>1, <1>3, GoToShape DEF Undisturbed, Steps
  <2>3. pc'[c] = "owner"
    BY <1>3, GoToShape DEF Steps
  <2>4. CheckInv(c)'
    BY <1>0, <1>3, <2>3
    DEF CheckInv, StepsInOrder, WhoIsNamed, VerdictIsSound, KnownIsLogged, RowIsParked, ReplyIsTrue,
        BeforeRecord, BeforePark, BeforeReply
  <2> QED BY <2>1, <2>2, <2>4, OthersKeep
<1>4. CASE Decided(c, EngineDecide(loaded, Call(c), "error"))
  <2> DEFINE v == EngineDecide(loaded, Call(c), "error")
  <2>1. v \in Verdicts
    BY EngineIsSound DEF Verdicts
  <2>2. Shape'
    BY <1>0, <1>1, <1>4, <2>1, DecidedShape DEF Shape
  <2>3. \A d \in TxIds \ {c} : Undisturbed(d)
    BY <1>0, <1>1, <1>4, <2>1, DecidedShape DEF Undisturbed
  <2>4. pc'[c] = "record" /\ verdict'[c] = v
    BY <1>4, <2>1, DecidedShape
  <2>5. VerdictIsSound(c)'
    BY <1>0, <1>1, <1>2, <2>4, EngineIsSound, CallNamesTool DEF VerdictIsSound
  <2>6. CheckInv(c)'
    BY <1>0, <2>4, <2>5
    DEF CheckInv, StepsInOrder, WhoIsNamed, KnownIsLogged, RowIsParked, ReplyIsTrue,
        BeforeRecord, BeforePark, BeforeReply
  <2> QED BY <2>2, <2>3, <2>6, OthersKeep
<1> QED BY <1>3, <1>4 DEF Snapshot

LEMMA AskOwnerKeeps ==
  ASSUME Shape, AuthzInv, NEW c \in TxIds, AskOwner(c)
  PROVE  Shape' /\ AuthzInv'
<1>0. /\ CheckInv(c) /\ pc[c] = "owner"
      /\ ask' = ask /\ who' = who /\ basis' = basis /\ known' = known /\ reply' = reply
      /\ rows' = rows /\ audit' = audit /\ loaded' = loaded /\ answered' = answered
      /\ cards' = cards /\ Call(c)' = Call(c)
  BY DEF AuthzInv, AskOwner, policyVars, Call
<1>1. PICK answer \in OwnerAnswers(Call(c), ctx[c]) :
        Decided(c, EngineDecide(basis[c], Call(c), answer))
  BY DEF AskOwner
<1> DEFINE v == EngineDecide(basis[c], Call(c), answer)
<1>2. v \in Verdicts
  BY EngineIsSound DEF Verdicts
<1>3. Shape'
  BY <1>0, <1>1, <1>2, DecidedShape DEF Shape
<1>4. \A d \in TxIds \ {c} : Undisturbed(d)
  BY <1>0, <1>1, <1>2, DecidedShape DEF Undisturbed
<1>5. pc'[c] = "record" /\ verdict'[c] = v
  BY <1>1, <1>2, DecidedShape
<1>6. VerdictIsSound(c)'
  BY <1>0, <1>5, EngineIsSound, CallNamesTool DEF VerdictIsSound
<1>7. CheckInv(c)'
  BY <1>0, <1>5, <1>6
  DEF CheckInv, StepsInOrder, WhoIsNamed, KnownIsLogged, RowIsParked, ReplyIsTrue,
      BeforeRecord, BeforePark, BeforeReply
<1> QED BY <1>3, <1>4, <1>7, OthersKeep

LEMMA RecordDecisionKeeps ==
  ASSUME Shape, AuthzInv, NEW c \in TxIds, RecordDecision(c)
  PROVE  Shape' /\ AuthzInv'
<1>0. /\ CheckInv(c) /\ pc[c] = "record"
      /\ ask' = ask /\ who' = who /\ basis' = basis /\ verdict' = verdict
      /\ rows' = rows /\ loaded' = loaded /\ answered' = answered /\ cards' = cards
      /\ Call(c)' = Call(c)
  BY DEF AuthzInv, RecordDecision, policyVars, Call
<1>1. PICK out \in RecordOutcomes(c) :
        /\ Record(c, c, verdict[c], basis[c], out)
        /\ known' = [known EXCEPT ![c] = (out = "ok")]
  BY DEF RecordDecision
<1>2. /\ known' \in [TxIds -> BOOLEAN] /\ known'[c] = (out = "ok")
      /\ \A d \in TxIds \ {c} : known'[d] = known[d]
  BY <1>1 DEF Shape
<1>3. audit \subseteq audit' /\ KnownIsLogged(c)'
  <2>1. CASE out = "error"
    BY <1>1, <1>2, <2>1 DEF Record, KnownIsLogged
  <2>2. CASE out # "error"
    <3> DEFINE r == [id |-> c, about |-> c, decision |-> verdict[c], version |-> loaded,
                     basis |-> basis[c]]
    <3>1. audit' = audit \union {r}
      BY <1>1, <2>2 DEF Record
    <3>2. r \in audit' /\ r.id = c /\ r.decision = verdict'[c] /\ r.basis = basis'[c]
      BY <1>0, <3>1
    <3> QED BY <3>1, <3>2 DEF KnownIsLogged
  <2> QED BY <2>1, <2>2
<1>4. CASE \E r \in {"allow", "denied"} :
             Return(c, r) /\ verdict[c] = IF r = "allow" THEN "allow" ELSE "deny"
  <2>1. PICK r \in {"allow", "denied"} :
          Return(c, r) /\ verdict[c] = IF r = "allow" THEN "allow" ELSE "deny"
    BY <1>4
  <2>2. r \in Replies
    BY DEF Replies
  <2>3. Shape'
    BY <1>0, <1>2, <2>1, <2>2, ReturnShape DEF Shape
  <2>4. \A d \in TxIds \ {c} : Undisturbed(d)
    BY <1>0, <1>2, <1>3, <2>1, <2>2, ReturnShape DEF Undisturbed
  <2>5. pc'[c] = "answer" /\ reply'[c] = r
    BY <2>1, <2>2, ReturnShape
  <2>6. CheckInv(c)'
    BY <1>0, <1>3, <2>1, <2>5
    DEF CheckInv, StepsInOrder, WhoIsNamed, VerdictIsSound, RowIsParked, ReplyIsTrue,
        BeforeRecord, BeforePark, BeforeReply
  <2> QED BY <2>3, <2>4, <2>6, OthersKeep
<1>5. CASE verdict[c] = "needs_approval" /\ GoTo(c, "park") /\ UNCHANGED reply
  <2>1. Shape'
    BY <1>0, <1>2, <1>5, GoToShape DEF Shape, Steps
  <2>2. \A d \in TxIds \ {c} : Undisturbed(d)
    BY <1>0, <1>2, <1>3, <1>5, GoToShape DEF Undisturbed, Steps
  <2>3. pc'[c] = "park"
    BY <1>5, GoToShape DEF Steps
  <2>4. CheckInv(c)'
    BY <1>0, <1>3, <1>5, <2>3
    DEF CheckInv, StepsInOrder, WhoIsNamed, VerdictIsSound, RowIsParked, ReplyIsTrue,
        BeforeRecord, BeforePark, BeforeReply
  <2> QED BY <2>1, <2>2, <2>4, OthersKeep
<1> QED BY <1>4, <1>5 DEF RecordDecision

\* Park leaves the other rows alone, and writes the call of its check or nothing.
LEMMA ParkWritesRow ==
  ASSUME Shape, NEW c \in TxIds, rows[c] = NoRow, NEW out, Park(c, Call(c), out)
  PROVE  /\ DOMAIN rows' = TxIds /\ \A d \in TxIds \ {c} : rows'[d] = rows[d]
         /\ rows'[c] \in {NoRow, RowOf(c)}
         /\ out # "error" => rows'[c] = RowOf(c)
<1>1. CASE out = "error"
  BY <1>1 DEF Park, Shape
<1>2. CASE out # "error"
  <2> DEFINE half == [rows EXCEPT ![c].state = "pending"]
  <2>1. rows' = [half EXCEPT ![c].call = Call(c)]
    BY <1>2 DEF Park
  <2>2. DOMAIN half = TxIds /\ \A d \in TxIds \ {c} : half[d] = rows[d]
    BY DEF Shape
  <2>3. half[c] = [NoRow EXCEPT !.state = "pending"]
    BY DEF Shape
  <2>4. rows'[c] = [half[c] EXCEPT !.call = Call(c)]
    BY <2>1, <2>2
  <2>5. rows'[c] = RowOf(c)
    BY <2>3, <2>4 DEF NoRow, RowOf
  <2> QED BY <2>1, <2>2, <2>5
<1> QED BY <1>1, <1>2

LEMMA ParkCallKeeps ==
  ASSUME Shape, AuthzInv, NEW c \in TxIds, ParkCall(c)
  PROVE  Shape' /\ AuthzInv'
<1>0. /\ CheckInv(c) /\ pc[c] = "park" /\ rows[c] = NoRow
      /\ ask' = ask /\ who' = who /\ basis' = basis /\ verdict' = verdict /\ known' = known
      /\ audit' = audit /\ loaded' = loaded /\ answered' = answered /\ cards' = cards
      /\ RowOf(c)' = RowOf(c) /\ RowOf(c) # NoRow
  BY DEF AuthzInv, CheckInv, StepsInOrder, WhoIsNamed, BeforePark, ParkCall, policyVars, Call, RowOf, NoRow
<1>1. /\ DOMAIN rows' = TxIds /\ \A d \in TxIds \ {c} : rows'[d] = rows[d]
      /\ \/ rows'[c] = NoRow
         \/ known[c] /\ rows'[c] = RowOf(c)
  BY <1>0, ParkWritesRow DEF ParkCall, Shape
<1>2. \/ Return(c, "error")
      \/ rows'[c] = RowOf(c) /\ Parked(c)
  BY <1>0, ParkWritesRow DEF ParkCall
<1>3. CASE \E r \in {"error", "pending"} :
             Return(c, r) /\ (r = "pending" => rows'[c] = RowOf(c))
  <2>1. PICK r \in {"error", "pending"} :
          Return(c, r) /\ (r = "pending" => rows'[c] = RowOf(c))
    BY <1>3
  <2>2. r \in Replies
    BY DEF Replies
  <2>3. Shape'
    BY <1>0, <1>1, <2>1, <2>2, ReturnShape DEF Shape
  <2>4. \A d \in TxIds \ {c} : Undisturbed(d)
    BY <1>0, <1>1, <2>1, <2>2, ReturnShape DEF Undisturbed
  <2>5. pc'[c] = "answer" /\ reply'[c] = r
    BY <2>1, <2>2, ReturnShape
  <2>6. StepsInOrder(c)' /\ WhoIsNamed(c)' /\ KnownIsLogged(c)'
    BY <1>0, <2>5
    DEF CheckInv, StepsInOrder, WhoIsNamed, KnownIsLogged, BeforeRecord, BeforePark, BeforeReply
  <2>7. VerdictIsSound(c)'
    BY <1>0 DEF CheckInv, VerdictIsSound, Call
  <2>8. RowIsParked(c)' /\ ReplyIsTrue(c)'
    BY <1>0, <1>1, <2>1, <2>5
    DEF CheckInv, StepsInOrder, WhoIsNamed, RowIsParked, ReplyIsTrue, NoRow, RowOf
  <2> QED BY <2>3, <2>4, <2>6, <2>7, <2>8, OthersKeep DEF CheckInv
<1>4. CASE rows'[c] = RowOf(c) /\ GoTo(c, "slack") /\ UNCHANGED reply
  <2>1. Shape'
    BY <1>0, <1>1, <1>4, GoToShape DEF Shape, Steps
  <2>2. \A d \in TxIds \ {c} : Undisturbed(d)
    BY <1>0, <1>1, <1>4, GoToShape DEF Undisturbed, Steps
  <2>3. pc'[c] = "slack"
    BY <1>4, GoToShape DEF Steps
  <2>4. StepsInOrder(c)' /\ WhoIsNamed(c)' /\ KnownIsLogged(c)'
    BY <1>0, <1>4, <2>3
    DEF CheckInv, StepsInOrder, WhoIsNamed, KnownIsLogged, BeforeRecord, BeforePark, BeforeReply, NoRow, RowOf
  <2>5. VerdictIsSound(c)'
    BY <1>0 DEF CheckInv, VerdictIsSound, Call
  <2>6. RowIsParked(c)' /\ ReplyIsTrue(c)'
    BY <1>0, <1>1, <1>4
    DEF CheckInv, StepsInOrder, WhoIsNamed, RowIsParked, ReplyIsTrue, BeforeReply, BeforePark, NoRow, RowOf
  <2> QED BY <2>1, <2>2, <2>4, <2>5, <2>6, OthersKeep DEF CheckInv
<1> QED BY <1>2, <1>3, <1>4 DEF Parked

LEMMA PostToSlackKeeps ==
  ASSUME Shape, AuthzInv, NEW c \in TxIds, PostToSlack(c)
  PROVE  Shape' /\ AuthzInv'
<1>0. /\ CheckInv(c) /\ pc[c] = "slack" /\ Return(c, "pending")
      /\ ask' = ask /\ who' = who /\ basis' = basis /\ verdict' = verdict /\ known' = known
      /\ rows' = rows /\ audit' = audit /\ loaded' = loaded /\ answered' = answered
      /\ cards' \in {cards, cards \union {c}} /\ Call(c)' = Call(c)
  BY DEF AuthzInv, PostToSlack, policyVars, Call
<1>1. Shape'
  BY <1>0, ReturnShape DEF Shape, Replies
<1>2. \A d \in TxIds \ {c} : Undisturbed(d)
  BY <1>0, ReturnShape DEF Undisturbed, Replies
<1>3. pc'[c] = "answer" /\ reply'[c] = "pending"
  BY <1>0, ReturnShape DEF Replies
<1>4. CheckInv(c)'
  BY <1>0, <1>3
  DEF CheckInv, StepsInOrder, WhoIsNamed, VerdictIsSound, KnownIsLogged, RowIsParked, ReplyIsTrue, RowOf,
      BeforeRecord, BeforePark, BeforeReply
<1> QED BY <1>1, <1>2, <1>4, OthersKeep

LEMMA AnswerKeeps ==
  ASSUME Shape, AuthzInv, NEW c \in TxIds, Answer(c)
  PROVE  Shape' /\ AuthzInv'
<1>0. /\ CheckInv(c) /\ pc[c] = "answer"
      /\ pc' = [pc EXCEPT ![c] = "done"] /\ ctx' = [ctx EXCEPT ![c] = "live"]
      /\ ask' = ask /\ who' = who /\ basis' = basis /\ verdict' = verdict /\ known' = known
      /\ reply' = reply /\ rows' = rows /\ audit' = audit /\ loaded' = loaded /\ cards' = cards
      /\ answered' \in {answered, answered \union {c}} /\ Call(c)' = Call(c)
  BY DEF AuthzInv, Answer, policyVars, Call
<1>1. Shape'
  BY <1>0 DEF Shape, Steps, Contexts
<1>2. \A d \in TxIds \ {c} : Undisturbed(d)
  BY <1>0 DEF Shape, Undisturbed
<1>3. pc'[c] = "done"
  BY <1>0 DEF Shape
<1>4. CheckInv(c)'
  BY <1>0, <1>3
  DEF CheckInv, StepsInOrder, WhoIsNamed, VerdictIsSound, KnownIsLogged, RowIsParked, ReplyIsTrue, RowOf,
      BeforeRecord, BeforePark, BeforeReply
<1> QED BY <1>1, <1>2, <1>4, OthersKeep

\* All that the invariant looks at; the policy file is not among it.
seenVars == <<loaded, rows, audit, ask, checkVars, answered, cards>>

\* Whatever else happens, no check is further than before.
LEMMA RestKeeps ==
  ASSUME Shape, AuthzInv,
         \/ \E c \in TxIds : Disconnect(c)
         \/ Reload \/ Administer \/ Crash \/ Restart \/ UNCHANGED seenVars
  PROVE  Shape' /\ AuthzInv'
<1>1. /\ ask' = ask /\ who' = who /\ basis' = basis /\ verdict' = verdict /\ known' = known
      /\ reply' = reply /\ rows' = rows /\ audit' = audit /\ answered' = answered
      /\ cards' = cards
  BY DEF Disconnect, Reload, Administer, Crash, Restart, seenVars, checkVars, policyVars, processVars
<1>2. /\ loaded' \in Texts
      /\ pc' \in [TxIds -> Steps] /\ ctx' \in [TxIds -> Contexts]
      /\ \A d \in TxIds : pc'[d] \in {pc[d], "dead"}
  <2>1. CASE \E c \in TxIds : Disconnect(c)
    BY <2>1 DEF Shape, Disconnect, Contexts, policyVars
  <2>2. CASE Reload \/ Restart
    BY <2>2 DEF Shape, Reload, Restart, SwapPolicies, checkVars
  <2>3. CASE Crash
    BY <2>3 DEF Shape, Crash, policyVars, Steps, Contexts
  <2>4. CASE Administer \/ UNCHANGED seenVars
    BY <2>4 DEF Shape, Administer, seenVars, policyVars, checkVars
  <2> QED BY <2>1, <2>2, <2>3, <2>4
<1>3. Shape'
  BY <1>1, <1>2 DEF Shape
<1>4. \A d \in TxIds : Undisturbed(d)
  BY <1>1, <1>2 DEF Undisturbed
<1> QED BY <1>3, <1>4, Quiet DEF AuthzInv

LEMMA CheckInit == Init => Shape /\ AuthzInv
<1>1. ASSUME Init, NEW c \in TxIds PROVE CheckInv(c)
  BY <1>1
  DEF Init, StoreInit, CheckInv, StepsInOrder, WhoIsNamed, VerdictIsSound, KnownIsLogged,
      RowIsParked, ReplyIsTrue, NoRow, BeforeRecord, BeforePark, BeforeReply
<1> QED BY <1>1, ShapeInit DEF AuthzInv

LEMMA CheckStep ==
  ASSUME Shape, AuthzInv, Next \/ UNCHANGED seenVars
  PROVE  Shape' /\ AuthzInv'
<1>1. ASSUME NEW c \in TxIds, Arrive(c) \/ Step(c) PROVE Shape' /\ AuthzInv'
  BY <1>1, ArriveKeeps, SnapshotKeeps, AskOwnerKeeps, RecordDecisionKeeps, ParkCallKeeps,
     PostToSlackKeeps, AnswerKeeps DEF Step
<1> QED BY <1>1, RestKeeps DEF Next

-----------------------------------------------------------------------------
(* The rest of the types, which needs the invariant: a call is parked only  *)
(* for somebody and only if it is destructive.                              *)

Tables == PolicyTypeOK /\ GraphTypeOK /\ StoreTypeOK /\ AuditTypeOK /\ crashes \in 0..MaxCrashes
            /\ up \in BOOLEAN

LEMMA TablesInit == Init => Tables
  BY GraphAssumption, PolicyAssumption, AuthzAssumption
  DEF AuthzConstants, Init, Tables, PolicyInit, GraphInit, StoreInit, AuditInit, PolicyTypeOK, GraphTypeOK,
      StoreTypeOK, AuditTypeOK, Rows, RowStates, RowResults

\* A check parks a call of one of the kinds that a human can approve.
LEMMA ParksAnAttempt ==
  ASSUME Shape, AuthzInv, NEW c \in TxIds, pc[c] = "park"
  PROVE  Call(c) \in Attempts
<1>1. ask[c] \in Asks /\ who[c] \in Identities /\ ask[c].body.tool \in DestructiveTools
  BY DEF Shape, AuthzInv, CheckInv, StepsInOrder, WhoIsNamed, VerdictIsSound
<1> QED BY <1>1, AuthzAssumption DEF AuthzConstants, Call

LEMMA TablesStep ==
  ASSUME Tables, Shape, AuthzInv, [Next]_vars
  PROVE  Tables'
<1> USE DEF Tables
<1>1. ASSUME NEW c \in TxIds, RecordDecision(c) PROVE Tables'
  <2>1. PICK out \in RecordOutcomes(c) : Record(c, c, verdict[c], basis[c], out)
    BY <1>1 DEF RecordDecision
  <2>2. verdict[c] \in CheckDecisions /\ basis[c] \in Texts \union {NoText} /\ loaded \in Texts
    BY <1>1 DEF RecordDecision, CheckDecisions, Shape
  <2>3. AuditTypeOK'
    BY <2>1, <2>2 DEF Record, AuditTypeOK, AuditRows
  <2>4. UNCHANGED <<file, loaded, edges, rows, up, crashes>>
    BY <1>1 DEF RecordDecision, policyVars, processVars
  <2> QED BY <2>3, <2>4 DEF PolicyTypeOK, GraphTypeOK, StoreTypeOK
<1>2. ASSUME NEW c \in TxIds, ParkCall(c) PROVE Tables'
  <2>1. Call(c) \in Attempts /\ ctx[c] \in Contexts
    BY <1>2, ParksAnAttempt DEF ParkCall, Shape
  <2>2. UNCHANGED rows \/ \E out \in Outcomes(ctx[c]) : Park(c, Call(c), out)
    BY <1>2 DEF ParkCall
  <2>3. StoreTypeOK'
    BY <2>1, <2>2, OutcomesAreResults, RowsType DEF StoreTypeOK
  <2>4. UNCHANGED <<file, loaded, edges, audit, up, crashes>>
    BY <1>2 DEF ParkCall, policyVars, processVars
  <2> QED BY <2>3, <2>4 DEF PolicyTypeOK, GraphTypeOK, AuditTypeOK
<1>3. CASE Reload \/ Restart
  <2>1. PolicyTypeOK' /\ up' \in BOOLEAN
    BY <1>3 DEF Reload, Restart, SwapPolicies, PolicyTypeOK, processVars
  <2>2. GraphTypeOK'
    BY <1>3, GraphAssumption DEF Reload, Restart, SeedGraph, GraphTypeOK
  <2>3. UNCHANGED <<rows, audit, crashes>>
    BY <1>3 DEF Reload, Restart, processVars
  <2> QED BY <2>1, <2>2, <2>3 DEF StoreTypeOK, AuditTypeOK
<1>4. CASE Administer
  BY <1>4 DEF Administer, AdministerGraph, Grant, Revoke, GraphTypeOK, PolicyTypeOK, StoreTypeOK,
     AuditTypeOK, policyVars, processVars
<1>5. CASE Crash
  <2>1. up' = FALSE /\ crashes' \in 0..MaxCrashes
    BY <1>5, AuthzAssumption DEF AuthzConstants, Crash
  <2>2. UNCHANGED <<file, loaded, edges, rows, audit>>
    BY <1>5 DEF Crash, policyVars
  <2> QED BY <2>1, <2>2 DEF PolicyTypeOK, GraphTypeOK, StoreTypeOK, AuditTypeOK
<1>6. ASSUME NEW c \in TxIds,
             \/ Arrive(c) \/ Snapshot(c) \/ AskOwner(c) \/ PostToSlack(c) \/ Answer(c)
             \/ Disconnect(c)
      PROVE  Tables'
  <2>1. UNCHANGED <<file, loaded, edges, rows, audit, up, crashes>>
    BY <1>6 DEF Arrive, Snapshot, AskOwner, PostToSlack, Answer, Disconnect, policyVars,
       processVars
  <2> QED BY <2>1 DEF PolicyTypeOK, GraphTypeOK, StoreTypeOK, AuditTypeOK
<1>7. CASE UNCHANGED vars
  <2>1. UNCHANGED <<file, loaded, edges, rows, audit, up, crashes>>
    BY <1>7 DEF vars, policyVars, processVars
  <2> QED BY <2>1 DEF PolicyTypeOK, GraphTypeOK, StoreTypeOK, AuditTypeOK
<1> QED BY <1>1, <1>2, <1>3, <1>4, <1>5, <1>6, <1>7 DEF Next, Step

-----------------------------------------------------------------------------
(* What follows from the invariant.                                         *)

LEMMA LinkedByInvariant == AuthzInv => ParkedIsLinked
<1> SUFFICES ASSUME AuthzInv, NEW c \in TxIds, rows[c].state # "absent"
             PROVE  \E r \in audit :
                      /\ r.id = c /\ r.decision = "needs_approval"
                      /\ rows[c].call.tool \in DestructiveTools
                      /\ CedarAllows(r.basis, rows[c].call)
  BY DEF ParkedIsLinked
<1>1. rows[c] = RowOf(c) /\ known[c] /\ verdict[c] = "needs_approval"
  BY DEF AuthzInv, CheckInv, RowIsParked, NoRow
<1>2. PICK r \in audit : r.id = c /\ r.decision = verdict[c] /\ r.basis = basis[c]
  BY <1>1 DEF AuthzInv, CheckInv, KnownIsLogged
<1>3. rows[c].call = Call(c)
  BY <1>1 DEF RowOf
<1>4. rows[c].call.tool \in DestructiveTools /\ CedarAllows(basis[c], rows[c].call)
  BY <1>1, <1>3, CallNamesTool DEF AuthzInv, CheckInv, VerdictIsSound
<1> QED BY <1>1, <1>2, <1>4

LEMMA TrueByInvariant == Shape /\ AuthzInv => RepliesAreTrue
<1> SUFFICES ASSUME Shape, AuthzInv, NEW c \in answered
             PROVE  /\ reply[c] = "allow" =>
                          ~IsToolCall(ask[c].body)
                            \/ (Call(c).tool \notin DestructiveTools
                                  /\ CedarAllows(basis[c], Call(c)))
                    /\ reply[c] = "pending" => rows[c].state # "absent"
                    /\ reply[c] = "denied" => rows[c].state = "absent"
  BY DEF RepliesAreTrue
<1>1. CheckInv(c)
  BY DEF Shape, AuthzInv
<1>2. rows[c] # NoRow => rows[c].state = "pending"
  BY <1>1 DEF CheckInv, RowIsParked, RowOf
<1>3. rows[c] = NoRow => rows[c].state = "absent"
  BY DEF NoRow
<1> QED
  BY <1>1, <1>2, <1>3, CallNamesTool DEF CheckInv, ReplyIsTrue, VerdictIsSound

LEMMA CardsByInvariant == Shape /\ AuthzInv => CardsHaveRows
  BY DEF Shape, AuthzInv, CheckInv, ReplyIsTrue, RowIsParked, RowOf, CardsHaveRows

\* What fromClaims reads out of an object that carries the caller is the caller.
LEMMA ReadsCaller ==
  ASSUME NEW m, NEW caller \in Identities, Carries(m, caller)
  PROVE  FromClaims(m) = caller
<1>1. NameIn(m) = caller.user
  BY DEF Carries, NameIn
<1>2. UNION (IF m.roles # {} THEN m.roles ELSE m.realm) = caller.roles
  BY DEF Carries
<1> QED BY <1>1, <1>2 DEF FromClaims, Identities

LEMMA CallerByInvariant ==
  ASSUME TokensCarryCallers, Shape, AuthzInv
  PROVE  ActsForCaller
<1> SUFFICES ASSUME NEW c \in TxIds, who[c] # NoOne, MetadataNames(ask[c])
             PROVE  who[c] = ask[c].caller
  BY DEF ActsForCaller
<1>1. ask[c] \in Asks /\ ask[c].caller \in Identities /\ who[c] \in FromCheckRequest(ask[c])
  BY AuthzAssumption DEF AuthzConstants, Shape, AuthzInv, CheckInv, WhoIsNamed, CheckRequests
<1>2. CASE ClaimsFromMetadata(ask[c]) # {}
  <2>1. PICK m \in ClaimsFromMetadata(ask[c]) : who[c] = FromClaims(m)
    BY <1>1, <1>2 DEF FromCheckRequest
  <2>2. Carries(m, ask[c].caller)
    BY <2>1 DEF MetadataNames
  <2> QED BY <1>1, <2>1, <2>2, ReadsCaller
<1>3. CASE ClaimsFromMetadata(ask[c]) = {}
  <2>1. who[c] = FromClaims(ask[c].token)
    BY <1>1, <1>3 DEF FromCheckRequest
  <2>2. Carries(ask[c].token, ask[c].caller)
    BY <1>1 DEF TokensCarryCallers
  <2> QED BY <1>1, <2>1, <2>2, ReadsCaller
<1> QED BY <1>2, <1>3

-----------------------------------------------------------------------------
(* Theorems.                                                                *)

\* AuthzInv holds at the start and is kept by every step of Check, server.go:62-135.
THEOREM CheckInvariance == Spec => [](Shape /\ AuthzInv)
<1>1. Init => Shape /\ AuthzInv
  BY CheckInit
<1>2. Shape /\ AuthzInv /\ [Next]_vars => (Shape /\ AuthzInv)'
  BY CheckStep DEF vars, seenVars, policyVars
<1> QED BY <1>1, <1>2, PTL DEF Spec

\* A parked call has the audit row of its attempt under its id, and that row asks
\* for an approval (server.go:93-110, store.go:37-38).
THEOREM ParkedCallsAreLinked == Spec => []ParkedIsLinked
  BY LinkedByInvariant, CheckInvariance, PTL

\* What the gateway is told is so: allowed calls were allowed by a policy, a
\* pending one has its row, a denied one has none (server.go:95-134).
THEOREM TruthfulReplies == Spec => []RepliesAreTrue
  BY TrueByInvariant, CheckInvariance, PTL

\* A card in Slack names a row that exists (server.go:103-118).
THEOREM CardsNameRows == Spec => []CardsHaveRows
  BY CardsByInvariant, CheckInvariance, PTL

\* Every variable keeps its type; in particular what a check parks is a call of a
\* kind that humans decide on, and what it logs a row as the table has them.
THEOREM CheckTypeCorrect == Spec => []TypeOK
<1>1. Init => Tables
  BY TablesInit
<1>2. Tables /\ (Shape /\ AuthzInv) /\ [Next]_vars => Tables'
  BY TablesStep
<1>3. Tables /\ Shape => TypeOK
  BY DEF Tables, Shape, TypeOK, StoreTypeOK
<1> QED BY <1>1, <1>2, <1>3, CheckInvariance, PTL DEF Spec

\* If every token carries its caller, and so do all the claims a walk of the metadata
\* may come upon, a check acts for the caller of its request, whichever of them the
\* walk comes upon first (identity.go:38-135).
THEOREM CallersAreNotConfused ==
  ASSUME TokensCarryCallers
  PROVE  Spec => []ActsForCaller
<1>1. Shape /\ AuthzInv => ActsForCaller
  BY CallerByInvariant
<1> QED BY <1>1, CheckInvariance, PTL

=============================================================================
