------------------------------ MODULE SlackCards ------------------------------
(***************************************************************************)
(* What humans see of their clicks: the handlers of POST /decide and       *)
(* POST /slack/interactive (internal/approval/http.go) around the          *)
(* executor, and the Slack message of a parked call                        *)
(* (internal/slack/slack.go).                                              *)
(*                                                                         *)
(* A browser gets the outcome of its click in the reply.  Slack gets an    *)
(* empty reply; the outcome follows in a request of its own, sent by a     *)
(* goroutine per click that nobody waits for, and replaces the message.    *)
(***************************************************************************)
EXTENDS Executor, Integers

CONSTANTS
  Posts,           \* the requests that come in at the two endpoints
  SecretIsSet      \* SLACK_SIGNING_SECRET is configured

VARIABLES
  post,      \* what each request carries, besides its job
  answer,    \* the outcome Approve or Deny returned, whoever is told
  sending,   \* the requests whose goroutine runs Respond
  card       \* what the Slack message of each parked call shows

slackVars == <<post, answer, sending, card>>
allVars == <<vars, slackVars>>

Minutes == -6..6

\* `names': the form value or the first action is "approve" or "deny"; `signed'
\* with the secret, `age' by its timestamp; `decodes': the payload is JSON with
\* an action; `url': it has a response_url.
PostBodies == [endpoint : {"decide", "slack"}, names : BOOLEAN, signed : BOOLEAN,
               age : Minutes, decodes : BOOLEAN, url : BOOLEAN]

ASSUME SlackAssumption == Posts \subseteq PostBodies /\ SecretIsSet \in BOOLEAN

\* How a click ended as far as its human is told.
Verdicts == {"executed", "failed", "voided", "denied"}
Answers == Verdicts \union {"already", "error"}

SlackTypeOK ==
  /\ TypeOK
  /\ post \in [Requests -> Posts]
  /\ answer \in [Requests -> Answers \union {"none"}]
  /\ sending \subseteq Requests
  /\ card \in [TxIds -> Answers \union {"none", "buttons"}]

SlackInit ==
  /\ Init
  /\ post \in [Requests -> Posts]
  /\ answer = [h \in Requests |-> "none"]
  /\ sending = {}
  /\ card = [tx \in TxIds |-> "none"]

-----------------------------------------------------------------------------

\* VerifySignature: up to five minutes old, or ahead.
Verified(p) == p.signed /\ p.age \in -5..5

\* The handlers come to the executor; whatever they turn away changes nothing.
Admitted(p) ==
  /\ p.names
  /\ p.endpoint = "slack" => p.decodes /\ (SecretIsSet => Verified(p))

\* Slack delivers a request once more when it got no reply in time.
Redelivered(h) ==
  /\ "slack" \in Faults
  /\ \E g \in Requests \ {h} : pc[g] # "idle" /\ post[g] = post[h] /\ job[g] = job[h]

\* A human presses a button of the page, or of a message that shows buttons; the
\* request may be on its way for as long as its first step takes.
Press(h) ==
  /\ Admitted(post[h])
  /\ post[h].endpoint = "slack" => card[Tx(h)] = "buttons" \/ Redelivered(h)
  /\ Receive(h)
  /\ UNCHANGED slackVars

\* Mutant of Told: a failed tool call ends in refuse, too.
ToldVoid(p) == CASE p = "executed" -> "executed"
                 [] p = "denied" -> "denied"
                 [] OTHER -> "voided"

\* The outcome of each way an approval or a denial ends.
Told(p) == CASE p = "executed" -> "executed"
             [] p = "denied" -> "denied"
             [] p = "void" -> "voided"
             [] OTHER -> "failed"

\* What Approve or Deny may return with the step that h is about to take.  A
\* decision that found no pending row is told from one that failed; where the
\* row cannot be read back, Deny says "denied" all the same.
MayAnswer(h, a) ==
  \/ pc[h] = "decide" /\ a = "already" /\ ctx[h] = "live" /\ rows[Tx(h)].state # "pending"
  \/ pc[h] = "decide" /\ a = "error" /\ Outcomes(ctx[h]) # {"ok"}
  \/ pc[h] = "get" /\ a = IF job[h].button = "deny" THEN "denied" ELSE "error"
  \/ pc[h] = "audit" /\ a = Told(plan[h])

\* A step of Approve or Deny; after the last one slackInteractive starts Respond.
Proceed(h) ==
  /\ Step(h)
  /\ \/ pc'[h] # "done" /\ UNCHANGED <<answer, sending>>
     \/ /\ pc'[h] = "done"
        /\ \E a \in Answers : MayAnswer(h, a) /\ answer' = [answer EXCEPT ![h] = a]
        /\ sending' = IF post[h].endpoint = "slack" /\ post[h].url
                      THEN sending \union {h} ELSE sending
  /\ UNCHANGED <<post, card>>

\* PostApprovalRequest, after the call was parked (see Authz).
PostCard(tx) ==
  /\ up /\ card[tx] = "none" /\ rows[tx].state # "absent"
  /\ card' = [card EXCEPT ![tx] = "buttons"]
  /\ UNCHANGED <<vars, post, answer, sending>>

\* Respond has no context and no retry, and its error is ignored; Slack shows what
\* reached it last.
Respond(h) ==
  /\ h \in sending
  /\ sending' = sending \ {h}
  /\ \/ card' = [card EXCEPT ![Tx(h)] = answer[h]]
     \/ "slack" \in Faults /\ UNCHANGED card
  /\ UNCHANGED <<vars, post, answer>>

\* What goes on outside the two handlers.
Others ==
  /\ (\E h \in Requests : ToolServe(h) \/ Disconnect(h)) \/ EditFile \/ Administer \/ ParkCall
       \/ Restart
  /\ UNCHANGED slackVars

\* The goroutines of Respond die with the process.
ProcessCrash ==
  /\ Crash
  /\ sending' = {}
  /\ UNCHANGED <<post, answer, card>>

SlackNext ==
  \/ \E h \in Requests : Press(h) \/ Proceed(h) \/ Respond(h)
  \/ \E tx \in TxIds : PostCard(tx)
  \/ Others \/ ProcessCrash

SlackSpec == SlackInit /\ [][SlackNext]_allVars

-----------------------------------------------------------------------------
(* Properties.                                                              *)

\* What is true of an answer to h, from the moment it is given on.
IsTrue(a, h) ==
  CASE a = "executed" -> tool[h] = "ran"
    [] a \in {"voided", "denied"} ->
         \A g \in Requests : ~SentFor(g, Tx(h))
    [] a = "error" -> tool[h] = "none"
    [] OTHER -> TRUE

\* What humans are told is so and stays so: "approved and executed" only if the
\* tool ran the call, "voided" and "denied" only if nothing was or will be sent,
\* "error" only if this click sent nothing, and a message that says "already
\* decided" only where no click can decide any more (executor.go:37-101,
\* http.go:164-168).
AnswersAreTrue ==
  /\ \A h \in Requests : answer[h] # "none" => IsTrue(answer[h], h)
  /\ \A tx \in TxIds :
       /\ card[tx] = "already" => rows[tx].state \notin {"absent", "pending"}
       /\ card[tx] \in Verdicts =>
            \E h \in Requests : Tx(h) = tx /\ answer[h] = card[tx] /\ IsTrue(card[tx], h)

\* Of all who click on one call, in Slack and on the page, whatever is lost or
\* repeated, at most one is told a verdict (Store.Decide, store.go:81-94).
OneVerdictPerCall ==
  \A g, h \in Requests :
    Tx(g) = Tx(h) /\ answer[g] \in Verdicts /\ answer[h] \in Verdicts => g = h

-----------------------------------------------------------------------------
(* What the documentation says and the code does not do.                     *)

\* Respond "replaces the original Slack message [...] with the outcome text, so
\* the channel shows what happened to the request" (slack.go:123-124): once all
\* answers to clicks in Slack have arrived, the message shows the verdict.
ChannelShowsOutcome ==
  sending = {} =>
    \A h \in Requests :
      post[h].endpoint = "slack" /\ post[h].url /\ answer[h] \in Verdicts =>
        card[Tx(h)] = answer[h]

=============================================================================
