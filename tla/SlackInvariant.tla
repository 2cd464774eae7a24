---------------------------- MODULE SlackInvariant ----------------------------
(***************************************************************************)
(* Why what humans are told is true: an invariant of SlackCards that is    *)
(* inductive together with that of Executor.  An answer is given on for    *)
(* good, so it has to be something no later step of anyone takes back.     *)
(***************************************************************************)
EXTENDS SlackCards, ExecutorInvariant

\* An answer is the last thing of its request, and a verdict only that of the
\* request that took the row; what it says of the tool is so.
AnswerIsFounded(h) ==
  /\ answer[h] # "none" => pc[h] = "done"
  /\ answer[h] \in Verdicts => rows[Tx(h)].by = h
  /\ answer[h] = "executed" => tool[h] = "ran"
  /\ answer[h] \in {"voided", "denied", "error"} => tool[h] = "none"

\* A button in Slack names a row; whoever is told there that it was decided
\* already came after a decision.
ButtonHasRow(h) ==
  post[h].endpoint = "slack" =>
    /\ pc[h] # "idle" => rows[Tx(h)].state # "absent"
    /\ answer[h] = "already" => rows[Tx(h)].state \notin {"absent", "pending"}

\* What is on its way to Slack is the answer to a click in Slack.
SendingIsAnswered(h) == h \in sending => post[h].endpoint = "slack" /\ answer[h] # "none"

\* A message shows buttons, or an answer that one of its clicks got.
CardShowsAnswer(tx) ==
  /\ card[tx] # "none" => rows[tx].state # "absent"
  /\ card[tx] \in Answers =>
       \E h \in Requests : Tx(h) = tx /\ answer[h] = card[tx] /\ post[h].endpoint = "slack"

\* Checked by TLC, and proved inductive in SlackProofs.
SlackInv ==
  /\ \A h \in Requests : AnswerIsFounded(h) /\ ButtonHasRow(h) /\ SendingIsAnswered(h)
  /\ \A tx \in TxIds : CardShowsAnswer(tx)

=============================================================================
