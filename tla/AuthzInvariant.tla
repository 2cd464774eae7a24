---------------------------- MODULE AuthzInvariant ----------------------------
(***************************************************************************)
(* Why Authz is safe: an inductive invariant.  Checks share no row, so it  *)
(* is one of each check: how far it is says what it may have written and   *)
(* said, and what it has written and said goes back to its verdict.        *)
(***************************************************************************)
EXTENDS Authz

BeforeRecord == {"idle", "policy", "owner", "record"}
BeforePark == BeforeRecord \union {"park"}
BeforeReply == BeforePark \union {"slack"}

NoRow == [state |-> "absent", call |-> NoCall, by |-> Nobody, result |-> "null"]
RowOf(c) == [state |-> "pending", call |-> Call(c), by |-> Nobody, result |-> "null"]

\* Where a check is tells what it cannot have done yet.
StepsInOrder(c) ==
  /\ pc[c] \in BeforeRecord \ {"record"} => verdict[c] = "none"
  /\ pc[c] \in BeforeRecord => ~known[c]
  /\ pc[c] \in BeforePark => rows[c] = NoRow
  /\ pc[c] \in BeforeReply => reply[c] = "none" /\ c \notin answered
  /\ pc[c] = "park" => verdict[c] = "needs_approval"
  /\ pc[c] = "slack" => rows[c] # NoRow

\* Whoever a check acts for is one whom its request names, and past the first step
\* it acts for somebody, unless it is over.
WhoIsNamed(c) ==
  /\ who[c] # NoOne => who[c] \in FromCheckRequest(ask[c])
  /\ pc[c] \in {"policy", "owner", "record", "park"} => who[c] # NoOne

\* A verdict is what some policy and the identity of the check lead to.
VerdictIsSound(c) ==
  /\ verdict[c] = "needs_approval" =>
       ask[c].body.tool \in DestructiveTools /\ CedarAllows(basis[c], Call(c))
  /\ verdict[c] = "allow" =>
       \/ ~IsToolCall(ask[c].body)
       \/ ask[c].body.tool \notin DestructiveTools /\ CedarAllows(basis[c], Call(c))

\* A check that knows its transaction id has its decision in the log under it.
KnownIsLogged(c) ==
  known[c] => \E r \in audit : r.id = c /\ r.decision = verdict[c] /\ r.basis = basis[c]

\* A row is the call of its check, parked under an id that the log gave out.
RowIsParked(c) ==
  rows[c] # NoRow => rows[c] = RowOf(c) /\ known[c] /\ verdict[c] = "needs_approval"

\* What the check says, to the gateway and to Slack, is so.
ReplyIsTrue(c) ==
  /\ reply[c] = "allow" => verdict[c] = "allow"
  /\ reply[c] = "pending" \/ c \in cards => rows[c] # NoRow
  /\ reply[c] = "denied" => rows[c] = NoRow

CheckInv(c) ==
  /\ StepsInOrder(c) /\ WhoIsNamed(c) /\ VerdictIsSound(c)
  /\ KnownIsLogged(c) /\ RowIsParked(c) /\ ReplyIsTrue(c)

\* Together the parts are inductive; TLC checks them here, AuthzProofs shows it.
AuthzInv == \A c \in TxIds : CheckInv(c)

-----------------------------------------------------------------------------
(* What ActsForCaller needs of the issuer of the tokens.                     *)

TokensCarryCallers == \A a \in Asks : Carries(a.token, a.caller)

=============================================================================
