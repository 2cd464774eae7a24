# AgentGate: specifications of the governance service

TLA+ specifications of the `agentgate` service of this repository, model-checked
with TLC on small instances, and theorems about all of its parts and the whole, proved
with TLAPS. All line numbers refer to the files under `agentgate/internal/` unless a
path says otherwise.

## 1. The system

An agent sends MCP requests to a gateway. The gateway asks the `agentgate`
service (gRPC ext_authz) whether to forward each one. The service resolves who
the agent acts for, evaluates a Cedar policy file, asks a relationship graph who
owns the record, writes its decision to an audit log, and parks destructive calls
until a human decides. Humans decide on a web page or with a Slack button; an
approval re-checks the policy and then forwards the parked call to the tool
server itself.

| Component | State it keeps | Operations | Module |
|---|---|---|---|
| Authorization service, `authz/server.go` | none but its goroutines | `Check`, `record` | `Authz` |
| Identity, `identity/identity.go`; parsing, `mcpreq/parse.go` | none | `FromCheckRequest`, `Parse` | `CheckRequest` |
| Approval store, `approval/store.go`, `migrations/002` | table `pending_approvals` | `Park`, `Get`, `Decide`, `SetResult`, `ListPending` | `ApprovalStore`; `ListPending` in `Dashboard` |
| Approval executor, `approval/executor.go` | none but its goroutines | `Approve`, `Deny`, `refuse`, `auditRow`, `callTool` | `Executor` |
| Policy engine, `policy/engine.go`, `policies/agentgate.cedar` | the file, the loaded policies and their version, a lock | `New`, `Reload`, `Version`, `Decide` | `Policy` |
| Relationship graph, `relations/relations.go` | owner edges in SpiceDB | `Connect`, `CheckOwner`, `Grant`, `Revoke`, `List` | `OwnershipGraph`; `List` in `Dashboard` |
| Audit log, `audit/audit.go`, `migrations/001` | table `audit_log` | `Connect`, `Record`, `Recent` | `AuditLog`; `Recent` in `Dashboard` |
| HTTP API, `approval/http.go` | the goroutines of `Respond` | `decide`, `slackInteractive`, `relationsWrite`, lists | `Executor`, `SlackCards`, `Dashboard` |
| Dashboard page, `approval/dashboard.go` | what the page shows, its open refreshes | `refresh` and its timer | `Dashboard` |
| Slack client, `slack/slack.go` | messages in a channel | `PostApprovalRequest`, `Respond`, `VerifySignature` | `Authz`, `SlackCards` |
| Tool server, `toy-server/main.go` | a map of records | `read_record`, `delete_record` | `ToyServer` |
| The whole service, between agent and tool server | all of the above | - | `AgentGate` |
| Start-up, `cmd/agentgate/main.go` | none | connect, seed, serve | `Restart` of `Executor`, `Authz`, `AgentGate` |
| Demo client, gateway, Keycloak, compose files | - | - | not modelled |

**How they interact.** `Check` and the executor share the engine (the executor's
`Reload` changes what `Check` decides on), the audit log, the store and the graph.
`Check` creates the rows that the executor works off. Postgres, SpiceDB, Slack and
the tool server are reached over the network, each call with the context of the
request being served, except the post to Slack, which has none.

**What is hard.**

- Every request runs in its own goroutine; between two statements of one, any
  number of statements of others happen, and the operator edits the policy file.
- `Reload` reads the file outside its lock; `Version` and `Decide` take the lock
  separately.
- A statement can fail, or commit and lose its reply. A client that goes away
  cancels the context of its request: everything the handler still had to do fails
  at once, while what it has done stays.
- The tool call times out after 15 seconds, but the tool does not know.
- Slack clicks are answered after the fact, by a goroutine per click, and delivered
  again when the reply takes longer than three seconds.
- The dashboard's refreshes overlap, and each reads three lists at moments of their
  own.
- The tool server's handlers share a map without a lock.
- The process can die anywhere. Its state in Postgres and SpiceDB survives, its
  goroutines do not, and start-up does not look at what they left.

**What makes each component correct.** A row is decided once and its call sent at
most once, only on an approval (store, executor). Row and log say nothing about
the tool that is not so (executor, audit). The re-check goes by a policy that is
as recent as the loading of the file allows (engine, executor). A parked call has
an audit row, an agent told to wait has a row to wait for (authorization service,
store). Whatever fails denies (engine, graph, authorization service). Every
request ends (executor, authorization service). A check acts for whom the token was
issued (identity). A record disappears only by an approval of a call an agent made
(all of them together). A human is told what happened (HTTP API, Slack client,
dashboard).

## 2. The modules

`Database` says how a statement may end: `"ok"`; `"error"`, without effect; or
`"lost"`, committed but reported as an error. `"cancelling"` is a context
cancelled while the current step runs, `"cancelled"` one cancelled before the step
began; the second sends nothing. `Faults` selects the faults of an instance; among
them, `"tool"` is that the tool server's process may end at any time. That its answer
comes late, or never, is no fault of an instance: `callTool` may give up at any moment
in every run, as its 15 seconds may be over before the answer is there.

`Policy`, `OwnershipGraph`, `ApprovalStore` and `AuditLog` each hold the state of
one component and its operations as action operators over it. They have no `Next`
of their own. `CheckRequest` holds no state: it says what identity and call may be
read out of a request of the gateway. `Executor` and `Authz` extend these and add the
goroutines:

- **`Executor`**: a request is a click with a button and a transaction id. Its
  program counter `pc[h]` walks through `Approve` or `Deny`, one action for each
  read of the file, critical section, statement or network call:
  `Decide`, `Get`, `ReadFile` and `Swap` (`Reload` outside and under its lock),
  `Snapshot` and `AskOwner` (`Engine.Decide` before and after the question to the
  graph), `CallTool`, `ToolAnswered` or `ToolLost`, `SaveResult`, `WriteAudit`.
  `refuse` and the three ways to finish are one path, with `plan[h]` saying how the
  approval ended. `tool[h]` is the tool server's side of the call and survives the
  process. Around them: `EditFile`, `Administer`, `ParkCall`, `Disconnect`,
  `Crash`, `Restart`.
- **`Authz`**: a check walks through `Arrive` (parsing and identity), `Snapshot`,
  `AskOwner`, `RecordDecision`, `ParkCall`, `PostToSlack`, `Answer`. Approvals
  appear as `Reload`, which may load any text that parses.
- **`Approval`**: the abstract specification. A parked call has a phase and an
  effect on the tool, and nothing else. It says what the service promises: sent only
  when approved, at most once, never after a denial or a void approval, reported
  executed only if it ran. `Executor` implements it under the mapping `PhaseOf`,
  `EffectOf`.
- **`ToyServer`**: the tool server, a handler per call, with one action per access to
  its map. Two handlers at the map, one about to write, may end the process.
- **`AgentGate`**: the whole. It extends `Executor` and takes the checks (`Checks`, an
  instance of `Authz`) and the tool server (`ToolServer`) over the same engine, graph
  and table of parked calls. `Check` replaces the `ParkCall` of the one, `Click` the
  `Reload` of the other, `ServeApproved` the `ToolServe` that chose an outcome freely.
  Two of its properties are refinements back to the parts: `ClicksAreExecutor` says
  that every behaviour, seen through the executor's variables, is one of `Executor`;
  `ChecksAreAuthz` that every step, seen through those of the checks, is one of
  `Authz`, with a parked row as it was left, whatever clicks made of it (`AsParked`, in
  `GateInvariant`). `DemotionSpec` adds an administrator of Keycloak who takes roles
  away.
- **`SlackCards`**: the two endpoints around the executor: what they turn away (a bad
  signature or one older than five minutes, a payload that does not decode, another
  button), what `Approve` and `Deny` return, the goroutines of `Respond`, and what
  the Slack message shows. It extends `Executor`; `Press`
  and `Proceed` put the endpoint around its `Receive` and `Step`.
- **`Dashboard`**: the page. `Tick` opens a refresh, `GetPending`, `GetAudit` and
  `GetRelations` are its three requests in any order, `Draw` follows all three. Around
  it the tables change, and a request may yield nothing, or a part of the graph.
- **`ExecutorInvariant`**, **`AuthzInvariant`**, **`SlackInvariant`**,
  **`DashboardInvariant`**, **`GateInvariant`**: the inductive invariants.
- **`ExecutorProofs`**, **`ExecutorRefinement`**, **`AuthzProofs`**, **`SlackProofs`**,
  **`DashboardProofs`**, **`GateProofs`**: the theorems; **`StoreProofs`**: lemmas about
  statements and rows that they share.
- The modules whose names begin with **`MC`**: instances for TLC.

Abstractions worth knowing:

- A policy text is whether it parses and which (role, risk) pairs it permits. That
  is all the shipped policy file distinguishes. A text stands for its own hash.
- `decided_by` names the request rather than the human, so that two clicks of one
  human are two.
- An audit row carries two fields no column has, for the properties only: `about`
  (the parked call it tells of) and `basis` (the text the decision was taken on).
- `since`, `carried` and `held` are history variables; no guard reads them. They are
  the window of an approval: the texts that were in the file since a request took its
  row, those that other reloads had read by then but not yet swapped in, and the edges
  that were in the graph since. The window closes when the re-check ends (`Rechecking`)
  and is kept, so that a property may ask of a call, long after it was sent, what had
  let it through (`Rechecked`).
- The tool server is reached through the gateway and the executor only. The compose
  file of the demo also publishes its port (`docker-compose.yaml:8-9`), and
  `TESTING_GUIDE.md:330-340` deletes a record through it, with no policy and no
  approval, to show why a deployment must not. What comes in there is outside these
  models: `EveryCallAccounted` and `RecordsGoByApproval` assume it away.
- `ReachesTool` is the other assumption about that side: the gateway's MCP backend and
  the tool server take for a call what `Parse` took for one. `Parse` takes a body that
  it cannot decode for no call, and `Check` lets it pass (`mcpreq/parse.go:36`,
  `server.go:82-86`): were the tool server to find a call in it, nobody would have been
  asked about that call.
- `Version()` is read in the same action as the INSERT it is read for. Any reload
  that could come between the two can come just before both as well.
- The audit row of a caller without roles is always refused: the nil slice of
  `fromClaims` becomes NULL in a NOT NULL column (`migrations/001`, line 18).
- JSON objects are records of the claims the code looks at, with the set of the
  objects nested in them; a search that stops at the first hit in Go's map order may
  return any hit. A token always decodes: the gateway has verified it.
- In `AgentGate` the table `audit_log` is two variables, the rows of checks
  (`decisions`) and those of clicks (`audit`); nothing reads across them. `demoted`
  is a history variable: the users who had lost their roles before each click.
- In `SlackCards`, a signature's age is a number of minutes, and a post is one of a
  few kinds. `answer` is what the executor returned, whether or not anyone hears it.
- In `Dashboard`, `past` (the tables after each change) and `from` (the change a
  refresh started after) are history; `calm` marks the moment from which nothing
  changes or fails. Row ids of the audit log are numbers. The page takes an error, an
  empty list and `null` alike (`dashboard.go:88`, `96`): all are the empty set.
- A message of the MCP session to the tool and the call itself are one step;
  establishing the session may fail.

## 3. What TLC checks

| Run | Instance | Shows |
|---|---|---|
| `executor_faults` | 2 requests, 1 parked call, 2 policy texts (one does not parse), every fault, 2 crashes | types; `OneCallPerApproval`, `CallsAreAuthorised`, `RecordsTellTruth`; that `Executor` implements `Approval` |
| `executor_recheck` | 2 requests, 2 calls, 2 texts, failing graph and policy file, revoked and granted edges, fairness | `RecheckWithinWindow`, the inductive invariants `IInv` and `LogIsComplete`, `RowAndAuditAgree`; liveness: `ApprovedSettles`, `EveryClickAnswered` |
| `authz_faults` | 1 check out of 34 requests, 2 texts, failing database, graph, Slack and gateway, 1 crash, fairness | types; the inductive invariant `AuthzInv`; `ActsForCaller`, `ParkedIsLinked`, `RepliesAreTrue`, `CardsHaveRows`; liveness: `ChecksEnd` |
| `agentgate_faults` | 2 checks (a delete of one record or a read of another each), 1 click, 2 records, 1 text, failing database, 1 crash of the service, any number of the tool server | types; the inductive invariant `GateInv`; `EveryCallAccounted`, `RecordsGoByApproval`; that clicks are `Executor` and checks are `Authz` |
| `slack_cards` | 2 clicks out of 5 kinds on 1 call, failing database, client, tool, file and Slack, 1 crash | types; the inductive invariant `SlackInv`; `AnswersAreTrue`, `OneVerdictPerCall` |
| `dashboard` | 2 refreshes at a time, 2 calls, 2 changes of the tables, a page of 1 row, failing database and graph, fairness | types; the inductive invariant `PanelsInv`; `PanelsAreRecent`; liveness: `CatchesUp` |

**Bounds.** `MaxCrashes` bounds the crashes; the second shows what a request finds
that comes after one. Two requests on one call are the one that takes the row and
the one that races it or comes late; a third adds states and no new kind of them,
and the theorems hold for any number. Two calls and two requests let two re-checks
meet in the engine; of the two texts one permits and one forbids, and a file that
does not parse or cannot be read is the fault `"policy"`. In `executor_faults` the
re-check is denied by the graph or by the unreadable file, so two texts are enough.

The checks of `Authz` share nothing but the engine and the graph, which `Reload` and
`Administer` change at any time: one check against all 34 requests says more than two against few. They are five tokens
in six places for a delete (in no metadata, with and without the header; at the top; two
levels down; next to a differing token of the same caller; next to claims of somebody
else), and one token for four other bodies (a delete without a record, a read, a
protocol message, a body that does not decode). One of the tokens has claims of somebody
else inside it, where the walk never gets. `agentgate_faults` has two
checks, so that one parks while the other is on its way, an agent repeats its call,
and a forwarded read meets an approved delete in the tool server. It has two records, so
that "the call names the record" says something; `GraphBound`, a constraint, keeps the
edge of the record that is only read. Its one policy text permits both: what two texts
do to a re-check is what `executor_recheck` is for, and the graph refuses calls here,
too, when the edge is revoked. Cancelled contexts and an unreadable file or graph
are left to the runs of the parts there, Slack to `slack_cards`. Ages of signatures
are 0, 5 and 6 minutes, on both sides of the limit. The audit page of one row, with
two rows to show, is the smallest that leaves one out.

Everything else (edits, grants, parking, tool server crashes, refreshes one after
another) is unbounded. Requests and transaction ids are symmetric in the runs without
liveness. Every mutant named in PROJECT.json is a plausible slip in the code (an
UPDATE without its `AND state = 'pending'`, an ignored error, an early return, a
retry that upserts, a re-check whose answer nobody looks at) and breaks the property
it is listed for.

**Fairness.** `FairSpec` of `Executor` assumes weak fairness of each request's own
step: Go runs every goroutine that can run, statements and graph queries come back
(with an answer or an error), and `callTool` gives up after its 15 seconds
(`ToolLost` is enabled for as long as a request waits; `executor.go:123`). It assumes a
restart after a crash, as long as the file parses. It assumes nothing of clients,
operators or the tool server. `Authz` assumes the same of a check, except while it
posts to Slack: `http.DefaultClient` has no timeout, so `ChecksEnd` allows a check
to stay there. `Dashboard` assumes that the browser's timer goes on and that requests
come back, with an answer or without; the tables owe it nothing.

`RowAndAuditAgree`, `ApprovedSettles` and `EveryClickAnswered` are claims about
an instance without database faults, cancellations and crashes: with those, the first
two are false, as the next section shows. `CatchesUp` is about the time after the
last change and the last failure, whenever that is.

## 4. Where code and documentation disagree

Each of these runs checks one sentence of the documentation and ends in a
counterexample.

| Run | The sentence | What happens |
|---|---|---|
| `stale_recheck` | the executor "re-runs the policy check against CURRENT state" (`executor.go:18`, `README.md:91`) | Of two concurrent reloads the one that read the older text swaps it in last. The other approval's re-check goes by a text that left the file before its human decided. `RecheckWithinWindow` is what does hold. |
| `audit_gap` | "Every step lands in the Postgres audit log" (`README.md:94`) | The browser goes away while the tool runs; the cancelled context fails both writes. |
| `approved_forever` | "pending → approved / denied → executed / failed" (`migrations/002`, line 18) | A crash after `Decide` leaves the row approved and its request dead; the service comes back, and nothing picks the row up. A tool that never answers does not do it: `callTool` gives up. |
| `unlogged_denial` | "one row per authorization decision, written BEFORE the answer goes back to the gateway" (`migrations/001`, lines 1-2) | Without any fault: a caller without roles has a nil slice (`identity.go:107-130`), pgx sends NULL, the column is NOT NULL, and the failed INSERT is only logged. |
| `demotion` | "revoke the underlying Cedar permission (edit the policy / demote the user's role) — then click Approve and confirm the re-check catches it and denies" (`docs/AgentGate_Execution_Plan.md:91`; `README.md:91-93` claims as much in general) | The re-check decides on the roles the row has kept since the call was parked. An edit of the policy is caught, a demotion is not. |
| `slack_overwrite` | the answer replaces the message "so the channel shows what happened to the request" (`slack.go:123`) | The losing click's "already decided" arrives after the winner's outcome and replaces it for good. |

Three more disagreements are visible in the models without a run of their own:

- "Version identifies which policy text produced a decision" (`engine.go:44`), but
  the version of an audit row is read when the row is written, and another request's
  `Reload` may come in between: `version` and `basis` of a row in `AuditLog` differ.
- "to reset the graph to seed state [...] restart agentgate"
  (`EXECUTION_GUIDE.md:208`), but `SeedGraph` only adds edges.
- "List returns every owner edge" (`relations.go:126`), but `GetRelations` has to
  allow any part of them where the stream breaks off (`relations.go:143`), and an
  empty graph hides the panel as if none were configured (`dashboard.go:117-119`).

## 5. What is proved

All theorems hold for every value of the constants that the named assumptions allow
(`FaultsAssumption`, `PolicyAssumption`, `GraphAssumption`, `StoreAssumption`,
`ExecutorAssumption`, `CheckRequestAssumption`, `AuthzAssumption`, `SlackAssumption`,
`DashboardAssumption`, `GateAssumption`; TLC evaluates each on every run it concerns):
any number of requests, checks, calls, texts, crashes and refreshes, and any set of
faults. The theorems that need a hypothesis besides say so below, where they are named.

TLC checked every inductive invariant in a run before it was proved: `IInv` and
`LogIsComplete` in `executor_recheck`, `AuthzInv` in `authz_faults`, `SlackInv` in
`slack_cards`, `PanelsInv` in `dashboard`, `GateInv` in `agentgate_faults`.

**The executor** (`ExecutorProofs`, `ExecutorRefinement`).

- `TypeCorrect`: `Spec => []TypeOK`;
- `Invariance`: `Spec => [](TypeInv /\ IInv)`;
- `AtMostOneCall`, `OnlyApprovedCalls`, `TruthfulRecords`, `RecheckIsRecent`: the
  four safety properties that hold under all faults;
- `LogStaysComplete`, `RowAndLogAgree`: while statements succeed and clients wait
  (`StatementsSucceed`: neither `"db"` nor `"disconnect"` is in `Faults`), row and log
  agree;
- `Refinement`: `Spec => ImplementsApproval`.

None of the properties is inductive. `OneCallPerApproval` does not follow from
itself: a step of `CallTool` needs to know that no other request sent the call, and
the only thing that says so is the row. `IInv` therefore makes the column
`decided_by` the owner of a call: whoever got past `Decide`, or ever sent a call,
is named by the row (`RequestTookItsRow`), and two requests cannot both be named.
What the owner has done so far determines what the row may say
(`RowNamesItsRequest`), where it is determines what it may have sent
(`ToolFollowsSteps`), and what it is about to write is what happened (`PlanIsTrue`,
`LogIsTrue`). `WindowIsClosed` is the other half: while an approval's window is
open, the file and every reload in flight hold texts of that window, so whatever is
in the engine when the approval takes its snapshot is one of them too; and all edges of
the graph are of that window, so what the graph answers is, too. `SentWasRechecked`
keeps the conclusion for good: of every call that was sent, its window holds a text that
permits it and, where ownership is asked for, the edge.

`RowAndAuditAgree` is false when a statement fails between the two writes, hence its
hypothesis, which `executor_recheck` satisfies. The theorem asks for less than that
run has: the process may crash, since a dead request has not returned. `LogIsComplete`
adds to `IInv` that a request with only the log left to write has written the row
(`pc[h] = "audit"`), and that the log has no second row about a call: each is written
by the owner of the call, which writes one and is done.

**The checks** (`AuthzProofs`).

- `CheckTypeCorrect`: `Spec => []TypeOK`; among the types is that what a check parks
  is in `Attempts`, the calls that `Executor` takes as given;
- `CheckInvariance`: `Spec => [](Shape /\ AuthzInv)`;
- `ParkedCallsAreLinked`, `TruthfulReplies`, `CardsNameRows`: the three safety
  properties about rows, replies and cards;
- `CallersAreNotConfused`: if every token carries its caller (`TokensCarryCallers`),
  a check acts for the caller of its request, provided that every claims object the walk
  over its metadata may come upon carries that caller, too (`MetadataNames`): there may
  be several different ones, inside each other or side by side, and the walk may come
  upon any of them first. Where the metadata also has claims of somebody else, the code
  may act for either, and `ActsForCaller` says nothing.

These are not inductive either: that a parked call has its audit row follows only
from how far a check has come. `CheckInv` says, of one check, what it cannot have
written at each step (`StepsInOrder`), whom it acts for (`WhoIsNamed`), what its
verdict rests on (`VerdictIsSound`), that the id it knows is in the log with that
verdict (`KnownIsLogged`), and that row, reply and card go back to these. Checks share
no row, so a step of one is `Quiet` for the others. `Shape` is the part of the type
invariant this needs, `Tables` the rest. `TokensCarryCallers` is what the issuer has to
do for the service to be able to know a caller: the name is in `on_behalf_of` or in
`preferred_username`, the roles in `roles` or in `realm_access`, and a list in the
first place is not an empty one that hides the second. TLC evaluates it on the tokens
of `authz_faults` and `agentgate_faults`. That the search for claims returns one of the
objects it was given is part of the definition of `ClaimsFromMetadata`; as a theorem
about `ClaimsIn` it would be an induction over the nesting of objects.

**The endpoints** (`SlackProofs`).

- `HandlersKeepExecutor`: `SlackSpec => Spec`, so every theorem about the executor
  holds with the endpoints around it;
- `SlackTypeCorrect`, `SlackInvariance`;
- `OneIsToldTheVerdict` (`OneVerdictPerCall`), `TruthfulAnswers` (`AnswersAreTrue`).

An answer is given for good, so it must be something that no later step takes back.
`SlackInv` says that a verdict is told only to the request that the row names, and
that what it says of the tool is so; that "denied" and "voided" stay true of *all*
requests on that call follows from `IInv`, because nobody else was named. A message
shows what one of its clicks was answered, and a button names a row, so "already
decided" is only said where a human had decided.

**The page** (`DashboardProofs`).

- `DashboardTypeCorrect`, `PanelsInvariance`;
- `PageIsRecent` (`PanelsAreRecent`), a property of steps: what a refresh draws was in
  the tables since it began.

`PanelsInv` says of each list a refresh holds that it was, or was a failed reading
of, the tables at one of the moments since the refresh began, and that the last of the
moments is now. `Shape` types the lists; that `Recent` returns rows of the log needs no
induction, since it is defined by the ids it returns.

**The whole** (`GateProofs`).

- `GateTypeCorrect`, `GateInvariance`: `GateSpec => [](Types /\ GateInv)`;
- `ClicksRemainExecutor`: `GateSpec => Spec`, the specification of `Executor`; its
  corollaries `WholeKeepsPromises`, `WholeKeepsLog` and `WholeImplementsApproval` say
  what was proved of the executor of the whole;
- `ChecksRemainAuthz`: every step is one of `Authz` over `AsParked`, or a stutter; the
  corollaries `WholeAnswersTruly` and `WholeActsForCallers` do the same for the checks
  (the second under `TokensCarryCallers`, as `WholeKeepsLog` under `StatementsSucceed`);
- `CallsAreAccounted` (`EveryCallAccounted`): what a click sent to the tool server is
  `Authorised`, that is, approved by the request that owns the row, re-checked, and asked
  for by a logged decision on that very call; what the gateway forwarded was allowed,
  destroys nothing and was never parked;
- `RecordsNeedApproval` (`RecordsGoByApproval`): a record goes only in the handler of a
  click's call that names it and is `Authorised`.

Both rest on the two assumptions about the tool server in section 2.

A step of the whole is a step of a click, of a check, or of the tool server.
`GateInv` is the conjunction of `IInv`, of `AuthzInv` over the rows as they were
parked, and of what ties the parts: nothing is active in a process that is down, the
tool server has seen a click's call only if the click sent it and a check's only if
it was forwarded, and never with a delete. Each half is kept by its own steps for the
reason it was kept in its own module, and by those of the other because of a lemma:
a check leaves the executor's variables alone or parks a call in `Attempts`
(`GateStepIsStep`, which needs the type invariant of the checks), a click leaves
`AsParked` alone or reloads (`GateStepIsCheckStep`). The lemmas about `Authz` are not
proved again: `Parking` is an instance of `AuthzProofs` with `AsParked` for its rows,
and its lemmas are cited, with what `Authz` assumes proved in `AuthzApplies`. From
there `RecordsGoByApproval` is the chain a reader expects: a record goes only in
`Remove`, in the handler of a call that was sent; that click owns its row, and the
window of its re-check tells why it let the call through (`IInv`); the row is as
some check parked it, so the log has the decision that asked (`AuthzInv`).

**Only model-checked.** Liveness (`ApprovedSettles`, `EveryClickAnswered`,
`ChecksEnd`, `CatchesUp`): fairness and `ENABLED` are out of the prover's reach. That
the invariants of the runs in section 4 are violated is what a counterexample shows,
and needs no proof. Everything else that a run checks is a theorem.

## 6. What is not modelled, and the plan

Not modelled: the demo client (it keeps no state), the gateway, Keycloak and compose
configuration (third-party); Cedar's language; the wording and layout of replies,
cards and pages; `GET /` and `GET /status/{tx}`, which only read what the lists read.
Of start-up, the connection retries: nothing is served before they are over, and a
start that fails is a service that stays down, which every run without fairness
allows.

What is left, most important first:

1. The policy engine by itself: what `EngineDecide` returns, as lemmas against a
   reference definition, and not only through the properties of those who ask it.
2. `SlackCards` around the clicks of `AgentGate`, as a refinement, so that what humans
   are told is proved of the whole.
3. That the page catches up, as far as it is safety: with nothing failing, a refresh
   that began after the last change draws the tables.
4. A larger `agentgate_faults`: two clicks on two parked copies of one call.
