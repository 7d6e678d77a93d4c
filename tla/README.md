# Concordia DAO Council: TLA+ specifications

Concordia is a council of agents that turns a governance signal into an executed
Casper treasury action.  Six agents write *cards*; a FastAPI *gateway* seals the
cards into a hash chain per proposal, keeps the state of every proposal in
SQLite, and decides when a plan may be executed; a contract on chain keeps the
receipt.  This directory holds the specification of the parts in which a wrong
order of events could execute something nobody authorised, or execute it twice.

Paths below are relative to the repository root (`src/`).

## 1. The system

### Components, what they keep and what they do

| Component | State | Operations | Correct when |
|---|---|---|---|
| **Card ledger** `gateway/routes/submission.py`, `shared/integrity.py` | `proposals.state`, `cards` (hash chain, `published_at`) | `POST /prepare/{type}` seals, `POST /confirm` advances the state machine | the state is the replay of the confirmed chain; the chain is a legal path; nothing is confirmed behind an authority but its receipt |
| **Authorization lifecycle** `gateway/routes/nonce.py`, `authorization.py`, `approve_ui.py`, `shared/approval.py` | `nonces`, `authorizations`, `suppression_rules`, the ledger's tables | create a nonce, post its challenge, consume it (room or page), revise, false alarm, request a policy authorization, resume a `PENDING` row, consume an authorization | one authorization per proposal, for the plan in force, visible in the room, spent once; every interrupted attempt can be resumed |
| **Database** `gateway/database.py` | the SQLite file | `_migrate` on every start | a restart changes no row's meaning |
| **Council rooms** `gateway/routes/rooms.py`, `shared/proposal_room.py` | rooms, participants, messages | create, invite, post, list from an offset | a confirmed card stands in a room, under a message of its own, with the other confirmed cards of its proposal |
| **Submission client** `shared/submission_client.py` | idempotency key of the attempt | prepare, post, confirm with retries | one card per intent, whatever is repeated |
| **Agent room runtime** `shared/local_room_runtime.py`, `card_intake.py`, `supervisor.py` | poll offset per room, the agents' memory | poll, dispatch, restart | a message is handled once in a life, and again safely in the next |
| **Triage, risk, compliance agents** `agents/rowan`, `mercer`, `verity` | what they know of a proposal | a card for a card: route, assess, judge or challenge | the review ends, and judges the diagnosis that stands |
| **Protocol Strategy Agent** `agents/alden` | progress per plan, a revision counter | plan a verdict or a revision, create its nonce, post the challenge | one plan per request; a plan in force is put to the human |
| **Casper Execution Agent** `agents/locke` | in-memory execution context per proposal | consume, execute, write the receipt | broadcasts an envelope at most once, only under an authorization it consumed, and seals a receipt only for all of them |
| **Casper executor** `shared/casper_executor.py` | none | sign and broadcast a deploy, poll for finality | what it reports of a deploy is true |
| **Suppression rules** `gateway/app.py`, `agents/rowan` | `suppression_rules` | learn a rule, look it up, spend it, delete those of the demo | the rules in force for a fingerprint suppress the maximum and no more |
| **LLM budget** `shared/llm_budget.py`, `llm_reasoning.py` | one meter file per day | reserve, commit, release | the calls of a day stay within the limit, but for what nobody foresaw |
| **Rate limiter** `gateway/rate_limit.py` | a window per client | admit or refuse | never more than the limit in any window |
| **Payments** `shared/x402_payments.py`, `x402_provider` | the provider's delay counters | settle a proof on one of three routes | what is settled was paid; a lag strands nobody |
| **Demonstration sessions** `gateway/routes/demo.py`, `demo_cleanup.py`, `proposal-simulator` | lock, cooldown, the simulator's scenarios | trigger, reset | nothing half-made is confirmed or left without a failure, nothing active is deleted |
| **Governance receipt V3** `contracts/odra-governance-receipt-v3` | installation, commitments, approvals, final receipts, authorised actions | `init`, `propose_envelope`, `approve_envelope`, two finalizations | final once, by a quorum of separate accounts, within what was asked for |
| **Odra receipt** `contracts/odra-governance-receipt` | signers, envelopes, approvals, receipts | configure, propose, approve, store | every receipt has a quorum behind it |

The components that only format, export or query are listed with their reason in
`PROJECT.json`.

### How they interact

    operator of the dashboard --demo/trigger--> gateway --> simulator, room, ProposalCard
    agent --prepare--> gateway: seals card, state unchanged
    agent --message--> Council Chamber
    agent --confirm--> gateway: published_at set, state advanced
    commander --nonce/create, challenge--> gateway, Council Chamber
    human --consume | approve | revise | false alarm--> gateway
    gateway: seal decision, PENDING row, COMMIT;  post to room;  advance, COMMIT
    operator --authorization/{id}/consume--> gateway --> Casper, receipt contract

Everything goes through the gateway's tables.  The gateway is one uvicorn worker
(`docker/entrypoint.sh:41`), its handlers are `async` and do not await between
their reads and their `COMMIT`: **a handler is atomic up to the room post it
makes between two transactions**, which can fail or be the last thing the
process does.  The one handler that sleeps is the approval page's revision
(`approve_ui.py`), which publishes its card in retries while other requests are
served.

### What is hard

* cards are sealed, posted and confirmed in any order and may never be confirmed;
* a nonce, an authorization and a plan are three objects, made at three times,
  that must agree when the last one is used;
* a handler commits, posts, commits again: what a failed post or a crash leaves
  behind must be resumable, once, and must not be overtaken;
* a migration runs on rows of the current code as well as on old ones;
* every agent is a loop with its progress in memory; it dies, loses answers, and
  reads its rooms again from the start;
* counters with a bound (suppressions, tokens, requests, attempts) are read and
  spent by several processes, over midnight and through a crash;
* indexers, nodes and a simulator answer late, twice or not at all;
* on chain, callers with different roles act in any order, and the amount is a
  rounded share of a treasury.

`PROJECT.json` lists each of these hazards with its line and the properties that
cover it.

## 2. The modules

| Module | Models | Extends |
|---|---|---|
| `ProposalLedger` | the card ledger: `Prepare`, `PostToRoom`, `Confirm` | |
| `CardIntent` | abstract: a body under a key is sealed once and published once | |
| `CardSubmission` | idempotency keys, room messages as certificates, the risk floor | `ProposalLedger`, instances `CardIntent` |
| `CouncilAgents` | triage, diagnosis and reviewer as polling clients | `CardSubmission` |
| `ExecutionAuthority` | abstract: what the gateway promises about execution | |
| `AuthorizationLifecycle` | nonces, human and policy authorizations, retries, restarts | `ProposalLedger`, instances `ExecutionAuthority` |
| `CommanderSaga` | the Protocol Strategy Agent with its room, next to the gateway | `AuthorizationLifecycle` |
| `OperatorExecution` | the Casper Execution Agent with its room, next to the gateway | `AuthorizationLifecycle` |
| `CasperDeploy` | broadcast and finality polling | |
| `Suppression` | suppression rules and the triage agents that spend them | |
| `LlmBudget` | the token meter and the processes that share it | |
| `RateLimit` | the sliding window | |
| `PaymentSettlement` | the paid report and its three settlement routes | |
| `DemoSession` | trigger and reset between simulator, tables and rooms | |
| `GovernanceReceiptV3`, `OdraReceipt` | the two contracts with a quorum | |
| `Services` | the seven components that share no state with the council, side by side | the seven: `RateLimit`, `LlmBudget`, `Suppression`, `PaymentSettlement`, `DemoSession`, `CasperDeploy`, `OdraReceipt` |
| `ProposalLedgerProofs`, `SubmissionProofs`, `CouncilProofs` | theorems about the ledger, the submission protocol and the council | each the module it is about and the proofs before it |
| `AuthorizationProofs`, `OperatorProofs`, `CommanderProofs` | theorems about the lifecycle and its two agents | each the module it is about and the proofs before it |
| `GovernanceReceiptProofs`, `ServicesProofs` | theorems about the contract, and about `Services` and each of its components | the modules they are about |
| `MC*` | constants and instances of the TLC runs; `MCServices` lets one component of `Services` run at a time | |

Definitions whose name has an underscore and a word (`NonceValid_Replay`) are
*mutants*: the code with one plausible bug, to show that the property next to
them would see it.  No action uses them.

### `ProposalLedger`

`cards[p]` is the sequence of sealed cards of `p`; a card's `sequence_number` is
its position, so the hash chain is the sequence itself, and `published` is
`published_at IS NOT NULL`.  `visible` holds the cards that have a message in
the room.  A card keeps its type, its `decision`, and one field `ref` of its
body: for a plan whether the risk floor and `_policy_authorization_block_reason`
leave it to policy (`auto`) or to a human, for an approval the nonce it quotes.
`BaseTransitions`, `OutcomeTransitions` and `Prerequisite` are the tables of
`submission.py:31-75` and `:164-174`.  `Confirm` checks, as the handler does, the message in
the room, the prerequisite state and that no card behind it is confirmed.

A refused request, and one that repeats an answered one, changes nothing: it is
a stuttering step.

### `AuthorizationLifecycle`

`nonce[p][n]` is the row of the `nonces` table (`UNIQUE(proposal_id, nonce)`),
`auths` the `authorizations` table, `learned` the fingerprints with an active
suppression rule.  A plan is named by its sequence number: `plan_hash` and
`action_hash` are functions of the sealed plan (`agents/alden` numbers its
revisions, so two plans never share a hash).  An authorization names the plan
whose hashes it carries (`plan`) and, separately, the plan its envelopes were
copied from (`envelopes`): the code reads the two from different places.

`reach` says how far a handler got: `sealed` (first transaction, the post
failed), `posted` (the message is out, the second transaction is lost),
`advanced`.  `Republish` is the retry of a `PENDING` row, shared by the human
path (`ResumePending`) and the policy path (`RetryPolicy`).  `Overrule` is what
revision and false alarm have in common; `NotifyDecision` is their room post.
`LapseNonce`, `LapseAuthorization` are the two clocks, `Restart` is `_migrate`.

Abstracted: the approver's identity and HTTP session (one approver), test mode,
the two further modes of `advance_authorization_lifecycle` that a single worker
cannot reach, the card of a missing `OPERATOR_AGENT_ID` (it is `sealed`), and a
failed insert of a suppression rule, which the code swallows.  The gateway's own
API key is assumed not to prepare or confirm `StructuredApproval` and
`PolicyAuthorization` cards (`LifecycleAssumption`); the ledger runs do include
them.

For a false alarm `NotifyDecision` allows more than the code: the page does not
retry that post.

### `ExecutionAuthority`

Three variables: the plan in force, the one grant, what was spent.  A grant is
given once, the plan in force cannot change under it, and it is spent once on the
plan it was given for.  `AuthorizationLifecycle` implements it under the mapping
at its end (`ExecutesWhatWasGranted`).

### `OperatorExecution`

The gateway's module composed with one process, the operator, and what is between
them: `room`, the authority cards posted to a Council Chamber in the order they
were posted.  Every attempt to publish appends a message (`store_room_message`
makes a new id each time), so a retried card is in the room twice.  `offset` is
`LocalRoomAgent._offsets`, `operator` the `ExecutionContext` with the progress of
the handler, all of it in memory; `broadcasts` is a history variable, the deploys
of each envelope that reached a node.

`Environment` is the gateway serving everybody else: the actions of
`AuthorizationLifecycle` but the consumption of authorizations and the receipt
card, which need the operator's key; where an action publishes, `Deliver` adds
the message.  The operator's handler is cut at its requests, because the gateway
serves others in between:

| Action | Code (`agents/locke`) |
|---|---|
| `ReadMessage` | the next message of a poll; what is no authority is dropped |
| `Consume`, `ConsumeRefused` | one round of `_consume_authorization_with_retry` |
| `ExecuteEnvelope` | `execute_governance_execution` for the next envelope |
| `FinishExecution` | the guards of `submit_action_receipt` |
| `SealReceipt`, `PostReceipt`, `ConfirmReceipt` | its three requests |
| `ConsumeUnanswered`, `RequestLost` | an answer or a request is lost: the handler gives up and the message stays behind the offset |
| `Crash` | the process dies, the supervisor starts it again, offsets at 0 |

The offset is moved when a message is read; the code moves it when the handler
ends, which nobody can see in between, and a death resets it either way.

Abstracted: the envelopes of a plan are distinct; the sender checks and the
`ACTIVE_PROPOSALS` filter (cards come from the gateway); mock mode and dry runs;
the skip of a proposal already `EXECUTED`, which a successful consumption
excludes; `APPROVE <nonce>` typed in the room, which consumes the nonce (the
gateway's `ConsumeNonce`) and leaves a context the approval card then replaces.
The gateway does not restart here.

### `GovernanceReceiptV3`

One action per entry point that writes.  A hash is the value it is the hash of;
fields the contract only compares with constants are one flag `standard`, ids it
recomputes one flag `derived`.  Every role of an installation is an account, and
`SeparateRoles` is `ensure_role_separation`.  The native amount is kept as
integer arithmetic, with its rounding; amounts beyond `U512` are left out.  A
revert is a stuttering step.

### `CardSubmission` and `CardIntent`

The ledger with what `seal_card` and `_verify_room_publication` keep besides it.
`submissions` has a row for every sealed card: the role and the body it was
sealed for, its key, and the message it was confirmed with (0 until then);
`messages` is the Council Chambers.  A body is its decision and a *take*, what
tells two wordings of the same decision apart.  Clients are free: they send any
body under any key, post anything and claim any message; nothing of the good
behaviour of `SubmissionClient` is assumed.  `CardIntent` is the promise that
makes redelivery safe, and `HonoursIntents` says that the gateway implements it.

`rooms` has the Council Chambers and what each was opened for, `chamber` the room
stored with each proposal.  `ExpectedRoom` is `stored_room_id or room_id`: while no
room is stored, a confirmation names one, whichever it likes, another proposal's
included, and `ConfirmCard` stores it.  `PostCard` puts a card into any room.  A
message's `role` is the `sender_role` its request stated (`rooms.py:255`), so "posted
as" is what a client says of itself.  `ConfirmedCardIsInRoom` claims no more than
that: the row of a confirmed card names a message that shows its hash, posted as
the role that prepared it, and the confirmed cards of a proposal are all in the room
stored with it, but for those confirmed before `POST /rooms` gave it one of its own,
which it does once.

`RiskFloor` is `_apply_risk_floor`: it reads the latest *sealed* Assessment.

### `CouncilAgents`

Three processes on the submission protocol.  `job[r]` is the handler an agent is
in, cut at its requests; `memory` and `offset` die with it.  A prepare that is
answered 409 is tried again a bounded number of times, because the sender posts
its card before it confirms it; then the agent gives up (`gaveUp`, a history
variable the liveness properties except).  The wording of a body made again after
a restart is any of as many takes as there were deaths.  An agent reads the rooms
it takes part in (`members`, the table of participants): the recorder brings the
triage agent in, and each agent adds the next one in the request before the one
that posts its card, so a death in between leaves an invitation and no card
(`InviteOnly`).  The recorder posts without metadata, so its message shows no card
but the one it is a message of (`PostCard` with `tagged` false); it opens the
room itself, between prepare and post, and everybody confirms in the room of the
message they answered (`RoomOfJob`).  The guard
`should_skip_stale_card` asks the gateway and lets the card pass when it gets no
answer; `unguarded`, a history variable, has the proposals of which it let an
overtaken card pass.  `ReviewMode` chooses between the reviewer without a model, which challenges once, and one that may
decide anything `handle_submit_verdict` accepts.

### `CommanderSaga`

The commander next to the gateway, in the manner of `OperatorExecution`:
`room` has the Verdict and the `REJECTED` cards in order, `job` is the handler
between two of its requests, `request[p][s]` remembers which card and revision
each plan was made for.  A commander that knows nothing of a proposal asks for its
Assessment and drops the card when nobody answers (`AssessmentOutOfReach`).
`PassOver` is the replay guard, `Restored` what the agent
rebuilds of its memory after a death, `IgnoreRejection` its way out when it
believes the request is already answered.  The reviewer, the human and the clocks
are the environment.

### `CasperDeploy`

`chain` is what the network did with a deploy, `indexed` which of the four queries
of `await_casper_finality` show it, `call` the caller's progress.  A query that is
pending, unknown, in error or unanswered is the same to the code (`Unseen`).  The
relay of a wallet's deploy differs in what it reports (`StatusOf`).  A broadcast
whose answer is lost is `NoAnswer`: reported failed, possibly executed; that is
`OperatorExecution`'s outcome *unsure*.

### `Suppression`

The rules in the order of their ids.  A triage process looks a rule up and spends
it in two requests (`LookUpRule`, `Spend`), between which others act.  A `decision`
distinguishes a signal suppressed under a rule from one suppressed by the model
alone (`unruled`).  A rule keeps whether it was learned from a demo proposal:
`DeleteDemoRules` is what `POST /demo/reset` does to those (`demo_cleanup.py:70-72`),
after which their fingerprint can be learned again, with a count of 0.  Ids are not
given out twice, so `rules` keeps what was deleted and `deleted` says which.

### `LlmBudget`

Every change of the meter is one step, because it is made under a file lock, but
for a process that dies between truncating and writing (`Tear`).  What a call really
uses is any of `Tokens`: the estimate (`len(text)//4` and the answer's maximum) does
not bound it, `commit` records whatever the answer says, and a call that fails is
released (`llm_reasoning.py:120-123`) although the provider may have used tokens for
it.  Three history variables, by the day a call began: `used`, what the models really
used; `unforeseen`, the part of it beyond an estimate or for a call that failed;
`unmetered`, the part the meter neither counted nor had set aside.  `InFlight` counts
what is set aside for the calls under way of a day, as the elements of a set
(`Held`), so that the provers can count it too.

`BudgetIsKept` therefore does not say that the limit bounds what is used.  It says
that nothing else gets past it: beyond the limit there is only what was unforeseen,
and one limit more for each midnight and each torn file.

### `RateLimit`

`hits` is `_hits`; `served`, the times of the requests let through, and `refused`,
the last refusal since, are history variables.  Time is discrete
and a request arrives at a moment, any number of them at the same one.

### `PaymentSettlement`

`early[p]` counts how many more questions about a transfer come before the indexer
shows it, which bounds the lag in the only unit the code can notice.  The
provider's handler runs the same look-up as the direct route, with attempts of its
own, inside the gateway's attempt; `RedeemFails` is also the gateway's time limit
of 20 seconds on it.

`Good` is the verdict of `_extract_transfer_proof_status` on a transfer the indexer
shows.  That function looks for the payee and for an amount independently over all
transfers of a deploy (`x402_payments.py:382-385`), so a deploy of several transfers can
be good in this sense without having paid the payee enough; `PaymentIsJudged` is
about the retries around the verdict, not about the verdict.

### `DemoSession`

`trigger` is the request a trigger is at, `reset` the step of a reset; the lock is
held while either is under way.  A request that fails may have had its effect
(`Failed`), and the compensation may fail as well; it concerns the simulator only.
`rows` is `detected` from the prepare on, which inserts the proposal in that state
(`submission.py:347-351`), and `confirmed` once its ProposalCard is.  So
a proposal is shown as `DETECTED` before it has a room, a triage agent or a card, and
one whose trigger ended early stays so until a reset (`HalfMade`).  `SessionIsWhole`
says what holds in spite of that: a confirmed one is staffed
(`ConfirmedIsStaffed`), a half-made one is the trace of a request that failed or of a
death, one of each at most (`HalfMadeIsAFailure`), and no reset takes the rows of a
trigger under way or of a scenario that still runs.  `Restart` frees the lock, which
is in memory.  Identifiers are fresh; proposals that are not demonstrations are
not in the model, and the agents, whose cards for a deleted proposal the gateway
refuses, are not either.

### `OdraReceipt`

The older contract, one action per entry point that writes (`propose` is
`propose_envelope`, `approve` is `approve_envelope`; the V3 module has the long
names).  Its owner is whoever configures it first, and any caller stores a receipt
once the quorum is met, also over an earlier one.  What the receipt says is compared
with nothing: `RootOf` tells which envelope would say the same, and
`ReceiptReferencesEnvelope` is finding 4.

## 3. The runs

| Run | Instance | States | Shows |
|---|---|---|---|
| `ledger` | 1 proposal under one of two quotas: two plans and two approvals, or two proposal cards, assessments, verdicts and receipts; one card of every other type | 740 000 | replay, legal path, authority never reopened, one receipt |
| `submission` | one of three worlds: *clients*, 1 proposal, 3 keys (symmetric), 2 agents and the gateway's key, 3 messages; *floor*, 1 proposal, agents with fresh keys, 2 Assessments of both levels, a plan and a Verdict in every order after triage; *rooms*, 2 proposals with 3 cards, 2 rooms (symmetric) opened for either or for none at any time, 3 messages in any of them, confirmations that name any room or none | 814 000 | a confirmed card stands in a room, with the other confirmed cards of its proposal; no high impact comes behind a plan left to the policy; refinement of `CardIntent` |
| `authorization` | 1 proposal, 2 plans, 2 human decisions, 1 policy authorization, 2 nonces (symmetric), the clocks | 370 000 | one grant, grant explains state, one decision per nonce, visible grants, resumable rows, refinement of `ExecutionAuthority` |
| `restart` | the same with `Restart` | 531 000 | what is spent is the plan in force, a grant freezes the plan |
| `operator` | 1 proposal, 1 plan of 2 envelopes, 1 nonce and policy; 3 messages, 1 retry, 1 death, 1 lost request; weak fairness of the operator | 193 000 | broadcast once, only as authorised, receipts backed by deploys, every grant reaches the operator |
| `council` | 1 proposal, a reviewer that may decide anything with 1 challenge; 7 messages, 1 death, 1 lost request; weak fairness of each agent | 613 000 | types, the challenge loop ends, no verdict on a replaced Assessment unless the stale-card guard got no answer, a signal comes to a decision |
| `commander` | 1 proposal, 3 nonces, 3 deaths, 2 lost requests; weak fairness of the commander | 111 000 | types, one plan per request, the human is asked about the plan in force, a verdict gets its plan |
| `services` | the seven components of the table below and the V3 contract, each alone | 474 000 | their properties |
| `stale_approval`, `stale_plan`, `restart_grants` | the instance of `authorization`, the last with `Restart` | | findings 1 to 3 |
| `odra_reference` | the older contract: 2 accounts, 1 proposal, 2 envelopes, 2 contents | | finding 4 |

In `services` the variable `component` chooses which component a behaviour is one
of; the others keep their initial state, so the run is the union of eight small
ones, each with its own fairness.

| Component | Instance | Property |
|---|---|---|
| `RateLimit` | 2 clients, limit 2, window 2, 6 moments | `LimitIsExact`: never more than the limit in any window, nobody refused below it |
| `LlmBudget` | 3 processes, limit 3, estimates 1 and 2, real uses 0, 2 and 3, 3 calls, 2 days, 1 death in a call, 1 in a write | `BudgetIsKept`: the use of a day exceeds the limit only by what was unforeseen and by what midnights and torn files cost |
| `Suppression` | 4 signals of 2 fingerprints, 1 of them urgent, 2 triage processes, maximum 2, 2 rules, 1 lost answer, resets | `PrintIsBounded`: a rule suppresses no more than it counts, the rules in force for a fingerprint no more than the maximum, and only rules of the demo are deleted |
| `PaymentSettlement` | 2 requests, a good and a bad transfer, 4 attempts, lag 2, delay 2, 2 lost requests, each route | `PaymentIsJudged`: settled is paid, a lag within the attempts strands nobody |
| `DemoSession` | 3 triggers, 3 failed requests, 1 restart | `SessionIsWhole`: nothing half-made is confirmed or left without a failure, nothing active deleted |
| `CasperDeploy` | a deploy of the operator and a wallet's, 4 views, 2 rounds | `FinalityIsTrue`: what a call reports is what the chain did |
| `OdraReceipt` | 4 accounts, 2 proposals, 2 envelopes, 2 contents | `ReceiptHasQuorum`: every receipt has a quorum of distinct signers |
| `GovernanceReceiptV3` | 2 proposals, installations with every kind of role collision | `FinalizedByQuorum`, `ActionAuthorizedOnce`, `TransferWithinRequest`, `ReceiptIsFinal`: quorum, one action once, amounts within the request, finality |
| payments, sessions, deploys | weak fairness of requests under way | `NothingHangs`: every request is answered, the lock released, every call ended |

A type invariant of the first modules is proved and not checked again (`LedgerTypeOK`,
`TypeOK`, `OperatorTypeOK` and those of the two contracts).  The others are checked:
`CouncilTypeOK`, which contains the type invariant of `CardSubmission`, and
`SagaTypeOK`, and `ServicesTypeOK`, that of the seven; all three are proved as well.

**Bounds.**  `Quota` bounds the cards of each type one proposal collects,
`Nonces` the nonces, `Envelopes` and `Installations` the arguments of the
contract's callers; `MaxMessages`, `MaxCrashes`, `MaxLosses` and their like bound
what happens to an agent (`MaxRetries`, `MaxAttempts` and `MaxChallenges` are the
code's own bounds, made smaller).  No other bound is in any guard.

* Handlers read and write the rows of one proposal only (the suppression rules,
  which have a module of their own, are the exception), so a second proposal adds
  interleavings of independent steps and no new state of either: one proposal is
  enough for the gateway runs.  Rooms and messages are the other exception, since a
  card may be confirmed by a message of another proposal's room: `submission` has a world
  with two proposals for it.  Every property but the replay relates at most two
  plans, two decisions or two nonces, and two of each are there together with the
  cards that lead to them.
* A second broadcast needs two readings of one authority, or one of each of two:
  three messages, or one and a death, give both.
* An agent's `MaxMessages` is above what its run's losses and deaths can make it
  post, so the bound never stands in for a property; the wordings it may choose
  grow with its deaths.  `MaxMessages` of the operator also stops the gateway from
  publishing; a grant needs two, one post that is lost on the gateway's side and
  one that grants, and `GrantReachesOperator` is not vacuous with three.
* `MaxSuppressions` is 2 where the code has 3, and `DailyLimit` 3 tokens: two
  processes at the last unit of a bound is the case that matters, and a third
  signal and a third process are there to go over it.  Real uses lie below, at and above
  the estimates and the limit; a second rule can only come after a reset.
* The clock of `RateLimit` runs over more than two windows, so every request expires, and
  limit and window are equal so that a full window and an empty one both occur.
* The attempts of `PaymentSettlement` exceed lag plus losses in some behaviours and
  not in others.
* The views of `CasperDeploy` are the code's four; its ten rounds are two, since a
  round leaves nothing behind but its number.
* `DemoSession` needs three identifiers, for a trigger before, during and after a
  reset.
* The contract runs have two proposals because the table of authorised actions is
  shared between them.

**Deadlock** is not checked: proposals end (`RESOLVED`, `CLOSED_FALSE_ALARM`,
`SUPPRESSED`), quotas run out, and a contract with every receipt final refuses
every call.

**Symmetry** over nonces is used only where every property is symmetric in them
and none is a liveness property, over keys in `submission` likewise.

**Fairness.**  In the gateway nothing is scheduled by itself but the sleeps of one
handler, and every retry is a client's decision: its specifications assume no
fairness.  `FairOperatorSpec` assumes weak fairness of `Working`, all the
operator does when nothing goes wrong: `LocalRoomAgent.run` polls every second for
ever, whatever a handler raises, and `run_with_supervisor` starts a dead operator
again.  Nothing is assumed of the environment, of losses or of deaths.

`GrantIsHonoured` has two halves.  `GrantReachesOperator` is why this is not obvious: the operator tries a `PENDING`
authorization a few times and then drops the message for good.  It holds because
an authorization only becomes `PUBLISHED` in a handler that has posted its card
once more just before; a gateway that did not post a card twice
(`DeliverAgain_Once`) would strand it.  It has two honest exceptions: an
authorization that runs out, and a request that is lost (one lost consume request
leaves the grant unused until the operator restarts).  `GrantIsExecuted` excludes
deaths and failed envelopes besides, because the code resumes neither: a consumed
authorization whose execution was interrupted stays `CONSUMED` and the proposal
`APPROVED`.

`FairCouncilSpec` and `FairSagaSpec` assume the same of the other agents' loops,
each agent for itself, the time limit of every request included.  `SignalIsSettled`
and `PlanIsAsked`, one half of `VerdictIsFollowed`, except deaths, losses and
exhausted attempts, because the code does not make up for them (see *known
behaviours*); its other half, `VerdictIsPlanned`, holds through deaths.  The
`FairSpec`s of `PaymentSettlement`, `DemoSession` and `CasperDeploy` assume that a
request under way ends, with an answer or by its time limit (`httpx` has one in
every call); they assume nothing of anybody who starts something.

### Findings

1. `stale_approval`: the comment at `gateway/routes/nonce.py:278` says the nonce
   must match the *current* plan; the code compares with the hashes in the
   request, and `/nonce/create` gives out nonces for a plan already rejected.  An
   approval of the old plan can move the proposal to `APPROVED`.  Nothing wrong
   is executed (`SpentPlanIsInForce`): the proposal is stuck instead.
2. `stale_plan`: the staleness check of `/confirm` looks at confirmed cards only,
   although its comment (`submission.py:789`) claims it catches every stale plan.
   A plan sealed before a revision is confirmed after it while the `REJECTED`
   card waits for its notification.
3. `restart_grants`: the start-up migration publishes `PENDING` rows by a rule
   about the proposal; a `PENDING` human approval becomes a second published
   authorization.  If it is for a superseded plan it can never be consumed
   (`SpentPlanIsInForce`).  If it is for the plan in force both can be; that needs a
   nonce for a plan that policy authorises too, which `/nonce/create` gives out and
   the commander, who asks for one or the other, does not request.
4. `odra_reference`: the comment at `contracts/odra-governance-receipt/src/lib.rs:195`
   says every final receipt must reference an envelope approved by the quorum;
   `store_governance_receipt` asks for the quorum and compares nothing, so any caller
   stores any content once the quorum is met, and replaces it.  The quorum itself
   does hold (`ReceiptHasQuorum`).  V3 finalizes the committed envelope only.

### Known behaviours

What the models show of the code besides, none of which contradicts a property
above.  No run is kept for them.

* **Stale floor.**  The floor of a plan is read from the latest *sealed*
  Assessment, confirmed or not.  One that was sealed and never confirmed (its
  agent died in between) lowers the floor below the Assessment the reviewer
  judged.  The converse, a high impact confirmed behind a plan left to the policy,
  never happens (`FloorStands`).
* **A signal that is not retried.**  When the triage agent dies between prepare
  and confirm, the card it makes from the same message may have other words under
  the same key.  The gateway answers 409 each time and the signal stays
  `DETECTED`, although the comment at `agents/rowan/__init__.py:678` expects a retry
  after a restart.
* **Revision counter.**  A restarted commander restores its counter from the plan
  the gateway shows it and falls back to 1 when there is none for it to read; a
  later plan may repeat the revision of an earlier one.  The code uses the
  revision for nothing but comparing and wording.
* **A revision request taken for answered.**  The commander passes over a
  `REJECTED` card that its latest plan already answers.  The gateway may answer
  that question with a plan that was sealed and not confirmed, and then the request
  waits until the human rejects again.
* **Half-made proposals.**  `/prepare` inserts a proposal in state `DETECTED`, which
  `GET /proposals` lists (`app.py:709`), although the comment at `submission.py:335-338`
  wants no state the Council Chamber has not seen.  A trigger that fails after it
  leaves the proposal so; the compensation (`demo.py:289-309`) concerns the simulator,
  and only a reset repairs it.
* **The room is the first confirmer's.**  A proposal without a stored room takes the
  one its first confirmation names (`submission.py:644`, `:824`), another proposal's
  included, and `sender_role` is what the poster says (`rooms.py:255`).  What is left of
  "the card stands in its room" is `ConfirmedCardIsInRoom`.
* **Calls that fail are free.**  The budget does not count what a failed call used, nor
  stop an answer that used more than was reserved for it.  `BudgetIsKept` names both as
  `unforeseen`, and there is no bound on them.
* **Rules of the demo.**  A reset of the demo deletes the rules learned from its
  proposals, and the fingerprint can be learned again with a count of 0.
* **Exhausted rules.**  The lookup leaves out exhausted rules, so a signal under
  one is treated as if there were none: suppressed on the model's word, without a
  count.  `PrintIsBounded` counts what is suppressed *by a rule*.
* **Midnight and torn meter.**  A reservation of yesterday that is given back to
  today's meter makes room it never took, and a process that dies between
  truncating and writing the meter begins the day's budget again.  `BudgetIsKept`
  says that each costs one limit more at most.
* **An authorization that expires** while its proposal is `APPROVED` leads nowhere,
  and **a demonstration scenario** whose activation is not answered runs until a
  reset.

## 4. What is proved

`tlapm` checks every proof; nothing is assumed but the named assumptions on the
constants: `LedgerAssumption` (submitted types are card types, quotas are
numbers, nonces are not the reserved words), `SubmissionAssumption` and
`ClientsAssumption` (nobody submits an approval, there is a wording, clients have
roles, the marks for *no room* and *no proposal* are neither), `CouncilAssumption` (a key for every agent and message, a wording for every
revision and death), `LifecycleAssumption` (decisions come from the gateway's routes; every
proposal has a fingerprint), `OperatorAssumption` (there is a proposal, a plan has an
envelope, receipts are submitted cards), `CommanderAssumption`, and those of the
contracts and services; every bound is a number.  Proposals, keys, messages, nonces,
quotas, envelopes, accounts, clients and processes are arbitrary sets of any size,
but for the accounts of the Odra contract, which are finitely many.

**The ledger** (`ProposalLedgerProofs`).  `ReplayCorrect`,
`LegalPathCorrect`, `OnceCorrect` and `NeverReopenedCorrect` need one another.  `ReplayCorrect` says *if*
a card is the last driver the state is its resolution; a step needs the positive
form, that there is a last driver or the proposal is fresh, which is the
strengthening `Replayed`.  With it a confirmation behind which nothing is
confirmed makes its card the new last driver, its prerequisite is the resolution
of the old one, and the path stays legal.  The last
two follow from a third conjunct: behind an authority only receipt and summary, so that the state tells
which cards the chain can hold.

**The lifecycle** (`AuthorizationProofs`).  The inductive invariant is `IInv`,
of which `CoreInv` also survives `Restart`:

* published plans only accumulate, and none is published while the proposal is
  settled, so a plan in force under a grant stays it;
* a grant belongs to a settled proposal;
* the plan of a row is never newer than the plan its envelopes come from, and
  both were published, so when consumption finds `plan` in force they are equal;
* a published policy card settles its proposal, which is why the rows the
  migration publishes do not unfreeze a plan.

`OneGrantPerProposal` is proved for one lifetime of the gateway only, and finding
3 is why.  Each of the steps has a lemma of its own about `Effects`, what a step
may do to cards, plans and states.

**The tables, and the abstract authority** (also `AuthorizationProofs`).  What the tables tell of
each other needs a second invariant, `GrantInv`, on top of `IInv` and for one
lifetime of the gateway:

* a row announces one sealed card, no two rows the same, and nobody else
  publishes it: a submitted card is never an authority, and the room post of a
  revision is about a card with another decision (`RowOK`, `OneRowPerCard`).  So the
  card is out exactly when the row is (`VisibleCorrect`), and a `PENDING` row
  finds its card still to be published (`RetryCorrect`);
* a nonce that was consumed or invalidated by a decision never changes again, and every
  decision closes the nonce it quotes, so no later decision quotes it
  (`OneDecisionCorrect`);
* a row becomes `PUBLISHED` in the step that moves its proposal to `APPROVED` or
  `AUTHORIZED`, and no submitted card reaches either state (`ExplainsCorrect`).

`ImplementsCorrect` is the refinement.  A confirmed plan is an `Adopt`: its
prerequisite state is not a settled one, so by `GrantExplainsState` nothing is
granted, and what is confirmed is newer than all that was.  The first or a later
attempt that gets to `advanced` is a `Grant`, by a card sealed behind the plan; a
consumption is a `Spend`, of the one grant there is, with the envelopes that
`IInv` shows to be those of the plan in force; everything else is not seen.

**The operator** (`OperatorProofs`).  `OperatorImplementsLifecycle` says that every
step of operator and gateway together is a step of the lifecycle, or none, so
the theorems above hold next to the operator.  `BroadcastOnce` is not inductive:
the strengthening `AgentInv` adds that whatever was broadcast left a `CONSUMED`
row (`BroadcastIsSpent`), which no step removes (`SpentKept`), and that while the
operator executes the envelopes it has not come to are untouched (`ExecutingOK`).
A consumption that would start them again finds, by `OneGrantPerProposal`, that no
other row of the proposal is granted, hence nothing broadcast.
`ReceiptIsBacked` follows from the second half of `ExecutingOK` (behind the
operator every envelope is out, unless it knows of a failure) and from
`ReceiptsKept`: nobody else seals a receipt.  `BroadcastIsAuthorized` is
`SpentPlanIsInForce` carried over; the run `operator` has one plan, so that the plan
broadcast is the one *in force* rests on this theorem and, for two plans, on the
run `restart`.

**The contract** (`GovernanceReceiptProofs`).  `CountCorrect` says the stored
counter is the number of distinct approvals of the committed hash; the quorum
follows because an approval is only stored by one of the three signers for a
committed envelope, and a final receipt keeps the counter it was finalized with.

**The submission protocol** (`SubmissionProofs`).  Clients may send anything, so
everything must follow from what the gateway keeps.  `RowsInv` says that a row and
its card agree (`RowInv`: the type, the decision, who may submit it; a row that
names a message is confirmed, and the message carries it), that a card, a key and
a message each lead to one row (`RowsDiffer`), and that a confirmed card has a row.
The first half of `InRoomCorrect` is read off it.  The second,
`ConfirmedCardsShareRoom`, is a conjunct of the invariant of its own: a confirmation is in the
room stored with the proposal or in the one it stores, and comes after all that is
confirmed; only `CreateRoom` changes a stored room, and it finds no room of the
proposal's own, so everything confirmed was in one room.
`HonoursCorrect`, the refinement of `CardIntent`,
needs `RowsDiffer` for every step: a seal is under a key without a row, and the row
a confirmation changes is the only one under its key, so the abstract function of
keys changes at one point.  `FloorCorrect` needs `PlansAreLate`: once a plan is sealed the state never
returns to one in which an Assessment is accepted, so none is sealed behind it.

**The council** (`CouncilProofs`), on top of those.  The invariant `CouncilInv` has
four layers, each proved for every step of every agent:

* `WorkInv`: what an agent remembers and works on is well formed, and its job is
  the one its row was sealed for (`CouncilTypeCorrect`);
* `CountInv`: the challenges of a proposal are those the reviewer's life remembers,
  `PerLife` for each death, and one for each lost answer; and a reviewer that is
  challenging has one left.  `ChallengesCorrect` follows;
* `RoomInv`, `JobsSourced`: a message shows a card of the role that sent it, an
  agent's key names the message it answers, and the proposal is `TRIAGED` or
  `CHALLENGED` only when a verdict has closed the last Assessment;
* `LoopInv`: the diagnosis seals no Assessment while one before it is open.  The
  first ones are all keyed by the first message that routed the proposal, hence one
  row; a later one follows a confirmed verdict, and the reviewer, whose guard sees
  that verdict, is not working on an older Assessment (`ReviewLoop`).

`VerdictCorrect` follows from the last layer (`JudgesLast`).  All of `LoopInv` is
about proposals outside `unguarded`, and must be: after two deaths and a lost
request of the guard a verdict *can* judge a replaced Assessment.  The
diagnosis dies and posts its Assessment again, the reviewer challenges the first
message, dies, reads the second, and its question about overtaken cards is lost.
No run is kept for it; the code logs the failure of the guard and goes on by design.

**The commander** (`CommanderProofs`).  `SagaIsClientCorrect` says that every step of
the saga, of the reviewer, the human and the clocks is one of the lifecycle, or not
seen there, so all of `AuthorizationProofs` holds beside it.  `OnePlanCorrect` follows
from `RequestsOK`: a plan is prepared only under a key no plan has, and nobody else
prepares one.  For `AskedCorrect` the invariant (`AskOK`, `PhaseOK`) adds what the
agent's phases know: a nonce can decide only from the moment its challenge is
posted; between the confirmation of the plan and that moment no other nonce of the
proposal can decide (`Undecided`), so nobody moves the proposal, and the plan the
nonce is bound to stays in force.

**The components beside the council** (`ServicesProofs`), each by an invariant of its own:

* `FinalityCorrect`: a view shows executed deploys only, and nothing else makes a
  call report success or failure.
* `SessionCorrect`: trigger and reset are never under way at once, what a trigger's
  step has behind it stands (`TriggerIsAt`), a reset deletes only when the
  simulator runs nothing, and a proposal becomes half-made only in a step that raises
  `failures` or `restarts`.
* `PaymentCorrect`: a request at each of its stages (`JudgedAs`) has spent an
  attempt on every delay it met, so a good payment given up on had more lag, or more lost
  requests, than attempts.  This holds because delays only shrink and losses only
  grow (`TimeGoesOn`).
* `SuppressionCorrect`: what a rule suppressed is counted (`Paid`), no two rules in
  force have one fingerprint, no signal is in two hands, and a deleted rule, which
  nobody can spend any more, keeps the count it had.
* `LimitCorrect`: the queue is the end of what was served, in order, and what it has
  forgotten has expired (`RateInv`), so a window holds only what is in the queue.
* `BudgetCorrect`: two inequalities at once (`Budgeted`).  What was used and is set
  aside, less what was unforeseen, is within the room there is (a limit for every day
  and every torn file), and, one limit of that room aside, within what the meter
  says.  A reservation checks the meter and so keeps the first by the
  second; a midnight or a torn file resets the meter and so keeps the second by the
  first.  `Told` is the same for what the meter was not told, on a first day without a
  torn file.  Nothing relates an estimate to a use.
* **The older contract.** The counter is inductive together with types and the fact
  that an approval presupposes an envelope, which is why `propose_envelope` may set
  the counter to 0: nobody can have approved before it.
* `ServicesTypesCorrect`: the types of all seven (`ServicesSpec`, the conjunction of
  their specifications).  Those of the meter and of the session say more than sets of
  values: a reservation never exceeds the limit, no room is attached to a proposal without a
  row, and each needs the invariant of its component to be inductive.

**Only model-checked.**  The liveness properties (`GrantIsHonoured`, `SignalIsSettled`,
`VerdictIsFollowed`, `NothingHangs`): they rest on fairness, and what is enabled when
is out of the prover's reach.  Every safety property of a passing run is a theorem.
The three disagreements of section 3 are counterexamples TLC finds.

## 5. Not modelled

* **The operator's room path** (`APPROVE <nonce>` typed in the Council Chamber).
  The shipped flow cannot reach it: the commander leaves the nonce out of its
  challenge (`agents/alden/__init__.py:972`), the gateway posts the challenge as the
  recorder (`nonce.py:847-865`), and the operator's handler only learns challenges
  that the commander posted with plan hash and nonce (`agents/locke/__init__.py:844-890`).
  The endpoint it would call, `POST /nonce/consume`, is in `AuthorizationLifecycle`.
* **The policy branch of the commander** (`agents/alden/__init__.py:1059-1111`): every
  shipped runbook anchors a receipt, an action that is always left to a human.
  The gateway's policy authorization is modelled.
* **The check of a transfer** (`x402_payments.py:359-405`): the models keep its verdict
  (`Good`), see `PaymentSettlement` above.
* **A restart of the gateway next to an agent**, except in `DemoSession`: its
  tables survive and its handlers are atomic, so what an agent sees is a lost
  request; the migration is in `restart`.
* **Exports, proof pack, evidence, the MCP server, CSPR.cloud, dashboards, the
  off-line verifier**: pure functions of stored rows, and read-only queries.
* **DAO policy and mandate**: pure functions of a plan, of which the models keep
  the verdict.  **Authentication**: a comparison of keys, kept as the role of a
  request.
* **The plain receipt contract** (one entry point that overwrites one key), the
  registries in the Odra crate (they store what they are given), **deployment
  scripts** and samples.
* **Encodings**: hashes are the values they are hashes of, deploy arguments and
  card texts are not looked at.

## 6. Running

    tlc -config MCAuthorization.cfg MCAuthorizationLifecycle
    tlapm AuthorizationProofs.tla

## 7. Next

In order of worth: the safety half of the liveness properties (that no reachable state
of an agent is one its loop cannot leave), as invariants; a second refinement of the
operator, to an abstract execution that broadcasts every envelope of a grant once.
