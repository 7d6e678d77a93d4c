---------------------------- MODULE CommanderSaga ----------------------------
(***************************************************************************)
(* The Protocol Strategy Agent, agents/alden, as a client of the           *)
(* authorization lifecycle.                                                *)
(*                                                                         *)
(* A confirmed Verdict makes it plan: prepare, post and confirm a          *)
(* ResponsePlan, create a nonce and post the approval challenge.  A human  *)
(* who asks for a revision makes it plan again.  Every shipped runbook     *)
(* anchors a receipt, an action both the agent and the gateway's floor     *)
(* leave to a human, so the policy branch of the saga is never taken.      *)
(*                                                                         *)
(* The agent's memory dies with it; it then reads the room from its start, *)
(* skips the cards later ones have overtaken, and restores what it needs   *)
(* from the gateway.  Within a life a message is read once.                *)
(***************************************************************************)
EXTENDS AuthorizationLifecycle

CONSTANTS
  MaxAttempts,    \* of a prepare request that is answered 409
  MaxCrashes,     \* bound: deaths of the agent
  MaxLosses       \* bound: its requests or answers that are lost

ASSUME CommanderAssumption ==
  /\ MaxAttempts \in Nat \ {0}
  /\ {MaxCrashes, MaxLosses} \subseteq Nat

VARIABLES
  room,       \* the Verdict and the REJECTED cards in the room, in order
  request,    \* the request behind each plan: its key and its revision
  offset,     \* how far the agent has read each room
  memory,     \* _trusted_context
  job,        \* the proposal, stage and progress of the saga under way
  gaveUp,     \* proposals whose saga was refused
  crashes, losses

agentVars == <<room, request, offset, memory, job, gaveUp, crashes, losses>>
sagaVars == <<vars, agentVars>>

NoContext == [known |-> FALSE, submitted |-> FALSE, source |-> 0, revision |-> 0]
NoJob == [phase |-> "idle"]

Phases == {"idle", "preparing", "posting", "confirming", "asking", "challenging"}

SagaTypeOK ==
  /\ TypeOK
  /\ \A p \in Proposals :
       /\ room[p] \in Seq(DOMAIN cards[p])
       /\ offset[p] \in 0 .. Len(room[p])
       /\ DOMAIN request[p] \subseteq DOMAIN cards[p]
       /\ memory[p].source \in {0} \cup DOMAIN cards[p]
  /\ job.phase \in Phases
  /\ gaveUp \subseteq Proposals
  /\ crashes \in 0 .. MaxCrashes /\ losses \in 0 .. MaxLosses

\* The council has assessed a signal, and the reviewer has posted its Verdict
\* and not confirmed it yet.
Reviewed ==
  LET done(t, o) == [NewCard(t, o, "none") EXCEPT !.published = TRUE] IN
  <<done("ProposalCard", "none"), done("TriageDecision", "route"),
    done("Assessment", "none"), NewCard("Verdict", "CONFIRM", "none")>>

SagaInit ==
  /\ state = [p \in Proposals |-> "ASSESSED"]
  /\ cards = [p \in Proposals |-> Reviewed]
  /\ visible = Proposals \X (1 .. 4)
  /\ nonce = [p \in Proposals |-> [n \in Nonces |-> NonceRow(0, "free")]]
  /\ auths = {} /\ learned = {}
  /\ room = [p \in Proposals |-> <<4>>]
  /\ request = [p \in Proposals |-> <<>>]
  /\ offset = [p \in Proposals |-> 0]
  /\ memory = [p \in Proposals |-> NoContext]
  /\ job = NoJob
  /\ gaveUp = {} /\ crashes = 0 /\ losses = 0

-----------------------------------------------------------------------------
(***************************************************************************)
(* The reviewer, the human and the gateway.                                *)
(***************************************************************************)

ReviewerConfirms(p) == Confirm(p, 4) /\ UNCHANGED <<authorityVars, agentVars>>

HumanDecides ==
  /\ \E p \in Proposals, n \in Nonces : \E s \in DOMAIN cards[p] :
       \/ ConsumeNonce(p, n, s, s, "advanced")
       \/ Revise(p, n, s)
       \/ FalseAlarm(p, n, s)
  /\ UNCHANGED agentVars

RoomHearsOfRevision(p, s, reach) ==
  /\ NotifyDecision(p, s, reach)
  /\ cards[p][s].outcome = "REJECTED"
  /\ room' = [room EXCEPT ![p] = Append(@, s)]
  /\ UNCHANGED <<request, offset, memory, job, gaveUp, crashes, losses>>

TimePasses ==
  /\ \E p \in Proposals, n \in Nonces : LapseNonce(p, n)
  /\ UNCHANGED agentVars

-----------------------------------------------------------------------------
(***************************************************************************)
(* Reading the room.                                                       *)
(***************************************************************************)

\* The plan of a proposal sealed last, confirmed or not.
IsLatestPlan(p, s) ==
  s \in DOMAIN request[p] /\ \A t \in DOMAIN request[p] : t <= s

\* The revision of the plan a REJECTED card turns down.
RejectedRevision(p, s) == request[p][nonce[p][cards[p][s].ref].plan].revision

\* A human rejected a plan that has a later revision by now.
IsAnswered(p, s) ==
  \E t \in DOMAIN request[p] :
    IsLatestPlan(p, t) /\ request[p][t].revision > RejectedRevision(p, s)

\* _restore_context_from_gateway: the revision of the latest plan, or 1 if the
\* gateway cannot be asked for it.
Restored(p, fetched) ==
  [known |-> TRUE, submitted |-> FALSE, source |-> 0,
   revision |-> IF fetched /\ request[p] # <<>>
                THEN (CHOOSE r \in {request[p][t] : t \in DOMAIN request[p]} :
                        \E t \in DOMAIN request[p] :
                          IsLatestPlan(p, t) /\ request[p][t] = r).revision
                ELSE 1]

ContextOf(p, fetched) ==
  IF memory[p].known THEN memory[p] ELSE Restored(p, fetched)

Start(p, context) ==
  /\ memory' = [memory EXCEPT ![p] = context]
  /\ job' = [phase |-> "preparing", prop |-> p, source |-> context.source,
             revision |-> context.revision, attempts |-> 0, plan |-> 0,
             nonce |-> "none"]

TakeVerdict(p, s) ==
  /\ cards[p][s].type = "Verdict" /\ ~ memory[p].known
  /\ Start(p, [known |-> TRUE, submitted |-> FALSE, source |-> s, revision |-> 1])

\* The rejection of a plan the agent still has to answer.  `restored` and
\* `fetched`: the gateway told it the latest plan when it restored its context
\* and when it compared the revisions.
TakeRejection(p, s, restored, fetched) ==
  LET c == ContextOf(p, restored) IN
  /\ cards[p][s].type = "StructuredApproval"
  /\ ~ (c.source = s /\ c.submitted)
  /\ fetched => ~ IsAnswered(p, s)
  /\ Start(p, [c EXCEPT !.submitted = FALSE, !.source = s, !.revision = @ + 1])

\* It is taken for an old one, and the context stays as restored.
IgnoreRejection(p, s) ==
  /\ cards[p][s].type = "StructuredApproval"
  /\ ~ (memory[p].source = s /\ memory[p].submitted)
  /\ IsAnswered(p, s)
  /\ memory' = [memory EXCEPT ![p] = ContextOf(p, TRUE)]
  /\ UNCHANGED job

\* A card the agent has dealt with.
PassOver(p, s) ==
  /\ IF cards[p][s].type = "Verdict" THEN memory[p].known
     ELSE memory[p].source = s /\ memory[p].submitted
  /\ UNCHANGED <<memory, job>>

Handle(p, s) ==
  \/ TakeVerdict(p, s)
  \/ TakeRejection(p, s, TRUE, TRUE) \/ IgnoreRejection(p, s)
  \/ PassOver(p, s)

\* _fetch_assessment: neither the gateway nor the room's history shows it the
\* Assessment, and without one it drops the card.
AssessmentOutOfReach(p) == ~ memory[p].known /\ UNCHANGED <<memory, job>>

\* Questions the gateway leaves unanswered: the stale-card guard lets the card
\* pass, and there is no Assessment, or no latest plan to compare with.
HandleUnanswered(p, s) ==
  \/ NewerConfirmed(p, s) /\ Handle(p, s)
  \/ ~ NewerConfirmed(p, s) /\ AssessmentOutOfReach(p)
  \/ /\ ~ NewerConfirmed(p, s)
     /\ \E restored, fetched \in BOOLEAN :
          ~ (restored /\ fetched) /\ TakeRejection(p, s, restored, fetched)

NextCard(p) == room[p][offset[p] + 1]

Read(p) ==
  /\ job.phase = "idle"
  /\ offset[p] < Len(room[p])
  /\ offset' = [offset EXCEPT ![p] = @ + 1]
  /\ \/ NewerConfirmed(p, NextCard(p)) /\ UNCHANGED <<memory, job, losses>>
     \/ ~ NewerConfirmed(p, NextCard(p)) /\ Handle(p, NextCard(p)) /\ UNCHANGED losses
     \/ /\ losses < MaxLosses /\ losses' = losses + 1
        /\ HandleUnanswered(p, NextCard(p))
  /\ UNCHANGED <<vars, room, request, gaveUp, crashes>>

-----------------------------------------------------------------------------
(***************************************************************************)
(* The saga.                                                               *)
(***************************************************************************)

Drop == job' = NoJob

GiveUp == Drop /\ gaveUp' = gaveUp \cup {job.prop}

\* The gateway took a request: the agent goes on, or never learns of it.
Answered(next) ==
  \/ job' = next /\ UNCHANGED losses
  \/ losses < MaxLosses /\ losses' = losses + 1 /\ Drop

\* Mutant: every request has a key of its own.
Under_Fresh(p, source) == {}

\* The key of a prepare request is derived from the card that started the saga.
Under(p, source) == {s \in DOMAIN request[p] : request[p][s].source = source}

PreparePlan ==
  LET p == job.prop  s == Len(cards[p]) + 1 IN
  /\ job.phase = "preparing"
  /\ Under(p, job.source) = {}
  /\ Prepare(p, "ResponsePlan", "none", "human")
  /\ request' = [request EXCEPT ![p] = [t \in DOMAIN @ \cup {s} |->
       IF t = s THEN [source |-> job.source, revision |-> job.revision]
                ELSE @[t]]]
  /\ Answered([job EXCEPT !.phase = "posting", !.plan = s])
  /\ UNCHANGED <<authorityVars, room, offset, memory, gaveUp, crashes>>

\* An earlier life of the agent prepared the same plan.
PreparedBefore ==
  /\ job.phase = "preparing"
  /\ \E s \in Under(job.prop, job.source) :
       /\ request[job.prop][s].revision = job.revision
       /\ job' = [job EXCEPT !.phase = "posting", !.plan = s]
  /\ UNCHANGED <<vars, room, request, offset, memory, gaveUp, crashes, losses>>

\* 409: the upstream card is not confirmed yet, or the key holds another plan.
PrepareRefused ==
  LET p == job.prop  tried == job.attempts + 1 IN
  /\ job.phase = "preparing"
  /\ IF Under(p, job.source) = {} THEN ~ Allowed(p, "ResponsePlan")
     ELSE \A s \in Under(p, job.source) : request[p][s].revision # job.revision
  /\ \/ /\ tried < MaxAttempts
        /\ job' = [job EXCEPT !.attempts = tried]
        /\ UNCHANGED gaveUp
     \/ tried = MaxAttempts /\ GiveUp
  /\ UNCHANGED <<vars, room, request, offset, memory, crashes, losses>>

PostPlan ==
  /\ job.phase = "posting"
  /\ PostToRoom(job.prop, job.plan)
  /\ Answered([job EXCEPT !.phase = "confirming"])
  /\ UNCHANGED <<authorityVars, room, request, offset, memory, gaveUp, crashes>>

ConfirmPlan ==
  /\ job.phase = "confirming"
  /\ Confirm(job.prop, job.plan)
  /\ Answered([job EXCEPT !.phase = "asking"])
  /\ UNCHANGED <<authorityVars, room, request, offset, memory, gaveUp, crashes>>

ConfirmRefused ==
  LET p == job.prop IN
  /\ job.phase = "confirming"
  /\ \/ cards[p][job.plan].published \/ ~ Allowed(p, "ResponsePlan")
     \/ NewerConfirmed(p, job.plan)
  /\ GiveUp
  /\ UNCHANGED <<vars, room, request, offset, memory, crashes, losses>>

AskForApproval ==
  /\ job.phase = "asking"
  /\ \E n \in Nonces, s \in DOMAIN cards[job.prop] :
       /\ CreateNonce(job.prop, n, s)
       /\ Answered([job EXCEPT !.phase = "challenging", !.nonce = n])
  /\ UNCHANGED <<room, request, offset, memory, gaveUp, crashes>>

Finished(p) == memory' = [memory EXCEPT ![p].submitted = TRUE]

\* The challenge is posted; only now is the plan submitted for the agent.
PresentChallenge ==
  /\ job.phase = "challenging"
  /\ PostChallenge(job.prop, job.nonce)
  /\ \/ Finished(job.prop) /\ UNCHANGED losses
     \/ losses < MaxLosses /\ losses' = losses + 1 /\ UNCHANGED memory
  /\ Drop
  /\ UNCHANGED <<room, request, offset, gaveUp, crashes>>

\* The nonce ran out before the room took the challenge.
ChallengeRefused ==
  /\ job.phase = "challenging"
  /\ nonce[job.prop][job.nonce].lapsed
  /\ GiveUp
  /\ UNCHANGED <<vars, room, request, offset, memory, crashes, losses>>

Lose ==
  /\ job.phase # "idle"
  /\ losses < MaxLosses /\ losses' = losses + 1
  /\ Drop
  /\ UNCHANGED <<vars, room, request, offset, memory, gaveUp, crashes>>

\* Mutant: where it was in the rooms outlives the agent.
Crash_Offset ==
  /\ crashes < MaxCrashes /\ crashes' = crashes + 1
  /\ Drop
  /\ memory' = [p \in Proposals |-> NoContext]
  /\ UNCHANGED <<vars, room, request, offset, gaveUp, losses>>

Crash ==
  /\ crashes < MaxCrashes /\ crashes' = crashes + 1
  /\ Drop
  /\ memory' = [p \in Proposals |-> NoContext]
  /\ offset' = [p \in Proposals |-> 0]
  /\ UNCHANGED <<vars, room, request, gaveUp, losses>>

-----------------------------------------------------------------------------

Working ==
  \/ \E p \in Proposals : Read(p)
  \/ PreparePlan \/ PreparedBefore \/ PrepareRefused
  \/ PostPlan
  \/ ConfirmPlan \/ ConfirmRefused
  \/ AskForApproval
  \/ PresentChallenge \/ ChallengeRefused

Others ==
  \/ \E p \in Proposals : ReviewerConfirms(p)
  \/ \E p \in Proposals : \E s \in DOMAIN cards[p], reach \in Reaches :
       RoomHearsOfRevision(p, s, reach)
  \/ HumanDecides
  \/ TimePasses

SagaNext == Working \/ Lose \/ Crash \/ Others

SagaSpec == SagaInit /\ [][SagaNext]_sagaVars

\* The runtime polls for ever and its requests time out.
FairSagaSpec == SagaSpec /\ WF_sagaVars(Working)

-----------------------------------------------------------------------------

PlansOf(p) == {s \in DOMAIN request[p] : cards[p][s].published}

\* One plan answers one card: however often the agent dies, loses answers and
\* reads the room again, a Verdict or a revision request never leads to two
\* confirmed plans.
OnePlanPerRequest ==
  \A p \in Proposals : \A s, t \in PlansOf(p) :
    request[p][s].source = request[p][t].source => s = t

\* A human is asked about the plan in force only: a nonce whose challenge the
\* room shows and that can still decide is bound to the plan confirmed last,
\* unless another revision is under way.
AskedAboutPlanInForce ==
  \A p \in Proposals, n \in Nonces :
    NonceValid(p, n, nonce[p][n].plan) /\ state[p] = "PLANNED"
      => IsPlanInForce(p, nonce[p][n].plan)

\* A confirmed Verdict gets its plan even if the agent dies in the middle of
\* its saga: it comes back to the same plan under the same key.
VerdictIsPlanned ==
  \A p \in Proposals :
    state[p] = "REVIEWED" ~> state[p] # "REVIEWED" \/ losses > 0 \/ p \in gaveUp

\* A plan in force is put to the human, unless a process died or a request was
\* lost behind its confirmation.
PlanIsAsked ==
  \A p \in Proposals :
    state[p] = "PLANNED" ~>
      \/ \E n \in Nonces : nonce[p][n].challenged /\ IsPlanInForce(p, nonce[p][n].plan)
      \/ crashes + losses > 0 \/ p \in gaveUp

\* The saga goes on: a Verdict is planned and its plan is put to the human.
VerdictIsFollowed == VerdictIsPlanned /\ PlanIsAsked

=============================================================================
