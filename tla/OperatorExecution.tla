------------------------- MODULE OperatorExecution -------------------------
(***************************************************************************)
(* The Casper Execution Agent (agents/locke on                             *)
(* shared/local_room_runtime.py) next to the gateway it takes its          *)
(* authority from.                                                         *)
(*                                                                         *)
(* The operator polls the Council Chambers and handles their messages one  *)
(* by one.  For a message with an authority it consumes the authorization, *)
(* executes the envelopes the gateway answers with, and submits a          *)
(* CasperExecutionReceipt.  What it knows is in memory.  Between any two   *)
(* of its requests the gateway serves others, a request or its answer can  *)
(* be lost, and the process can die; a restarted one reads every room from *)
(* its first message.  A message that fails is not read again.             *)
(*                                                                         *)
(* Only the operator consumes authorizations and writes receipts (its key).*)
(***************************************************************************)
EXTENDS AuthorizationLifecycle

CONSTANTS
  EnvelopeCount,  \* distinct envelopes in a plan
  MaxRetries,     \* of a consume request that finds the authorization PENDING
  MaxMessages,    \* bound: authority messages in one Council Chamber
  MaxCrashes,     \* bound: deaths of the operator
  MaxLosses       \* bound: requests or answers of the operator that are lost

ASSUME OperatorAssumption ==
  /\ Proposals # {}
  /\ EnvelopeCount \in Nat \ {0}
  /\ {MaxRetries, MaxMessages, MaxCrashes, MaxLosses} \subseteq Nat
  /\ "CasperExecutionReceipt" \in SubmittedTypes

VARIABLES
  room,       \* the authority cards posted to each Council Chamber, in order
  offset,     \* how far the operator has read each room
  operator,   \* what the operator is doing
  broadcasts, \* deploys of each proposal's envelopes that reached a node
  crashes, losses

agentVars == <<offset, operator, broadcasts, crashes, losses>>
operatorVars == <<vars, room, agentVars>>

Envelopes == 1 .. EnvelopeCount
Phases == {"idle", "consuming", "executing", "sealing", "posting", "confirming"}
Attempts == 0 .. MaxRetries
Positions == 1 .. EnvelopeCount + 1

\* `card` is the authority being handled, `plan` the plan its envelopes are of
\* once it is consumed, `next` the envelope to execute, `failed` whether one
\* was not reported successful, `receipt` the receipt once sealed.
Job(p, s) == [phase |-> "consuming", prop |-> p, card |-> s, plan |-> 0,
              attempts |-> 0, next |-> 1, failed |-> FALSE, receipt |-> 0]

Idle(p) == [Job(p, 0) EXCEPT !.phase = "idle"]

Jobs == [phase : Phases, prop : Proposals, card : Nat, plan : Nat,
         attempts : Attempts, next : Positions, failed : BOOLEAN, receipt : Nat]

OperatorTypeOK ==
  /\ room \in [Proposals -> Seq(Nat)]
  /\ offset \in [Proposals -> Nat]
  /\ operator \in Jobs
  /\ broadcasts \in [Proposals -> [Envelopes -> Nat]]
  /\ crashes \in 0 .. MaxCrashes /\ losses \in 0 .. MaxLosses

OperatorInit ==
  /\ Init
  /\ room = [p \in Proposals |-> <<>>]
  /\ offset = [p \in Proposals |-> 0]
  /\ operator = Idle(CHOOSE p \in Proposals : TRUE)
  /\ broadcasts = [p \in Proposals |-> [x \in Envelopes |-> 0]]
  /\ crashes = 0 /\ losses = 0

-----------------------------------------------------------------------------
(***************************************************************************)
(* The rest of the system, and the messages it leaves in the rooms.        *)
(***************************************************************************)

\* Every attempt to publish appends a message, also of a card already there.
Deliver(p, s, reach) ==
  IF reach = "sealed" THEN UNCHANGED room
  ELSE /\ Len(room[p]) < MaxMessages
       /\ room' = [room EXCEPT ![p] = Append(@, s)]

\* Mutant: a retry does not post a card that is in the room.
DeliverAgain_Once(a, reach) ==
  IF <<a.prop, a.card>> \in visible THEN UNCHANGED room
  ELSE Deliver(a.prop, a.card, reach)

DeliverAgain(a, reach) == Deliver(a.prop, a.card, reach)

OtherAgents ==
  \E p \in Proposals :
    \/ \E t \in CardTypes \ {"CasperExecutionReceipt"} :
         \E o \in Outcomes(t), r \in Refs(t) : Prepare(p, t, o, r)
    \/ \E s \in DOMAIN cards[p] :
         /\ cards[p][s].type # "CasperExecutionReceipt"
         /\ PostToRoom(p, s) \/ Confirm(p, s)

Asking ==
  \E p \in Proposals, n \in Nonces :
    \/ \E s \in DOMAIN cards[p] :
         CreateNonce(p, n, s) \/ Revise(p, n, s) \/ FalseAlarm(p, n, s)
    \/ PostChallenge(p, n)

Quiet ==
  /\ \/ OtherAgents /\ UNCHANGED authorityVars
     \/ Asking
     \/ ClockStep
  /\ UNCHANGED room

Publishing ==
  \E reach \in Reaches :
    \/ \E p \in Proposals : \E s \in DOMAIN cards[p] :
         \/ /\ RequestPolicy(p, s, reach)
            /\ Deliver(p, NextSeq(p), reach)
         \/ /\ NotifyDecision(p, s, reach)
            /\ Deliver(p, s, reach)
         \/ \E n \in Nonces, plan \in DOMAIN cards[p] :
              /\ ConsumeNonce(p, n, plan, s, reach)
              /\ Deliver(p, NextSeq(p), reach)
    \/ \E a \in auths :
         /\ ResumePending(a, reach) \/ RetryPolicy(a, reach)
         /\ DeliverAgain(a, reach)

Environment == (Quiet \/ Publishing) /\ UNCHANGED agentVars

-----------------------------------------------------------------------------
(***************************************************************************)
(* The operator.                                                           *)
(***************************************************************************)

IsAuthority(c) ==
  c.type = "PolicyAuthorization"
    \/ (c.type = "StructuredApproval" /\ c.outcome = "APPROVED")

\* The poll loop takes the next message of a room; the offset has moved past it
\* when the handler ends, whatever the handler did.
ReadMessage(p) ==
  LET s == room[p][offset[p] + 1] IN
  /\ operator.phase = "idle"
  /\ offset[p] < Len(room[p])
  /\ offset' = [offset EXCEPT ![p] = @ + 1]
  /\ operator' = IF IsAuthority(cards[p][s]) THEN Job(p, s) ELSE operator
  /\ UNCHANGED <<vars, room, broadcasts, crashes, losses>>

Become(phase) == operator' = [operator EXCEPT !.phase = phase]

\* The authorization named in the card.
Named(a) == a.prop = operator.prop /\ a.card = operator.card

Granting(a) == a.status = "PUBLISHED" /\ ~ a.lapsed /\ IsPlanInForce(a.prop, a.plan)

\* The consume request succeeds and its answer arrives.
Consume(a) ==
  /\ operator.phase = "consuming" /\ Named(a)
  /\ ConsumeAuthorization(a)
  /\ operator' = [operator EXCEPT !.phase = "executing", !.plan = a.envelopes]
  /\ UNCHANGED <<room, offset, broadcasts, crashes, losses>>

\* Mutant: whatever the gateway answers, the card in the room will do.
ConsumeRefused_Trusting(a) ==
  /\ operator.phase = "consuming" /\ Named(a)
  /\ ~ Granting(a)
  /\ operator' = [operator EXCEPT !.phase = "executing", !.plan = a.envelopes]
  /\ UNCHANGED <<vars, room, offset, broadcasts, crashes, losses>>

\* 409 authorization_pending is tried again; every other refusal, and the last
\* retry, drop the message.
ConsumeRefused(a) ==
  /\ operator.phase = "consuming" /\ Named(a)
  /\ ~ Granting(a)
  /\ IF a.status = "PENDING" /\ operator.attempts < MaxRetries
     THEN operator' = [operator EXCEPT !.attempts = @ + 1]
     ELSE Become("idle")
  /\ UNCHANGED <<vars, room, offset, broadcasts, crashes, losses>>

\* The answer is lost after the gateway has consumed.
ConsumeUnanswered(a) ==
  /\ operator.phase = "consuming" /\ Named(a)
  /\ losses < MaxLosses
  /\ ConsumeAuthorization(a)
  /\ Become("idle")
  /\ losses' = losses + 1
  /\ UNCHANGED <<room, offset, broadcasts, crashes>>

\* A request does not get through, or not within its retries.
RequestLost ==
  /\ operator.phase \in {"consuming", "sealing", "posting", "confirming"}
  /\ losses < MaxLosses
  /\ Become("idle")
  /\ losses' = losses + 1
  /\ UNCHANGED <<vars, room, offset, broadcasts, crashes>>

\* submit_governance_receipt: the deploy never reached a node (unsent), or it
\* did and was reported successful (sent) or not (unsure: the answer timed out,
\* or finality showed an error).
Outcome == {"sent", "unsent", "unsure"}

ExecuteEnvelope(outcome) ==
  /\ operator.phase = "executing" /\ operator.next <= EnvelopeCount
  /\ broadcasts' = IF outcome = "unsent" THEN broadcasts
                   ELSE [broadcasts EXCEPT ![operator.prop][operator.next] = @ + 1]
  /\ operator' = [operator EXCEPT !.next = @ + 1,
                                  !.failed = @ \/ outcome # "sent"]
  /\ UNCHANGED <<vars, room, offset, crashes, losses>>

\* Mutant: a receipt for failed envelopes too.
FinishExecution_Anyway ==
  /\ operator.phase = "executing" /\ operator.next > EnvelopeCount
  /\ Become("sealing")
  /\ UNCHANGED <<vars, room, offset, broadcasts, crashes, losses>>

\* submit_action_receipt is refused unless every envelope was executed.
FinishExecution ==
  /\ operator.phase = "executing" /\ operator.next > EnvelopeCount
  /\ Become(IF operator.failed THEN "idle" ELSE "sealing")
  /\ UNCHANGED <<vars, room, offset, broadcasts, crashes, losses>>

SealReceipt ==
  /\ operator.phase = "sealing"
  /\ Prepare(operator.prop, "CasperExecutionReceipt", "none", "none")
  /\ operator' = [operator EXCEPT !.phase = "posting",
                                  !.receipt = NextSeq(operator.prop)]
  /\ UNCHANGED <<authorityVars, room, offset, broadcasts, crashes, losses>>

PostReceipt ==
  /\ operator.phase = "posting"
  /\ PostToRoom(operator.prop, operator.receipt)
  /\ Become("confirming")
  /\ UNCHANGED <<authorityVars, room, offset, broadcasts, crashes, losses>>

ConfirmReceipt ==
  /\ operator.phase = "confirming"
  /\ Confirm(operator.prop, operator.receipt)
  /\ Become("idle")
  /\ UNCHANGED <<authorityVars, room, offset, broadcasts, crashes, losses>>

\* The process dies and starts again.
Crash ==
  /\ crashes < MaxCrashes
  /\ crashes' = crashes + 1
  /\ operator' = Idle(operator.prop)
  /\ offset' = [p \in Proposals |-> 0]
  /\ UNCHANGED <<vars, room, broadcasts, losses>>

Working ==
  \/ \E p \in Proposals : ReadMessage(p)
  \/ \E a \in auths : Consume(a) \/ ConsumeRefused(a)
  \/ \E outcome \in Outcome : ExecuteEnvelope(outcome)
  \/ FinishExecution
  \/ SealReceipt
  \/ PostReceipt
  \/ ConfirmReceipt

Failing ==
  \/ \E a \in auths : ConsumeUnanswered(a)
  \/ RequestLost
  \/ Crash

OperatorNext == Environment \/ Working \/ Failing

OperatorSpec == OperatorInit /\ [][OperatorNext]_operatorVars

\* The poll loop sleeps a second and goes on for ever; the supervisor starts a
\* dead operator again.
FairOperatorSpec == OperatorSpec /\ WF_operatorVars(Working)

-----------------------------------------------------------------------------

\* An envelope is broadcast once at most, however often its authority is posted
\* and read again, whatever requests are lost and however often the operator
\* dies: what stops the second time is the gateway's CONSUMED row.
BroadcastOnce ==
  \A p \in Proposals, x \in Envelopes : broadcasts[p][x] <= 1

\* Nothing is broadcast but the envelopes of the plan in force, under an
\* authorization of that plan the gateway has handed out for it.
BroadcastIsAuthorized ==
  \A p \in Proposals, x \in Envelopes : broadcasts[p][x] > 0 =>
    \E a \in auths : /\ a.prop = p /\ a.status = "CONSUMED"
                     /\ IsPlanInForce(p, a.plan) /\ a.envelopes = a.plan

\* A sealed receipt, confirmed or not, is backed by a deploy of every envelope
\* of the plan ("every approved envelope must be executed exactly once").
ReceiptIsBacked ==
  \A p \in Proposals : \A s \in DOMAIN cards[p] :
    cards[p][s].type = "CasperExecutionReceipt" =>
      \A x \in Envelopes : broadcasts[p][x] = 1

\* "The PENDING->PUBLISHED race ... Bounded retry resolves this": a published
\* authorization is consumed or runs out, also when the operator gave up on it
\* while it was PENDING and when it died; only a lost request can leave it.
GrantReachesOperator ==
  \A p \in Proposals :
    GrantsOf(p) # {} ~> \/ \E a \in GrantsOf(p) : a.status = "CONSUMED" \/ a.lapsed
                        \/ losses > 0

\* A published authorization ends in a confirmed receipt, if it does not run out,
\* no envelope fails and the operator neither dies nor loses a request.
GrantIsExecuted ==
  \A p \in Proposals :
    <>(GrantsOf(p) # {}) =>
      <>(\/ state[p] \in {"EXECUTED", "RESOLVED"}
         \/ \E a \in GrantsOf(p) : a.lapsed
         \/ operator.prop = p /\ operator.failed
         \/ losses + crashes > 0)

\* An authorization is honoured: it reaches the operator and is executed.
GrantIsHonoured == GrantReachesOperator /\ GrantIsExecuted

=============================================================================
