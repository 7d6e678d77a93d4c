--------------------------- MODULE OperatorProofs ---------------------------
(***************************************************************************)
(* Proofs about the operator next to the gateway, for any number of        *)
(* envelopes, retries, messages, deaths and lost requests.                 *)
(*                                                                         *)
(* The argument: the gateway cannot tell the operator from its other       *)
(* clients (every step of the pair is a step of the authorization          *)
(* lifecycle or none), so at most one authorization of a proposal is       *)
(* granted.  What was broadcast leaves a CONSUMED authorization behind,    *)
(* which stays; so the consume request that would start the envelopes a    *)
(* second time finds none PUBLISHED.                                       *)
(***************************************************************************)
EXTENDS OperatorExecution, AuthorizationProofs

-----------------------------------------------------------------------------
(***************************************************************************)
(* The inductive invariant.                                                *)
(***************************************************************************)

Spent(p) == \E a \in auths : a.prop = p /\ a.status = "CONSUMED"

\* Envelopes are only broadcast for a proposal whose authorization is spent.
BroadcastIsSpent ==
  \A p \in Proposals, x \in Envelopes : broadcasts[p][x] > 0 => Spent(p)

ConsumingOK == operator.phase = "consuming" => operator.next = 1

\* While the operator executes, the envelopes it has not come to are untouched,
\* and the ones behind it are broadcast, unless it knows of a failure.
ExecutingOK ==
  operator.phase = "executing" =>
    /\ Spent(operator.prop)
    /\ \A x \in Envelopes :
         /\ x >= operator.next => broadcasts[operator.prop][x] = 0
         /\ x < operator.next /\ ~ operator.failed =>
              broadcasts[operator.prop][x] = 1

SealingOK ==
  operator.phase = "sealing" =>
    \A x \in Envelopes : broadcasts[operator.prop][x] = 1

AgentInv ==
  /\ OperatorTypeOK
  /\ BroadcastIsSpent
  /\ BroadcastOnce
  /\ ConsumingOK
  /\ ExecutingOK
  /\ SealingOK
  /\ ReceiptIsBacked

-----------------------------------------------------------------------------
(***************************************************************************)
(* What a step of the lifecycle leaves of it.                              *)
(***************************************************************************)

\* A consumed row is never touched again.
SpentKept == \A b \in auths : b.status = "CONSUMED" => b \in auths'

ReceiptsKept ==
  \A p \in Proposals : \A s \in DOMAIN cards'[p] :
    cards'[p][s].type = "CasperExecutionReceipt" =>
      s \in DOMAIN cards[p] /\ cards[p][s].type = "CasperExecutionReceipt"

LEMMA LifecycleSpentKept ==
  ASSUME TypeOK, Next
  PROVE  SpentKept
<1>1. CASE LedgerStep
  BY <1>1 DEF LedgerStep, authorityVars, SpentKept
<1>2. CASE HumanStep
  <2>1. PICK p \in Proposals, n \in Nonces :
          \E s \in DOMAIN cards[p] :
            \/ CreateNonce(p, n, s)
            \/ \E plan \in DOMAIN cards[p], reach \in Reaches :
                 ConsumeNonce(p, n, plan, s, reach)
            \/ Revise(p, n, s)
            \/ FalseAlarm(p, n, s)
    BY <1>2 DEF HumanStep
  <2> QED
    BY <2>1 DEF CreateNonce, ConsumeNonce, Issue, Revise, FalseAlarm, Overrule,
                SpentKept
<1>3. CASE ClockStep
  BY <1>3 DEF ClockStep, LapseNonce, LapseAuthorization, SpentKept
<1>4. CASE GatewayStep
  <2>1. ASSUME NEW p \in Proposals, NEW n \in Nonces, PostChallenge(p, n)
        PROVE  SpentKept
    BY <2>1 DEF PostChallenge, SpentKept
  <2>2. ASSUME NEW p \in Proposals, NEW s \in DOMAIN cards[p],
               NEW reach \in Reaches,
               NotifyDecision(p, s, reach) \/ RequestPolicy(p, s, reach)
        PROVE  SpentKept
    <3>1. CASE NotifyDecision(p, s, reach)
      BY <3>1 DEF NotifyDecision, authorityVars, SpentKept
    <3>2. CASE RequestPolicy(p, s, reach)
      BY <3>2 DEF RequestPolicy, Issue, SpentKept
    <3> QED
      BY <2>2, <3>1, <3>2
  <2>3. ASSUME NEW a \in auths, NEW reach \in Reaches,
               ResumePending(a, reach) \/ RetryPolicy(a, reach)
        PROVE  SpentKept
    BY <2>3 DEF ResumePending, RetryPolicy, Republish, SpentKept
  <2>4. ASSUME NEW a \in auths, ConsumeAuthorization(a)
        PROVE  SpentKept
    BY <2>4 DEF ConsumeAuthorization, SpentKept
  <2> QED
    BY <1>4, <2>1, <2>2, <2>3, <2>4 DEF GatewayStep
<1> QED
  BY <1>1, <1>2, <1>3, <1>4 DEF Next

LEMMA SealedOther ==
  ASSUME LedgerTypeOK, NEW p \in Proposals, NEW c \in Cards,
         c.type # "CasperExecutionReceipt",
         cards' = [cards EXCEPT ![p] = Append(@, c)]
  PROVE  ReceiptsKept
<1>1. /\ \A q \in Proposals : q # p => cards'[q] = cards[q]
      /\ DOMAIN cards'[p] = (DOMAIN cards[p]) \cup {Len(cards[p]) + 1}
      /\ \A s \in DOMAIN cards[p] : cards'[p][s] = cards[p][s]
      /\ cards'[p][Len(cards[p]) + 1] = c
  BY SealFacts
<1> QED
  BY <1>1 DEF ReceiptsKept

LEMMA PublishedOne ==
  ASSUME LedgerTypeOK, NEW p \in Proposals, NEW s \in DOMAIN cards[p],
         NEW b \in BOOLEAN, Publish(p, s, b)
  PROVE  ReceiptsKept
<1>1. /\ cards' \in [Proposals -> Seq(Cards)]
      /\ \A q \in Proposals : q # p => cards'[q] = cards[q]
      /\ \A q \in Proposals : DOMAIN cards'[q] = DOMAIN cards[q]
      /\ DOMAIN cards[p] \subseteq Nat \ {0}
      /\ \A t \in DOMAIN cards[p] : t # s => cards'[p][t] = cards[p][t]
      /\ cards'[p][s] = [cards[p][s] EXCEPT !.published = b]
      /\ cards[p][s] \in Cards
      /\ cards'[p][s].published = b
      /\ cards'[p][s].type = cards[p][s].type
      /\ cards'[p][s].outcome = cards[p][s].outcome
      /\ cards'[p][s].ref = cards[p][s].ref
  BY PublishFacts
<1> QED
  BY <1>1 DEF ReceiptsKept

LEMMA DecisionSealed ==
  ASSUME LedgerTypeOK, NEW p \in Proposals,
         NEW t \in {"StructuredApproval", "PolicyAuthorization"},
         NEW o \in Outcomes(t), NEW r \in Refs(t), NEW b \in BOOLEAN,
         SealDecision(p, t, o, r, b)
  PROVE  ReceiptsKept
<1> DEFINE c == [NewCard(t, o, r) EXCEPT !.published = b]
<1>1. c \in Cards /\ c.type = t
  <2>1. NewCard(t, o, r) \in Cards /\ NewCard(t, o, r).type = t
    BY NewCardType DEF CardTypes, NewCard
  <2> QED
    BY <2>1 DEF Cards
<1> QED
  BY <1>1, SealedOther DEF SealDecision

LEMMA IssueReceipts ==
  ASSUME LedgerTypeOK, NEW p \in Proposals, NEW kind \in AuthKinds,
         NEW plan, NEW envelopes, NEW r \in Refs(CardTypeOf(kind)),
         NEW reach, Issue(p, kind, plan, envelopes, r, reach)
  PROVE  ReceiptsKept
<1>1. CASE kind = "policy"
  <2>1. SealDecision(p, "PolicyAuthorization", "none", r, reach = "advanced")
    BY <1>1 DEF Issue
  <2>2. "none" \in Outcomes("PolicyAuthorization")
    BY DEF Outcomes
  <2> QED
    BY <1>1, <2>1, <2>2, DecisionSealed DEF CardTypeOf
<1>2. CASE kind = "human_approval"
  <2>1. SealDecision(p, "StructuredApproval", "APPROVED", r, reach = "advanced")
    BY <1>2 DEF Issue
  <2>2. "APPROVED" \in Outcomes("StructuredApproval")
    BY DEF Outcomes
  <2> QED
    BY <1>2, <2>1, <2>2, DecisionSealed DEF CardTypeOf
<1> QED
  BY <1>1, <1>2 DEF AuthKinds

LEMMA RepublishReceipts ==
  ASSUME CoreInv, NEW a \in auths, NEW reach, Republish(a, reach)
  PROVE  ReceiptsKept
<1>1. a.prop \in Proposals /\ a.card \in DOMAIN cards[a.prop]
  BY DEF CoreInv, TypeOK, AuthRows, AuthOK
<1>2. Publish(a.prop, a.card, reach = "advanced")
  BY DEF Republish
<1> QED
  BY <1>1, <1>2, PublishedOne DEF CoreInv, TypeOK

LEMMA OverruleReceipts ==
  ASSUME CoreInv, NEW p \in Proposals, NEW n \in Nonces, NEW s,
         Revise(p, n, s) \/ FalseAlarm(p, n, s)
  PROVE  ReceiptsKept
<1>1. PICK o \in {"REJECTED", "FALSE_ALARM"} :
        SealDecision(p, "StructuredApproval", o, n, FALSE)
  BY DEF Revise, FalseAlarm, Overrule
<1>2. o \in Outcomes("StructuredApproval") /\ n \in Refs("StructuredApproval")
  BY <1>1 DEF Outcomes, Refs
<1> QED
  BY <1>1, <1>2, DecisionSealed DEF CoreInv, TypeOK

\* The rest of the system takes steps of the lifecycle and seals no receipt.
LEMMA QuietStep ==
  ASSUME CoreInv, Quiet
  PROVE  Next /\ ReceiptsKept
<1>1. CASE OtherAgents /\ UNCHANGED authorityVars
  <2>1. PICK p \in Proposals :
          \/ \E t \in CardTypes \ {"CasperExecutionReceipt"} :
               \E o \in Outcomes(t), r \in Refs(t) : Prepare(p, t, o, r)
          \/ \E s \in DOMAIN cards[p] : PostToRoom(p, s) \/ Confirm(p, s)
    BY <1>1 DEF OtherAgents
  <2>2. LedgerNext
    BY <2>1 DEF LedgerNext
  <2>3. ASSUME NEW t \in CardTypes \ {"CasperExecutionReceipt"},
               NEW o \in Outcomes(t), NEW r \in Refs(t), Prepare(p, t, o, r)
        PROVE  ReceiptsKept
    <3>1. NewCard(t, o, r) \in Cards /\ NewCard(t, o, r).type = t
      BY NewCardType DEF NewCard
    <3> QED
      BY <2>3, <3>1, SealedOther DEF Prepare, Seal, CoreInv, TypeOK
  <2>4. ASSUME NEW s \in DOMAIN cards[p], PostToRoom(p, s)
        PROVE  ReceiptsKept
    BY <2>4 DEF PostToRoom, ReceiptsKept
  <2>5. ASSUME NEW s \in DOMAIN cards[p], Confirm(p, s)
        PROVE  ReceiptsKept
    BY <2>5, PublishedOne DEF Confirm, CoreInv, TypeOK
  <2> QED
    BY <1>1, <2>1, <2>2, <2>3, <2>4, <2>5 DEF Next, LedgerStep
<1>2. CASE Asking
  <2>1. PICK p \in Proposals, n \in Nonces :
          \/ \E s \in DOMAIN cards[p] :
               CreateNonce(p, n, s) \/ Revise(p, n, s) \/ FalseAlarm(p, n, s)
          \/ PostChallenge(p, n)
    BY <1>2 DEF Asking
  <2>2. CASE PostChallenge(p, n)
    BY <2>2 DEF PostChallenge, ledgerVars, ReceiptsKept, Next, GatewayStep
  <2>3. ASSUME NEW s \in DOMAIN cards[p],
               CreateNonce(p, n, s) \/ Revise(p, n, s) \/ FalseAlarm(p, n, s)
        PROVE  Next /\ ReceiptsKept
    <3>1. HumanStep
      BY <2>3 DEF HumanStep
    <3>2. CreateNonce(p, n, s) => ReceiptsKept
      BY DEF CreateNonce, ledgerVars, ReceiptsKept
    <3> QED
      BY <2>3, <3>1, <3>2, OverruleReceipts DEF Next
  <2> QED
    BY <2>1, <2>2, <2>3
<1>3. CASE ClockStep
  BY <1>3 DEF ClockStep, LapseNonce, LapseAuthorization, ledgerVars,
              ReceiptsKept, Next
<1> QED
  BY <1>1, <1>2, <1>3 DEF Quiet

LEMMA PublishingStep ==
  ASSUME CoreInv, Publishing
  PROVE  Next /\ ReceiptsKept
<1>1. PICK reach \in Reaches :
        \/ \E p \in Proposals : \E s \in DOMAIN cards[p] :
             \/ RequestPolicy(p, s, reach)
             \/ NotifyDecision(p, s, reach)
             \/ \E n \in Nonces, plan \in DOMAIN cards[p] :
                  ConsumeNonce(p, n, plan, s, reach)
        \/ \E a \in auths : ResumePending(a, reach) \/ RetryPolicy(a, reach)
  BY DEF Publishing
<1>2. ASSUME NEW a \in auths, ResumePending(a, reach) \/ RetryPolicy(a, reach)
      PROVE  Next /\ ReceiptsKept
  <2>1. Republish(a, reach)
    BY <1>2 DEF ResumePending, RetryPolicy
  <2> QED
    BY <1>2, <2>1, RepublishReceipts DEF Next, GatewayStep
<1>3. ASSUME NEW p \in Proposals, NEW s \in DOMAIN cards[p],
             RequestPolicy(p, s, reach)
      PROVE  Next /\ ReceiptsKept
  <2>1. "none" \in Refs(CardTypeOf("policy")) /\ "policy" \in AuthKinds
    BY DEF CardTypeOf, Refs, AuthKinds
  <2>2. Issue(p, "policy", s, s, "none", reach)
    BY <1>3 DEF RequestPolicy
  <2> QED
    BY <1>3, <2>1, <2>2, IssueReceipts DEF Next, GatewayStep, CoreInv, TypeOK
<1>4. ASSUME NEW p \in Proposals, NEW s \in DOMAIN cards[p],
             NotifyDecision(p, s, reach)
      PROVE  Next /\ ReceiptsKept
  <2>1. Publish(p, s, reach = "advanced")
    BY <1>4 DEF NotifyDecision
  <2> QED
    BY <1>4, <2>1, PublishedOne DEF Next, GatewayStep, CoreInv, TypeOK
<1>5. ASSUME NEW p \in Proposals, NEW s \in DOMAIN cards[p], NEW n \in Nonces,
             NEW plan \in DOMAIN cards[p], ConsumeNonce(p, n, plan, s, reach)
      PROVE  Next /\ ReceiptsKept
  <2>1. /\ n \in Refs(CardTypeOf("human_approval"))
        /\ "human_approval" \in AuthKinds
    BY DEF CardTypeOf, Refs, AuthKinds
  <2>2. Issue(p, "human_approval", plan, s, n, reach)
    BY <1>5 DEF ConsumeNonce
  <2> QED
    BY <1>5, <2>1, <2>2, IssueReceipts DEF Next, HumanStep, CoreInv, TypeOK
<1> QED
  BY <1>1, <1>2, <1>3, <1>4, <1>5

LEMMA EnvironmentStep ==
  ASSUME CoreInv, Environment
  PROVE  Next /\ ReceiptsKept
  BY QuietStep, PublishingStep DEF Environment

\* What a message carries is the number of a card.
LEMMA RoomTyped ==
  ASSUME CoreInv, OperatorTypeOK, Environment
  PROVE  room' \in [Proposals -> Seq(Nat)]
<1>1. ASSUME NEW p \in Proposals, NEW s \in Nat, NEW reach, Deliver(p, s, reach)
      PROVE  room' \in [Proposals -> Seq(Nat)]
  <2>1. room[p] \in Seq(Nat)
    BY DEF OperatorTypeOK
  <2>2. Append(room[p], s) \in Seq(Nat)
    BY <2>1
  <2> QED
    BY <1>1, <2>2 DEF Deliver, OperatorTypeOK
<1>2. \A p \in Proposals : NextSeq(p) \in Nat /\ DOMAIN cards[p] \subseteq Nat
  <2> SUFFICES ASSUME NEW p \in Proposals
               PROVE  NextSeq(p) \in Nat /\ DOMAIN cards[p] \subseteq Nat
    OBVIOUS
  <2>1. cards[p] \in Seq(Cards)
    BY DEF CoreInv, TypeOK, LedgerTypeOK
  <2> QED
    BY <2>1 DEF NextSeq
<1>3. \A a \in auths : a.prop \in Proposals /\ a.card \in Nat
  BY DEF CoreInv, TypeOK, AuthRows
<1> QED
  BY <1>1, <1>2, <1>3 DEF Environment, Quiet, Publishing, DeliverAgain,
                          OperatorTypeOK

-----------------------------------------------------------------------------
(***************************************************************************)
(* The steps of the operator.                                              *)
(***************************************************************************)

LEMMA SpentStays ==
  ASSUME SpentKept, NEW p, Spent(p)
  PROVE  Spent(p)'
  BY DEF SpentKept, Spent

\* A step that broadcasts nothing and neither starts nor ends an execution.
LEMMA NothingBroadcast ==
  ASSUME AgentInv, OperatorTypeOK', SpentKept, ReceiptsKept,
         broadcasts' = broadcasts,
         operator'.phase \notin {"executing", "sealing"},
         ConsumingOK'
  PROVE  AgentInv'
<1>1. BroadcastIsSpent'
  BY SpentStays DEF AgentInv, BroadcastIsSpent
<1>2. ReceiptIsBacked'
  BY DEF AgentInv, ReceiptIsBacked, ReceiptsKept
<1> QED
  BY <1>1, <1>2 DEF AgentInv, ExecutingOK, SealingOK, BroadcastOnce

LEMMA NothingHappened ==
  ASSUME UNCHANGED vars
  PROVE  SpentKept /\ ReceiptsKept
  BY DEF vars, SpentKept, ReceiptsKept

LEMMA EnvironmentKeeps ==
  ASSUME CoreInv, AgentInv, Environment
  PROVE  AgentInv'
<1>1. SpentKept /\ ReceiptsKept /\ UNCHANGED agentVars
  BY EnvironmentStep, LifecycleSpentKept DEF CoreInv, Environment
<1>2. OperatorTypeOK'
  BY <1>1, RoomTyped DEF AgentInv, OperatorTypeOK, agentVars
<1>3. UNCHANGED <<operator, broadcasts>>
  BY <1>1 DEF agentVars
<1>4. BroadcastIsSpent'
  BY <1>1, <1>3, SpentStays DEF AgentInv, BroadcastIsSpent
<1>5. ReceiptIsBacked'
  BY <1>1, <1>3 DEF AgentInv, ReceiptIsBacked, ReceiptsKept
<1>6. ExecutingOK'
  BY <1>1, <1>3, SpentStays DEF AgentInv, ExecutingOK
<1> QED
  BY <1>2, <1>3, <1>4, <1>5, <1>6 DEF AgentInv, ConsumingOK, SealingOK, BroadcastOnce

\* The operator's records.
LEMMA JobTyped ==
  ASSUME NEW p \in Proposals, NEW s \in Nat
  PROVE  Job(p, s) \in Jobs /\ Idle(p) \in Jobs
<1>1. 0 \in Attempts /\ 1 \in Positions
  BY OperatorAssumption DEF Attempts, Positions
<1>2. {"consuming", "idle"} \subseteq Phases
  BY DEF Phases
<1> QED
  BY <1>1, <1>2 DEF Job, Idle, Jobs

LEMMA BecomeTyped ==
  ASSUME operator \in Jobs, NEW phase \in Phases, Become(phase)
  PROVE  operator' \in Jobs /\ operator'.phase = phase
  BY DEF Become, Jobs

LEMMA ReadStep ==
  ASSUME AgentInv, NEW p \in Proposals, ReadMessage(p)
  PROVE  AgentInv'
<1>1. room[p][offset[p] + 1] \in Nat
  <2>1. /\ room[p] \in Seq(Nat) /\ offset[p] \in Nat
        /\ offset[p] < Len(room[p])
    BY DEF AgentInv, OperatorTypeOK, ReadMessage
  <2> QED
    BY <2>1
<1>2. operator' \in Jobs /\ operator'.phase \in {"idle", "consuming"}
  BY <1>1, JobTyped DEF AgentInv, OperatorTypeOK, ReadMessage, Job
<1>3. OperatorTypeOK'
  BY <1>2 DEF AgentInv, OperatorTypeOK, ReadMessage
<1>4. ConsumingOK'
  BY JobTyped DEF AgentInv, ConsumingOK, ReadMessage, Job
<1> QED
  BY <1>2, <1>3, <1>4, NothingHappened, NothingBroadcast DEF ReadMessage

\* The gateway hands out no second authorization, so nothing of this proposal
\* was broadcast before.
LEMMA ConsumeStep ==
  ASSUME IInv, AgentInv, NEW a \in auths, Consume(a)
  PROVE  AgentInv'
<1>1. a \in AuthRows /\ a.prop = operator.prop /\ a.status = "PUBLISHED"
  BY DEF IInv, CoreInv, TypeOK, Consume, Named, ConsumeAuthorization
<1>2. ~ Spent(operator.prop)
  BY <1>1 DEF Spent, IInv, OneGrantPerProposal, Granted
<1>3. \A x \in Envelopes : broadcasts[operator.prop][x] = 0
  BY <1>2 DEF AgentInv, OperatorTypeOK, BroadcastIsSpent, Jobs
<1>4. /\ SpentKept /\ ReceiptsKept
      /\ [a EXCEPT !.status = "CONSUMED"] \in auths'
  BY DEF Consume, ConsumeAuthorization, SpentKept, ReceiptsKept, ledgerVars
<1>5. Spent(operator.prop)'
  BY <1>1, <1>4 DEF Spent, AuthRows, Consume, AgentInv, OperatorTypeOK, Jobs
<1>6. /\ operator' \in Jobs /\ operator'.phase = "executing"
      /\ operator'.prop = operator.prop
      /\ broadcasts' = broadcasts
  BY <1>1 DEF Consume, AgentInv, OperatorTypeOK, Jobs, Phases, AuthRows
<1>7. OperatorTypeOK'
  BY <1>6 DEF Consume, AgentInv, OperatorTypeOK
<1>8. operator'.next = 1
  BY DEF Consume, AgentInv, ConsumingOK, OperatorTypeOK, Jobs
<1>9. BroadcastIsSpent'
  BY <1>4, <1>6, SpentStays DEF AgentInv, BroadcastIsSpent
<1>10. ExecutingOK'
  BY <1>3, <1>5, <1>6, <1>8 DEF ExecutingOK, Envelopes
<1>11. ReceiptIsBacked'
  BY <1>4, <1>6 DEF AgentInv, ReceiptIsBacked, ReceiptsKept
<1> QED
  BY <1>6, <1>7, <1>9, <1>10, <1>11
     DEF AgentInv, BroadcastOnce, ConsumingOK, SealingOK

LEMMA RefusedStep ==
  ASSUME AgentInv, NEW a \in auths, ConsumeRefused(a)
  PROVE  AgentInv'
<1>1. operator \in Jobs /\ operator.next = 1
  BY DEF AgentInv, OperatorTypeOK, ConsumingOK, ConsumeRefused
<1>2. CASE Become("idle")
  <2>1. operator' \in Jobs /\ operator'.phase = "idle"
    BY <1>1, <1>2, BecomeTyped DEF Phases
  <2>2. OperatorTypeOK'
    BY <2>1 DEF AgentInv, OperatorTypeOK, ConsumeRefused
  <2> QED
    BY <2>1, <2>2, NothingHappened, NothingBroadcast DEF ConsumeRefused,
       ConsumingOK
<1>3. CASE operator.attempts < MaxRetries
           /\ operator' = [operator EXCEPT !.attempts = @ + 1]
  <2>1. operator.attempts + 1 \in Attempts
    BY <1>1, <1>3, OperatorAssumption DEF Jobs, Attempts
  <2>2. /\ operator' \in Jobs /\ operator'.phase = "consuming"
        /\ operator'.next = 1
    BY <1>1, <1>3, <2>1 DEF Jobs, ConsumeRefused
  <2>3. OperatorTypeOK'
    BY <2>2 DEF AgentInv, OperatorTypeOK, ConsumeRefused
  <2> QED
    BY <2>2, <2>3, NothingHappened, NothingBroadcast DEF ConsumeRefused,
       ConsumingOK
<1> QED
  BY <1>2, <1>3 DEF ConsumeRefused

\* A lost request or a death leaves the operator idle.
LEMMA IdleStep ==
  ASSUME AgentInv, operator' \in Jobs, operator'.phase = "idle",
         SpentKept, ReceiptsKept, room' = room, broadcasts' = broadcasts,
         offset' \in [Proposals -> Nat],
         crashes' \in 0 .. MaxCrashes, losses' \in 0 .. MaxLosses
  PROVE  AgentInv'
<1>1. OperatorTypeOK'
  BY DEF AgentInv, OperatorTypeOK
<1> QED
  BY <1>1, NothingBroadcast DEF ConsumingOK

LEMMA FailingStep ==
  ASSUME AgentInv, Failing
  PROVE  AgentInv'
<1>0. /\ operator \in Jobs /\ offset \in [Proposals -> Nat]
      /\ losses \in 0 .. MaxLosses /\ crashes \in 0 .. MaxCrashes
  BY DEF AgentInv, OperatorTypeOK
<1>1. ASSUME NEW a \in auths, ConsumeUnanswered(a)
      PROVE  AgentInv'
  <2>1. SpentKept /\ ReceiptsKept
    BY <1>1 DEF ConsumeUnanswered, ConsumeAuthorization, SpentKept,
                ReceiptsKept, ledgerVars
  <2>2. operator' \in Jobs /\ operator'.phase = "idle"
    BY <1>0, <1>1, BecomeTyped DEF ConsumeUnanswered, Phases
  <2>3. losses' \in 0 .. MaxLosses
    BY <1>0, <1>1, OperatorAssumption DEF ConsumeUnanswered
  <2> QED
    BY <1>0, <1>1, <2>1, <2>2, <2>3, IdleStep DEF ConsumeUnanswered
<1>2. CASE RequestLost
  <2>1. operator' \in Jobs /\ operator'.phase = "idle"
    BY <1>0, <1>2, BecomeTyped DEF RequestLost, Phases
  <2>2. losses' \in 0 .. MaxLosses
    BY <1>0, <1>2, OperatorAssumption DEF RequestLost
  <2> QED
    BY <1>0, <1>2, <2>1, <2>2, NothingHappened, IdleStep DEF RequestLost
<1>3. CASE Crash
  <2>1. operator' \in Jobs /\ operator'.phase = "idle"
    BY <1>0, <1>3, JobTyped DEF Crash, Jobs, Idle, Job
  <2>2. crashes' \in 0 .. MaxCrashes
    BY <1>0, <1>3, OperatorAssumption DEF Crash
  <2> QED
    BY <1>0, <1>3, <2>1, <2>2, NothingHappened, IdleStep DEF Crash
<1> QED
  BY <1>1, <1>2, <1>3 DEF Failing

\* One more deploy of one envelope.
LEMMA OneMore ==
  ASSUME NEW B, B \in [Proposals -> [Envelopes -> Nat]],
         NEW p \in Proposals, NEW x \in Envelopes,
         NEW C, C = [B EXCEPT ![p][x] = @ + 1]
  PROVE  /\ C \in [Proposals -> [Envelopes -> Nat]]
         /\ C[p][x] = B[p][x] + 1
         /\ \A y \in Envelopes : y # x => C[p][y] = B[p][y]
         /\ \A q \in Proposals : q # p => C[q] = B[q]
<1>1. B[p] \in [Envelopes -> Nat] /\ B[p][x] \in Nat
  OBVIOUS
<1>2. C[p] = [B[p] EXCEPT ![x] = @ + 1]
  OBVIOUS
<1>3. C[p] \in [Envelopes -> Nat]
  BY <1>1, <1>2
<1>4. \A q \in Proposals : q # p => C[q] = B[q]
  OBVIOUS
<1>5. C \in [Proposals -> [Envelopes -> Nat]]
  BY <1>3, <1>4
<1> QED
  BY <1>1, <1>2, <1>4, <1>5

\* An envelope that nobody has broadcast goes out, or does not.
LEMMA ExecuteStep ==
  ASSUME AgentInv, NEW outcome \in Outcome, ExecuteEnvelope(outcome)
  PROVE  AgentInv'
<1>0. /\ operator \in Jobs
      /\ operator.prop \in Proposals /\ operator.next \in Envelopes
      /\ broadcasts \in [Proposals -> [Envelopes -> Nat]]
  BY OperatorAssumption
     DEF AgentInv, OperatorTypeOK, Jobs, Positions, Envelopes, ExecuteEnvelope
<1>p. PICK p \in Proposals : p = operator.prop
  BY <1>0
<1>n. PICK n \in Envelopes : n = operator.next
  BY <1>0
<1>1. /\ operator \in Jobs
      /\ broadcasts \in [Proposals -> [Envelopes -> Nat]]
  BY <1>0
<1>2. /\ Spent(p)
      /\ \A x \in Envelopes : x >= n => broadcasts[p][x] = 0
      /\ \A x \in Envelopes : x < n /\ ~ operator.failed =>
           broadcasts[p][x] = 1
  BY <1>p, <1>n DEF AgentInv, ExecutingOK, ExecuteEnvelope
<1>3. n \in Nat /\ n + 1 \in Positions /\ \A x \in Envelopes : x \in Nat
  BY <1>1, OperatorAssumption DEF Envelopes, Positions
<1>4. /\ operator' \in Jobs /\ operator'.prop = p
      /\ operator'.phase = "executing" /\ operator'.next = n + 1
      /\ ~ operator'.failed => outcome = "sent" /\ ~ operator.failed
  <2>1. (operator.failed \/ outcome # "sent") \in BOOLEAN
    OBVIOUS
  <2>2. operator' = [operator EXCEPT !.next = n + 1,
                       !.failed = operator.failed \/ outcome # "sent"]
    BY <1>n DEF ExecuteEnvelope
  <2> QED
    BY <1>1, <1>3, <1>p, <2>1, <2>2 DEF ExecuteEnvelope, Jobs
<1>5. /\ broadcasts' \in [Proposals -> [Envelopes -> Nat]]
      /\ broadcasts'[p][n] \in {0, 1}
      /\ outcome = "sent" => broadcasts'[p][n] = 1
      /\ \A y \in Envelopes : y # n => broadcasts'[p][y] = broadcasts[p][y]
      /\ \A q \in Proposals : q # p => broadcasts'[q] = broadcasts[q]
  <2>1. broadcasts[p][n] = 0
    BY <1>1, <1>2, <1>3
  <2>2. CASE outcome = "unsent"
    BY <1>1, <2>1, <2>2 DEF ExecuteEnvelope
  <2>3. CASE outcome # "unsent"
    <3>1. broadcasts' = [broadcasts EXCEPT ![p][n] = @ + 1]
      BY <2>3, <1>p, <1>n DEF ExecuteEnvelope
    <3> QED
      BY <1>1, <2>1, <3>1, OneMore
  <2> QED
    BY <2>2, <2>3
<1>6. SpentKept /\ ReceiptsKept /\ Spent(p)'
  BY <1>2, NothingHappened, SpentStays DEF ExecuteEnvelope
<1>7. OperatorTypeOK'
  BY <1>4, <1>5 DEF AgentInv, OperatorTypeOK, ExecuteEnvelope
<1>8. ExecutingOK'
  <2>1. \A x \in Envelopes :
          /\ x >= n + 1 => x >= n /\ x # n
          /\ x < n + 1 => x < n \/ x = n
    BY <1>3
  <2>2. \A x \in Envelopes : x >= n + 1 => broadcasts'[p][x] = 0
    BY <1>2, <1>5, <2>1
  <2>3. \A x \in Envelopes : x < n + 1 /\ ~ operator'.failed =>
          broadcasts'[p][x] = 1
    BY <1>2, <1>3, <1>4, <1>5, <2>1
  <2> QED
    BY <1>4, <1>6, <2>2, <2>3 DEF ExecutingOK
<1>9. BroadcastIsSpent'
  BY <1>5, <1>6, SpentStays DEF AgentInv, BroadcastIsSpent
<1>10. BroadcastOnce'
  BY <1>5 DEF AgentInv, BroadcastOnce
<1>11. ReceiptIsBacked'
  <2>1. \A q \in Proposals, y \in Envelopes :
          broadcasts[q][y] = 1 => broadcasts'[q][y] = 1
    BY <1>1, <1>2, <1>3, <1>5
  <2> QED
    BY <1>6, <2>1 DEF AgentInv, ReceiptIsBacked, ReceiptsKept
<1> QED
  BY <1>4, <1>7, <1>8, <1>9, <1>10, <1>11 DEF AgentInv, ConsumingOK, SealingOK

LEMMA FinishStep ==
  ASSUME AgentInv, FinishExecution
  PROVE  AgentInv'
<1>1. operator \in Jobs
  BY DEF AgentInv, OperatorTypeOK
<1>2. CASE operator.failed
  <2>1. operator' \in Jobs /\ operator'.phase = "idle"
    BY <1>1, <1>2, BecomeTyped DEF FinishExecution, Phases
  <2>2. OperatorTypeOK'
    BY <2>1 DEF AgentInv, OperatorTypeOK, FinishExecution
  <2> QED
    BY <2>1, <2>2, NothingHappened, NothingBroadcast
       DEF FinishExecution, ConsumingOK
<1>3. CASE ~ operator.failed
  <2>1. operator' \in Jobs /\ operator'.phase = "sealing"
    BY <1>1, <1>3, BecomeTyped DEF FinishExecution, Phases
  <2>2. operator'.prop = operator.prop /\ broadcasts' = broadcasts
    BY <1>1, <1>3 DEF FinishExecution, Become, Jobs
  <2>3. OperatorTypeOK'
    BY <2>1 DEF AgentInv, OperatorTypeOK, FinishExecution
  <2>4. SealingOK'
    <3>1. \A x \in Envelopes : x < operator.next
      BY <1>1, OperatorAssumption
         DEF FinishExecution, Envelopes, Jobs, Positions
    <3> QED
      BY <1>3, <2>2, <3>1
         DEF AgentInv, ExecutingOK, SealingOK, FinishExecution
  <2>5. SpentKept /\ ReceiptsKept
    BY NothingHappened DEF FinishExecution
  <2>6. BroadcastIsSpent'
    BY <2>2, <2>5, SpentStays DEF AgentInv, BroadcastIsSpent
  <2>7. ReceiptIsBacked'
    BY <2>2, <2>5 DEF AgentInv, ReceiptIsBacked, ReceiptsKept
  <2> QED
    BY <2>1, <2>2, <2>3, <2>4, <2>6, <2>7
       DEF AgentInv, BroadcastOnce, ConsumingOK, ExecutingOK
<1> QED
  BY <1>2, <1>3

\* The one step that seals a receipt.
LEMMA SealStep ==
  ASSUME CoreInv, AgentInv, SealReceipt
  PROVE  AgentInv'
<1> DEFINE t == "CasperExecutionReceipt"
<1>0. operator \in Jobs /\ operator.prop \in Proposals
  BY DEF AgentInv, OperatorTypeOK, Jobs
<1>p. PICK p \in Proposals : p = operator.prop
  BY <1>0
<1>1. NewCard(t, "none", "none") \in Cards
  BY NewCardType DEF CardTypes, Outcomes, Refs
<1>2. cards' = [cards EXCEPT ![p] = Append(@, NewCard(t, "none", "none"))]
  BY <1>p DEF SealReceipt, Prepare, Seal
<1>3. LedgerTypeOK
  BY DEF CoreInv, TypeOK
<1>4. /\ \A q \in Proposals : q # p => cards'[q] = cards[q]
      /\ DOMAIN cards'[p] = (DOMAIN cards[p]) \cup {Len(cards[p]) + 1}
      /\ \A s \in DOMAIN cards[p] : cards'[p][s] = cards[p][s]
  BY <1>1, <1>2, <1>3, SealFacts
<1>5. NextSeq(p) \in Nat
  BY <1>3 DEF LedgerTypeOK, NextSeq
<1>6. operator' \in Jobs /\ operator'.phase = "posting" /\ broadcasts' = broadcasts
  BY <1>0, <1>p, <1>5 DEF SealReceipt, Jobs, Phases
<1>7. OperatorTypeOK'
  BY <1>6 DEF AgentInv, OperatorTypeOK, SealReceipt
<1>8. BroadcastIsSpent'
  BY <1>6 DEF AgentInv, BroadcastIsSpent, Spent, SealReceipt, authorityVars
<1>9. ReceiptIsBacked'
  <2>1. \A x \in Envelopes : broadcasts[p][x] = 1
    BY <1>p DEF AgentInv, SealingOK, SealReceipt
  <2>2. \A q \in Proposals : q # p => \A s \in DOMAIN cards'[q] :
          s \in DOMAIN cards[q] /\ cards'[q][s] = cards[q][s]
    BY <1>4
  <2> QED
    BY <1>6, <2>1, <2>2 DEF AgentInv, ReceiptIsBacked
<1> QED
  BY <1>6, <1>7, <1>8, <1>9
     DEF AgentInv, BroadcastOnce, ConsumingOK, ExecutingOK, SealingOK

LEMMA DeliverStep ==
  ASSUME CoreInv, AgentInv, PostReceipt \/ ConfirmReceipt
  PROVE  AgentInv'
<1>1. operator \in Jobs /\ operator.prop \in Proposals
  BY DEF AgentInv, OperatorTypeOK, Jobs
<1>2. operator' \in Jobs /\ operator'.phase \in {"idle", "confirming"}
  BY <1>1, BecomeTyped DEF PostReceipt, ConfirmReceipt, Phases
<1>3. OperatorTypeOK'
  BY <1>2 DEF AgentInv, OperatorTypeOK, PostReceipt, ConfirmReceipt
<1>4. SpentKept
  BY DEF PostReceipt, ConfirmReceipt, authorityVars, SpentKept
<1>5. ReceiptsKept
  <2>1. CASE PostReceipt
    BY <2>1 DEF PostReceipt, PostToRoom, ReceiptsKept
  <2>2. CASE ConfirmReceipt
    BY <1>1, <2>2, PublishedOne DEF ConfirmReceipt, Confirm, CoreInv, TypeOK
  <2> QED
    BY <2>1, <2>2
<1> QED
  BY <1>2, <1>3, <1>4, <1>5, NothingBroadcast
     DEF PostReceipt, ConfirmReceipt, ConsumingOK

LEMMA AgentStep ==
  ASSUME IInv, AgentInv, OperatorNext
  PROVE  AgentInv'
  BY EnvironmentKeeps, ReadStep, ConsumeStep, RefusedStep, ExecuteStep,
     FinishStep, SealStep, DeliverStep, FailingStep
     DEF IInv, OperatorNext, Working

-----------------------------------------------------------------------------
(***************************************************************************)
(* The theorems.                                                           *)
(***************************************************************************)

\* To the gateway the operator is a client like the others.
LEMMA OperatorIsClient ==
  ASSUME CoreInv, AgentInv, OperatorNext
  PROVE  [Next]_vars
<1>1. CASE Environment
  BY <1>1, EnvironmentStep
<1>2. ASSUME NEW a \in auths, Consume(a) \/ ConsumeUnanswered(a)
      PROVE  Next
  BY <1>2 DEF Consume, ConsumeUnanswered, Next, GatewayStep
<1>3. CASE SealReceipt \/ PostReceipt \/ ConfirmReceipt
  <2>1. operator.prop \in Proposals
    BY DEF AgentInv, OperatorTypeOK, Jobs
  <2>2. /\ "CasperExecutionReceipt" \in CardTypes
        /\ "none" \in Outcomes("CasperExecutionReceipt")
        /\ "none" \in Refs("CasperExecutionReceipt")
    BY DEF CardTypes, Outcomes, Refs
  <2>3. CASE SealReceipt
    BY <2>1, <2>2, <2>3 DEF SealReceipt, LedgerNext, LedgerStep, Next
  <2>4. CASE PostReceipt
    BY <2>1, <2>4 DEF PostReceipt, PostToRoom, LedgerNext, LedgerStep, Next
  <2>5. CASE ConfirmReceipt
    BY <2>1, <2>5 DEF ConfirmReceipt, Confirm, LedgerNext, LedgerStep, Next
  <2> QED
    BY <1>3, <2>3, <2>4, <2>5
<1>4. CASE \/ \E p \in Proposals : ReadMessage(p)
           \/ \E a \in auths : ConsumeRefused(a)
           \/ \E outcome \in Outcome : ExecuteEnvelope(outcome)
           \/ FinishExecution \/ RequestLost \/ Crash
  BY <1>4 DEF ReadMessage, ConsumeRefused, ExecuteEnvelope, FinishExecution,
              RequestLost, Crash
<1> QED
  BY <1>1, <1>2, <1>3, <1>4 DEF OperatorNext, Working, Failing

LEMMA OperatorStarts == OperatorInit => IInv /\ AgentInv
<1> SUFFICES ASSUME OperatorInit  PROVE IInv /\ AgentInv
  OBVIOUS
<1>1. IInv
  BY CoreStarts DEF OperatorInit
<1>2. operator \in Jobs /\ operator.phase = "idle"
  <2>1. (CHOOSE p \in Proposals : TRUE) \in Proposals
    BY OperatorAssumption
  <2> QED
    BY <2>1, JobTyped DEF OperatorInit, Idle, Job
<1>3. /\ room \in [Proposals -> Seq(Nat)]
      /\ broadcasts \in [Proposals -> [Envelopes -> Nat]]
      /\ \A p \in Proposals, x \in Envelopes : broadcasts[p][x] = 0
  BY DEF OperatorInit
<1>4. OperatorTypeOK
  BY <1>2, <1>3, OperatorAssumption DEF OperatorInit, OperatorTypeOK
<1>5. ReceiptIsBacked
  BY DEF OperatorInit, Init, LedgerInit, ReceiptIsBacked
<1> QED
  BY <1>1, <1>2, <1>3, <1>4, <1>5
     DEF AgentInv, BroadcastIsSpent, BroadcastOnce, ConsumingOK, ExecutingOK,
         SealingOK

LEMMA OperatorStutters ==
  ASSUME IInv, AgentInv, UNCHANGED operatorVars
  PROVE  IInv' /\ AgentInv'
<1>1. /\ UNCHANGED vars
      /\ UNCHANGED <<room, offset, operator, broadcasts, crashes, losses>>
  BY DEF operatorVars, agentVars
<1>2. IInv'
  BY <1>1, CoreStutters DEF IInv, StepOK
<1>3. SpentKept /\ ReceiptsKept
  BY <1>1, NothingHappened
<1>4. BroadcastIsSpent' /\ ReceiptIsBacked'
  BY <1>1, <1>3, SpentStays
     DEF AgentInv, BroadcastIsSpent, ReceiptIsBacked, ReceiptsKept
<1>5. ExecutingOK'
  BY <1>1, <1>3, SpentStays DEF AgentInv, ExecutingOK
<1> QED
  BY <1>1, <1>2, <1>4, <1>5
     DEF AgentInv, OperatorTypeOK, BroadcastOnce, ConsumingOK, SealingOK

THEOREM OperatorInvariant == OperatorSpec => [](IInv /\ AgentInv)
<1>1. IInv /\ AgentInv /\ OperatorNext => IInv' /\ AgentInv'
  <2> SUFFICES ASSUME IInv, AgentInv, OperatorNext
               PROVE  IInv' /\ AgentInv'
    OBVIOUS
  <2>1. StepOK
    BY OperatorIsClient, NextStep, CoreStutters DEF IInv
  <2> QED
    BY <2>1, AgentStep DEF IInv, StepOK
<1>2. IInv /\ AgentInv /\ [OperatorNext]_operatorVars => IInv' /\ AgentInv'
  BY <1>1, OperatorStutters
<1> QED
  BY <1>2, OperatorStarts, PTL DEF OperatorSpec

\* The operator and the gateway together implement the authorization
\* lifecycle: what is proved of the gateway with any client holds next to this
\* one, whatever it loses and however often it dies.
THEOREM OperatorImplementsLifecycle == OperatorSpec => Spec
<1>1. OperatorInit => Init
  BY DEF OperatorInit
<1>2. IInv /\ AgentInv /\ [OperatorNext]_operatorVars => [Next]_vars
  BY OperatorIsClient DEF IInv, operatorVars
<1> QED
  BY <1>1, <1>2, OperatorInvariant, PTL DEF OperatorSpec, Spec

\* What the operator keeps in memory stays well formed through lost requests and
\* restarts, and it never asks for an authorization more often than it may.
THEOREM OperatorTypeCorrect == OperatorSpec => []OperatorTypeOK
<1>1. AgentInv => OperatorTypeOK
  BY DEF AgentInv
<1> QED
  BY <1>1, OperatorInvariant, PTL

\* No envelope of a proposal is broadcast twice, for any number of messages that
\* carry its authority, of readers' restarts and of lost answers.
THEOREM BroadcastOnceCorrect == OperatorSpec => []BroadcastOnce
<1>1. AgentInv => BroadcastOnce
  BY DEF AgentInv
<1> QED
  BY <1>1, OperatorInvariant, PTL

\* What is broadcast is the plan in force under a spent authorization of it.
THEOREM AuthorizedCorrect == OperatorSpec => []BroadcastIsAuthorized
<1>1. AgentInv /\ SpentPlanIsInForce => BroadcastIsAuthorized
  BY DEF AgentInv, BroadcastIsSpent, Spent, SpentPlanIsInForce,
         BroadcastIsAuthorized
<1> QED
  BY <1>1, OperatorInvariant, OperatorImplementsLifecycle, WithoutRestarts,
     SpentCorrect, PTL

\* A receipt is only ever sealed over a deploy of every envelope of the plan.
THEOREM ReceiptBackedCorrect == OperatorSpec => []ReceiptIsBacked
<1>1. AgentInv => ReceiptIsBacked
  BY DEF AgentInv
<1> QED
  BY <1>1, OperatorInvariant, PTL

=============================================================================
