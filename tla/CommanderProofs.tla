--------------------------- MODULE CommanderProofs ---------------------------
(***************************************************************************)
(* Proofs about the Protocol Strategy Agent as a client of the             *)
(* authorization lifecycle, for any number of deaths, lost requests and    *)
(* revisions.                                                              *)
(*                                                                         *)
(* The argument: every step of the saga, of the reviewer, the human and    *)
(* the clock is one of the lifecycle, so what is proved of that holds      *)
(* here.  A plan is prepared only under a key no plan has, and only the    *)
(* agent prepares.  A nonce can decide only from the moment its challenge  *)
(* is posted; between the confirmation of the plan and that moment no      *)
(* other nonce of the proposal can, so nobody moves the proposal, and the  *)
(* plan the nonce is bound to stays in force.                              *)
(***************************************************************************)
EXTENDS CommanderSaga, AuthorizationProofs

-----------------------------------------------------------------------------
(***************************************************************************)
(* The inductive invariant.                                                *)
(***************************************************************************)

RoomOK ==
  /\ room \in [Proposals -> Seq(Nat)]
  /\ offset \in [Proposals -> Nat]
  /\ \A p \in Proposals :
       /\ \A i \in DOMAIN room[p] : room[p][i] \in DOMAIN cards[p]
       /\ offset[p] <= Len(room[p])

\* A context is a record of four fields; nothing is asked of its revision.
IsContext(c) ==
  /\ c = [known |-> c.known, submitted |-> c.submitted, source |-> c.source,
          revision |-> c.revision]
  /\ {c.known, c.submitted} \subseteq BOOLEAN

MemoryOK ==
  /\ memory = [p \in Proposals |-> memory[p]]
  /\ \A p \in Proposals :
       IsContext(memory[p]) /\ memory[p].source \in {0} \cup DOMAIN cards[p]

\* A request is the one behind a plan, and no two answer the same card.
RequestsOK ==
  /\ request = [p \in Proposals |-> request[p]]
  /\ \A p \in Proposals :
       /\ \A s \in DOMAIN request[p] :
            s \in DOMAIN cards[p] /\ cards[p][s].type = "ResponsePlan"
       /\ \A s, t \in DOMAIN request[p] :
            request[p][s].source = request[p][t].source => s = t

\* The card the reviewer confirms.
VerdictSealed ==
  \A p \in Proposals : 4 \in DOMAIN cards[p] /\ cards[p][4].type = "Verdict"

Valid(p, n) == NonceValid(p, n, nonce[p][n].plan)

InForce(p, s) == state[p] = "PLANNED" /\ IsPlanInForce(p, s)

\* One nonce of a proposal is active at a time, and one that can decide is bound
\* to the plan in force while the proposal waits for the decision.
AskOK ==
  \A p \in Proposals, n \in Nonces :
    /\ \A m \in Nonces :
         nonce[p][n].status = "active" /\ nonce[p][m].status = "active" => m = n
    /\ Valid(p, n) => InForce(p, nonce[p][n].plan)

IsJob(j) ==
  j = [phase |-> j.phase, prop |-> j.prop, source |-> j.source,
       revision |-> j.revision, attempts |-> j.attempts, plan |-> j.plan,
       nonce |-> j.nonce]

\* Nobody can decide about a proposal that waits for a decision.
Undecided(p) == state[p] = "PLANNED" /\ \A n \in Nonces : ~ Valid(p, n)

\* What the saga knows in each of its phases.
PhaseOK(j) ==
  \/ j.phase = "preparing"
  \/ /\ j.phase \in {"posting", "confirming"}
     /\ j.plan \in DOMAIN request[j.prop]
  \/ /\ j.phase \in {"asking", "challenging"}
     /\ Undecided(j.prop) /\ IsPlanInForce(j.prop, j.plan)
     /\ j.phase = "challenging" =>
          j.nonce \in Nonces /\ nonce[j.prop][j.nonce].plan = j.plan

JobOK == job = NoJob \/ (IsJob(job) /\ job.prop \in Proposals /\ PhaseOK(job))

CountsOK ==
  /\ gaveUp \subseteq Proposals
  /\ crashes \in 0 .. MaxCrashes /\ losses \in 0 .. MaxLosses

AgentInv ==
  RoomOK /\ MemoryOK /\ RequestsOK /\ VerdictSealed /\ AskOK /\ JobOK /\ CountsOK

SagaInv == IInv /\ AgentInv

-----------------------------------------------------------------------------
(***************************************************************************)
(* What the ledger's steps leave standing.                                 *)
(***************************************************************************)

LEMMA RoomCarried ==
  ASSUME RoomOK, CardsKept, UNCHANGED <<room, offset>>
  PROVE  RoomOK'
  BY DEF RoomOK, CardsKept

LEMMA MemoryCarried ==
  ASSUME MemoryOK, CardsKept, memory' = memory
  PROVE  MemoryOK'
  BY DEF MemoryOK, CardsKept, IsContext

LEMMA RequestsCarried ==
  ASSUME RequestsOK, CardsKept, request' = request
  PROVE  RequestsOK'
  BY DEF RequestsOK, CardsKept

LEMMA VerdictCarried ==
  ASSUME VerdictSealed, CardsKept
  PROVE  VerdictSealed'
  BY DEF VerdictSealed, CardsKept

\* While nobody can decide, nobody moves the proposal.
UndecidedKept ==
  \A p \in Proposals : Undecided(p) =>
    /\ Undecided(p)' /\ PlansSame(p)
    /\ \A n \in Nonces : nonce'[p][n].plan = nonce[p][n].plan

LEMMA JobCarried ==
  ASSUME JobOK, UndecidedKept, job' = job, request' = request
  PROVE  JobOK'
<1>1. CASE job = NoJob
  BY <1>1 DEF JobOK
<1>2. CASE job # NoJob
  <2>1. IsJob(job) /\ job.prop \in Proposals /\ PhaseOK(job)
    BY <1>2 DEF JobOK
  <2>2. PhaseOK(job)'
    <3>1. CASE job.phase \notin {"asking", "challenging"}
      BY <2>1, <3>1 DEF PhaseOK
    <3>2. CASE job.phase \in {"asking", "challenging"}
      <4>1. Undecided(job.prop)' /\ PlansSame(job.prop)
        BY <2>1, <3>2 DEF PhaseOK, UndecidedKept
      <4>2. IsPlanInForce(job.prop, job.plan)'
        BY <2>1, <3>2, <4>1 DEF PhaseOK, PlansSame, IsPlanInForce,
                                IsPublishedPlan
      <4>3. job.phase = "challenging" =>
              nonce'[job.prop][job.nonce].plan = job.plan
        BY <2>1, <3>2 DEF PhaseOK, UndecidedKept
      <4> QED
        BY <2>1, <3>2, <4>1, <4>2, <4>3 DEF PhaseOK
    <3> QED
      BY <3>1, <3>2
  <2> QED
    BY <2>1, <2>2 DEF JobOK, IsJob
<1> QED
  BY <1>1, <1>2

\* A step that touches neither the nonces nor a proposal that waits.
LEMMA WaitingKept ==
  ASSUME AskOK, nonce' = nonce,
         \A p \in Proposals : state[p] = "PLANNED" =>
           state'[p] = state[p] /\ PlansSame(p)
  PROVE  AskOK' /\ UndecidedKept
<1>1. ASSUME NEW p \in Proposals, NEW n \in Nonces
      PROVE  Valid(p, n)' <=> Valid(p, n)
  BY DEF Valid, NonceValid
<1>2. ASSUME NEW p \in Proposals, NEW s, InForce(p, s)
      PROVE  InForce(p, s)'
  BY <1>2 DEF InForce, PlansSame, IsPlanInForce, IsPublishedPlan
<1>3. AskOK'
  BY <1>1, <1>2 DEF AskOK
<1>4. UndecidedKept
  BY <1>1 DEF UndecidedKept, Undecided
<1> QED
  BY <1>3, <1>4

LEMMA NothingMoves ==
  ASSUME AskOK, UNCHANGED vars
  PROVE  CardsKept /\ AskOK' /\ UndecidedKept
<1>1. UNCHANGED <<state, cards, nonce>>
  BY DEF vars
<1>2. CardsKept /\ \A p \in Proposals : PlansSame(p)
  BY <1>1 DEF CardsKept, PlansSame, IsPublishedPlan
<1> QED
  BY <1>1, <1>2, WaitingKept

-----------------------------------------------------------------------------
(***************************************************************************)
(* The reviewer, the human, the gateway and the clock.                     *)
(***************************************************************************)

\* The human decides with the one nonce that can, and closes it.
LEMMA DecisionTaken ==
  ASSUME TypeOK, AskOK, NEW p \in Proposals, NEW n \in Nonces, Valid(p, n),
         NEW st \in {"consumed", "invalidated"},
         nonce' = [nonce EXCEPT ![p][n].status = st],
         \A q \in Proposals : PlansSame(q),
         \A q \in Proposals : q # p => state'[q] = state[q]
  PROVE  AskOK' /\ UndecidedKept
<1>1. /\ \A q \in Proposals : q # p => nonce'[q] = nonce[q]
      /\ \A m \in Nonces : m # n => nonce'[p][m] = nonce[p][m]
      /\ nonce'[p][n].status = st
  <2>1. nonce \in [Proposals -> [Nonces -> NonceRows]]
    BY DEF TypeOK
  <2> QED
    BY <2>1 DEF NonceRows
<1>2. \A m \in Nonces : nonce'[p][m].status # "active"
  BY <1>1 DEF AskOK, Valid, NonceValid
<1>3. ASSUME NEW q \in Proposals, NEW m \in Nonces, q # p
      PROVE  /\ Valid(q, m)' <=> Valid(q, m)
             /\ InForce(q, nonce[q][m].plan) => InForce(q, nonce[q][m].plan)'
  BY <1>1, <1>3 DEF Valid, NonceValid, InForce, PlansSame, IsPlanInForce,
                    IsPublishedPlan
<1>4. \A m \in Nonces : ~ Valid(p, m)'
  BY <1>2 DEF Valid, NonceValid
<1>5. AskOK'
  <2>1. ASSUME NEW q \in Proposals, NEW m \in Nonces
        PROVE  /\ \A k \in Nonces :
                    nonce'[q][m].status = "active" /\ nonce'[q][k].status = "active"
                      => k = m
               /\ Valid(q, m)' => InForce(q, nonce[q][m].plan)'
    BY <1>1, <1>2, <1>3, <1>4 DEF AskOK
  <2>2. ASSUME NEW q \in Proposals, NEW m \in Nonces, Valid(q, m)'
        PROVE  nonce'[q][m].plan = nonce[q][m].plan
    BY <1>1, <1>4, <2>2
  <2> QED
    BY <2>1, <2>2 DEF AskOK, InForce, IsPlanInForce, IsPublishedPlan
<1>6. UndecidedKept
  <2> SUFFICES ASSUME NEW q \in Proposals, Undecided(q)
               PROVE  /\ Undecided(q)' /\ PlansSame(q)
                      /\ \A m \in Nonces : nonce'[q][m].plan = nonce[q][m].plan
    BY DEF UndecidedKept
  <2>1. q # p
    BY DEF Undecided
  <2> QED
    BY <1>1, <1>3, <2>1 DEF Undecided
<1> QED
  BY <1>5, <1>6

LEMMA HumanKeeps ==
  ASSUME CoreInv, AskOK, NEW p \in Proposals, NEW n \in Nonces,
         NEW s \in DOMAIN cards[p],
         \/ ConsumeNonce(p, n, s, s, "advanced")
         \/ Revise(p, n, s)
         \/ FalseAlarm(p, n, s)
  PROVE  AskOK' /\ UndecidedKept
<1>1. TypeOK /\ LedgerTypeOK
  BY DEF CoreInv, TypeOK
<1>2. CASE ConsumeNonce(p, n, s, s, "advanced")
  <2> DEFINE c == [NewCard("StructuredApproval", "APPROVED", n)
                     EXCEPT !.published = TRUE]
  <2>1. /\ Valid(p, n)
        /\ nonce' = [nonce EXCEPT ![p][n].status = "consumed"]
        /\ cards' = [cards EXCEPT ![p] = Append(@, c)]
        /\ \A q \in Proposals : q # p => state'[q] = state[q]
    BY <1>1, <1>2 DEF ConsumeNonce, Issue, SealDecision, Valid, NonceValid,
                      LedgerTypeOK
  <2>2. NewCard("StructuredApproval", "APPROVED", n) \in Cards
    BY NewCardType DEF CardTypes, Outcomes, Refs
  <2>3. c \in Cards /\ c.type # "ResponsePlan"
    BY <2>2 DEF Cards, NewCard
  <2> HIDE DEF c
  <2>4. \A q \in Proposals : PlansSame(q)
    BY <1>1, <2>1, <2>3, SealEffects
  <2> QED
    BY <1>1, <2>1, <2>4, DecisionTaken
<1>3. ASSUME NEW o \in {"REJECTED", "FALSE_ALARM"}, NEW t, Overrule(p, n, s, o, t)
      PROVE  AskOK' /\ UndecidedKept
  <2> DEFINE c == [NewCard("StructuredApproval", o, n) EXCEPT !.published = FALSE]
  <2>1. /\ Valid(p, n)
        /\ nonce' = [nonce EXCEPT ![p][n].status = "invalidated"]
        /\ cards' = [cards EXCEPT ![p] = Append(@, c)]
        /\ \A q \in Proposals : q # p => state'[q] = state[q]
    BY <1>1, <1>3 DEF Overrule, SealDecision, Valid, NonceValid, LedgerTypeOK
  <2>2. NewCard("StructuredApproval", o, n) \in Cards
    BY NewCardType DEF CardTypes, Outcomes, Refs
  <2>3. c \in Cards /\ c.type # "ResponsePlan"
    BY <2>2 DEF Cards, NewCard
  <2> HIDE DEF c
  <2>4. \A q \in Proposals : PlansSame(q)
    BY <1>1, <2>1, <2>3, SealEffects
  <2> QED
    BY <1>1, <2>1, <2>4, DecisionTaken
<1> QED
  BY <1>2, <1>3 DEF Revise, FalseAlarm

LEMMA LapseKeeps ==
  ASSUME TypeOK, AskOK, NEW p \in Proposals, NEW n \in Nonces, LapseNonce(p, n)
  PROVE  AskOK' /\ UndecidedKept
<1>1. /\ UNCHANGED <<state, cards>>
      /\ nonce' = [nonce EXCEPT ![p][n].lapsed = TRUE]
  BY DEF LapseNonce, ledgerVars
<1>2. \A q \in Proposals, m \in Nonces :
        /\ nonce'[q][m].status = nonce[q][m].status
        /\ nonce'[q][m].plan = nonce[q][m].plan
        /\ nonce'[q][m].challenged = nonce[q][m].challenged
        /\ nonce'[q][m].lapsed = FALSE => nonce[q][m].lapsed = FALSE
  <2>1. nonce \in [Proposals -> [Nonces -> NonceRows]]
    BY DEF TypeOK
  <2> QED
    BY <1>1, <2>1 DEF NonceRows
<1>3. \A q \in Proposals, m \in Nonces : Valid(q, m)' => Valid(q, m)
  <2>1. nonce \in [Proposals -> [Nonces -> NonceRows]]
    BY DEF TypeOK
  <2>2. \A q \in Proposals, m \in Nonces : nonce[q][m].lapsed \in BOOLEAN
    BY <2>1 DEF NonceRows
  <2>3. \A q \in Proposals, m \in Nonces : ~ nonce'[q][m].lapsed => ~ nonce[q][m].lapsed
    BY <1>1, <2>1 DEF NonceRows
  <2> QED
    BY <1>2, <2>3 DEF Valid, NonceValid
<1>4. \A q \in Proposals : PlansSame(q)
  BY <1>1 DEF PlansSame, IsPublishedPlan
<1>5. \A q \in Proposals : \A t : InForce(q, t)' <=> InForce(q, t)
  BY <1>1 DEF InForce, IsPlanInForce, IsPublishedPlan
<1>6. AskOK'
  BY <1>2, <1>3, <1>5 DEF AskOK
<1>7. UndecidedKept
  BY <1>1, <1>2, <1>3, <1>4 DEF UndecidedKept, Undecided
<1> QED
  BY <1>6, <1>7

\* All that is to be shown of a step of the others.
LEMMA OthersCarry ==
  ASSUME SagaInv, CardsKept, AskOK', UndecidedKept,
         UNCHANGED <<offset, room, request, memory, job, gaveUp, crashes, losses>>
  PROVE  AgentInv'
<1>1. RoomOK' /\ MemoryOK' /\ RequestsOK' /\ VerdictSealed'
  BY RoomCarried, MemoryCarried, RequestsCarried, VerdictCarried
     DEF SagaInv, AgentInv
<1>2. JobOK'
  BY JobCarried DEF SagaInv, AgentInv
<1>3. CountsOK'
  BY DEF SagaInv, AgentInv, CountsOK
<1> QED
  BY <1>1, <1>2, <1>3 DEF AgentInv

LEMMA ReviewerKeeps ==
  ASSUME SagaInv, Effects, NEW p \in Proposals, ReviewerConfirms(p)
  PROVE  AgentInv'
<1>1. LedgerTypeOK
  BY DEF SagaInv, IInv, CoreInv, TypeOK
<1>2. 4 \in DOMAIN cards[p] /\ cards[p][4].type = "Verdict"
  BY DEF SagaInv, AgentInv, VerdictSealed
<1>3. /\ Publish(p, 4, TRUE)
      /\ state[p] = "ASSESSED"
      /\ \A q \in Proposals : q # p => state'[q] = state[q]
      /\ nonce' = nonce
      /\ UNCHANGED agentVars
  BY <1>1, <1>2 DEF ReviewerConfirms, Confirm, Allowed, Prerequisite,
                    LedgerTypeOK, authorityVars
<1>4. \A q \in Proposals : PlansSame(q)
  BY <1>1, <1>2, <1>3, PublishEffects
<1>5. AskOK' /\ UndecidedKept
  BY <1>3, <1>4, WaitingKept DEF SagaInv, AgentInv
<1> QED
  BY <1>3, <1>5, OthersCarry DEF Effects, agentVars

LEMMA RevisionKeeps ==
  ASSUME SagaInv, Effects, NEW p \in Proposals, NEW s \in DOMAIN cards[p],
         NEW reach \in Reaches, RoomHearsOfRevision(p, s, reach)
  PROVE  AgentInv'
<1>1. LedgerTypeOK /\ CardsKept
  BY DEF SagaInv, IInv, CoreInv, TypeOK, Effects
<1>2. /\ Publish(p, s, reach = "advanced")
      /\ cards[p][s].type = "StructuredApproval"
      /\ state' = state /\ nonce' = nonce
      /\ room' = [room EXCEPT ![p] = Append(@, s)]
      /\ UNCHANGED <<request, offset, memory, job, gaveUp, crashes, losses>>
  BY DEF RoomHearsOfRevision, NotifyDecision, authorityVars
<1>3. \A q \in Proposals : PlansSame(q)
  BY <1>1, <1>2, PublishEffects
<1>4. AskOK' /\ UndecidedKept
  BY <1>2, <1>3, WaitingKept DEF SagaInv, AgentInv
<1>5. MemoryOK' /\ RequestsOK' /\ VerdictSealed' /\ JobOK'
  BY <1>1, <1>2, <1>4, MemoryCarried, RequestsCarried, VerdictCarried, JobCarried
     DEF SagaInv, AgentInv
<1>6. RoomOK'
  <2>1. /\ room \in [Proposals -> Seq(Nat)] /\ offset \in [Proposals -> Nat]
        /\ \A q \in Proposals :
             /\ \A i \in DOMAIN room[q] : room[q][i] \in DOMAIN cards[q]
             /\ offset[q] <= Len(room[q])
    BY DEF SagaInv, AgentInv, RoomOK
  <2>2. s \in Nat
    <3>1. cards[p] \in Seq(Cards)
      BY <1>1 DEF LedgerTypeOK
    <3> QED
      BY <3>1
  <2>3. /\ room[p] \in Seq(Nat) /\ room'[p] = Append(room[p], s)
        /\ \A q \in Proposals : q # p => room'[q] = room[q]
    BY <1>2, <2>1
  <2>4. /\ room'[p] \in Seq(Nat)
        /\ Len(room'[p]) = Len(room[p]) + 1
        /\ \A i \in DOMAIN room'[p] :
             \/ i \in DOMAIN room[p] /\ room'[p][i] = room[p][i]
             \/ room'[p][i] = s
    BY <2>2, <2>3
  <2>5. room' \in [Proposals -> Seq(Nat)]
    BY <1>2, <2>1, <2>3, <2>4
  <2>6. \A q \in Proposals : DOMAIN cards[q] \subseteq DOMAIN cards'[q]
    BY <1>1 DEF CardsKept
  <2>7. \A i \in DOMAIN room'[p] : room'[p][i] \in DOMAIN cards'[p]
    BY <2>1, <2>4, <2>6
  <2>8. offset[p] <= Len(room'[p])
    BY <2>1, <2>3, <2>4
  <2> QED
    BY <1>2, <2>1, <2>3, <2>5, <2>6, <2>7, <2>8 DEF RoomOK
<1> QED
  BY <1>2, <1>4, <1>5, <1>6 DEF SagaInv, AgentInv, CountsOK

LEMMA OthersKeep ==
  ASSUME SagaInv, Effects, Others
  PROVE  AgentInv'
<1>0. CoreInv /\ TypeOK /\ AskOK /\ CardsKept
  BY DEF SagaInv, IInv, CoreInv, AgentInv, Effects
<1>1. CASE \E p \in Proposals : ReviewerConfirms(p)
  BY <1>1, ReviewerKeeps
<1>2. CASE \E p \in Proposals : \E s \in DOMAIN cards[p], reach \in Reaches :
             RoomHearsOfRevision(p, s, reach)
  BY <1>2, RevisionKeeps
<1>3. CASE HumanDecides
  <2>1. AskOK' /\ UndecidedKept /\ UNCHANGED agentVars
    BY <1>0, <1>3, HumanKeeps DEF HumanDecides
  <2> QED
    BY <1>0, <2>1, OthersCarry DEF agentVars
<1>4. CASE TimePasses
  <2>1. AskOK' /\ UndecidedKept /\ UNCHANGED agentVars
    BY <1>0, <1>4, LapseKeeps DEF TimePasses
  <2> QED
    BY <1>0, <2>1, OthersCarry DEF agentVars
<1> QED
  BY <1>1, <1>2, <1>3, <1>4 DEF Others

-----------------------------------------------------------------------------
(***************************************************************************)
(* Reading the room.                                                       *)
(***************************************************************************)

\* The next card of a room that is read.
LEMMA NextCardIs ==
  ASSUME RoomOK, NEW p \in Proposals, offset[p] < Len(room[p])
  PROVE  NextCard(p) \in DOMAIN cards[p]
<1>1. room[p] \in Seq(Nat) /\ offset[p] \in Nat
  BY DEF RoomOK
<1>2. offset[p] + 1 \in DOMAIN room[p]
  BY <1>1
<1> QED
  BY <1>2 DEF RoomOK, NextCard

LEMMA ContextIs ==
  ASSUME MemoryOK, NEW p \in Proposals, NEW b \in BOOLEAN
  PROVE  /\ IsContext(ContextOf(p, b))
         /\ ContextOf(p, b).source \in {0} \cup DOMAIN cards[p]
<1>1. /\ IsContext(memory[p])
      /\ memory[p].source \in {0} \cup DOMAIN cards[p]
  BY DEF MemoryOK
<1>2. PICK r : Restored(p, b) =
                 [known |-> TRUE, submitted |-> FALSE, source |-> 0, revision |-> r]
  BY DEF Restored
<1>3. IsContext(Restored(p, b)) /\ Restored(p, b).source = 0
  BY <1>2 DEF IsContext
<1> QED
  BY <1>1, <1>3 DEF ContextOf

LEMMA Remembered ==
  ASSUME MemoryOK, CardsKept, NEW p \in Proposals, NEW c, IsContext(c),
         c.source \in {0} \cup DOMAIN cards[p],
         memory' = [memory EXCEPT ![p] = c]
  PROVE  MemoryOK'
<1>1. /\ memory' = [q \in Proposals |-> memory'[q]]
      /\ memory'[p] = c
      /\ \A q \in Proposals : q # p => memory'[q] = memory[q]
  BY DEF MemoryOK
<1>2. ASSUME NEW q \in Proposals
      PROVE  IsContext(memory'[q]) /\ memory'[q].source \in {0} \cup DOMAIN cards'[q]
  BY <1>1 DEF MemoryOK, CardsKept
<1> QED
  BY <1>1, <1>2 DEF MemoryOK, IsContext

LEMMA StartKeeps ==
  ASSUME MemoryOK, CardsKept, NEW p \in Proposals, NEW c, IsContext(c),
         c.source \in {0} \cup DOMAIN cards[p], Start(p, c)
  PROVE  MemoryOK' /\ JobOK'
<1>1. memory' = [memory EXCEPT ![p] = c]
  BY DEF Start
<1>2. IsJob(job)' /\ job'.prop = p /\ job'.phase = "preparing"
  BY DEF Start, IsJob
<1> QED
  BY <1>1, <1>2, Remembered DEF JobOK, PhaseOK

\* Whatever the agent makes of a card.
Taken(p, s) ==
  \/ Handle(p, s) \/ HandleUnanswered(p, s) \/ UNCHANGED <<memory, job>>

LEMMA HandleKeeps ==
  ASSUME MemoryOK, JobOK, CardsKept, UndecidedKept, request' = request,
         NEW p \in Proposals, NEW s \in DOMAIN cards[p], Taken(p, s)
  PROVE  MemoryOK' /\ JobOK'
<1>1. CASE UNCHANGED <<memory, job>>
  BY <1>1, MemoryCarried, JobCarried
<1>2. CASE TakeVerdict(p, s)
  <2> DEFINE c == [known |-> TRUE, submitted |-> FALSE, source |-> s, revision |-> 1]
  <2>1. IsContext(c) /\ c.source = s /\ Start(p, c)
    BY <1>2 DEF TakeVerdict, IsContext
  <2> HIDE DEF c
  <2> QED
    BY <2>1, StartKeeps
<1>3. ASSUME NEW b \in BOOLEAN, NEW f \in BOOLEAN, TakeRejection(p, s, b, f)
      PROVE  MemoryOK' /\ JobOK'
  <2>1. PICK c : c = ContextOf(p, b)
    OBVIOUS
  <2>2. IsContext(c)
    BY <2>1, ContextIs
  <2>3. PICK d : d = [c EXCEPT !.submitted = FALSE, !.source = s, !.revision = @ + 1]
    OBVIOUS
  <2>4. d = [known |-> c.known, submitted |-> FALSE, source |-> s,
             revision |-> c.revision + 1]
    BY <2>2, <2>3 DEF IsContext
  <2>5. IsContext(d) /\ d.source = s
    BY <2>2, <2>4 DEF IsContext
  <2>6. Start(p, d)
    BY <1>3, <2>1, <2>3 DEF TakeRejection
  <2> QED
    BY <2>5, <2>6, StartKeeps
<1>4. CASE IgnoreRejection(p, s)
  <2>1. memory' = [memory EXCEPT ![p] = ContextOf(p, TRUE)] /\ job' = job
    BY <1>4 DEF IgnoreRejection
  <2> QED
    BY <2>1, ContextIs, Remembered, JobCarried
<1>5. CASE PassOver(p, s) \/ AssessmentOutOfReach(p)
  BY <1>1, <1>5 DEF PassOver, AssessmentOutOfReach
<1>6. CASE Handle(p, s)
  BY <1>2, <1>3, <1>4, <1>5, <1>6 DEF Handle
<1>7. CASE HandleUnanswered(p, s)
  BY <1>3, <1>5, <1>6, <1>7 DEF HandleUnanswered
<1> QED
  BY <1>1, <1>6, <1>7 DEF Taken

LEMMA ReadKeeps ==
  ASSUME SagaInv, NEW p \in Proposals, Read(p)
  PROVE  AgentInv'
<1>1. /\ offset[p] < Len(room[p])
      /\ offset' = [offset EXCEPT ![p] = @ + 1]
      /\ Taken(p, NextCard(p))
      /\ losses' = losses \/ (losses < MaxLosses /\ losses' = losses + 1)
      /\ UNCHANGED <<vars, room, request, gaveUp, crashes>>
  BY DEF Read, Taken
<1>2. CardsKept /\ AskOK' /\ UndecidedKept
  BY <1>1, NothingMoves DEF SagaInv, AgentInv
<1>3. NextCard(p) \in DOMAIN cards[p]
  BY <1>1, NextCardIs DEF SagaInv, AgentInv
<1>4. MemoryOK' /\ JobOK'
  BY <1>1, <1>2, <1>3, HandleKeeps DEF SagaInv, AgentInv
<1>5. RequestsOK' /\ VerdictSealed'
  BY <1>1, <1>2, RequestsCarried, VerdictCarried DEF SagaInv, AgentInv
<1>6. RoomOK'
  <2>1. /\ room \in [Proposals -> Seq(Nat)] /\ offset \in [Proposals -> Nat]
        /\ \A q \in Proposals :
             /\ \A i \in DOMAIN room[q] : room[q][i] \in DOMAIN cards[q]
             /\ offset[q] <= Len(room[q])
    BY DEF SagaInv, AgentInv, RoomOK
  <2>2. Len(room[p]) \in Nat
    BY <2>1
  <2>3. /\ offset' \in [Proposals -> Nat]
        /\ \A q \in Proposals : offset'[q] <= Len(room[q])
    BY <1>1, <2>1, <2>2
  <2>4. cards' = cards
    BY <1>1 DEF vars
  <2> QED
    BY <1>1, <2>1, <2>3, <2>4 DEF RoomOK
<1>7. CountsOK'
  BY <1>1, CommanderAssumption DEF SagaInv, AgentInv, CountsOK
<1> QED
  BY <1>2, <1>4, <1>5, <1>6, <1>7 DEF AgentInv

-----------------------------------------------------------------------------
(***************************************************************************)
(* The saga.                                                               *)
(***************************************************************************)

LEMMA SagaUnderWay ==
  ASSUME JobOK, job.phase # "idle"
  PROVE  IsJob(job) /\ job.prop \in Proposals /\ PhaseOK(job)
  BY DEF JobOK, NoJob

\* What a step of the saga leaves of the rest, whatever it does to its job.
LEMMA SagaCarried ==
  ASSUME SagaInv, CardsKept, UNCHANGED <<room, offset, memory, crashes>>,
         gaveUp' = gaveUp \/ (gaveUp' = gaveUp \cup {job.prop}),
         job.phase # "idle",
         losses' = losses \/ (losses < MaxLosses /\ losses' = losses + 1)
  PROVE  RoomOK' /\ MemoryOK' /\ VerdictSealed' /\ CountsOK'
<1>1. RoomOK' /\ MemoryOK' /\ VerdictSealed'
  BY RoomCarried, MemoryCarried, VerdictCarried DEF SagaInv, AgentInv
<1>2. job.prop \in Proposals
  BY SagaUnderWay DEF SagaInv, AgentInv
<1>3. CountsOK'
  BY <1>2, CommanderAssumption DEF SagaInv, AgentInv, CountsOK
<1> QED
  BY <1>1, <1>3

LEMMA PreparePlanKeeps ==
  ASSUME SagaInv, Effects, PreparePlan
  PROVE  AgentInv'
<1>0. PICK p, s : p = job.prop /\ s = Len(cards[p]) + 1
  OBVIOUS
<1> DEFINE c == NewCard("ResponsePlan", "none", "human")
<1>1. LedgerTypeOK /\ CardsKept
  BY DEF SagaInv, IInv, CoreInv, TypeOK, Effects
<1>2. IsJob(job) /\ p \in Proposals
  BY <1>0, SagaUnderWay DEF SagaInv, AgentInv, PreparePlan
<1>3. /\ job.phase # "idle"
      /\ Under(p, job.source) = {}
      /\ Prepare(p, "ResponsePlan", "none", "human")
      /\ request' = [request EXCEPT ![p] = [t \in DOMAIN @ \cup {s} |->
           IF t = s THEN [source |-> job.source, revision |-> job.revision]
                    ELSE @[t]]]
      /\ \/ job' = [job EXCEPT !.phase = "posting", !.plan = s]
         \/ job' = NoJob
      /\ losses' = losses \/ (losses < MaxLosses /\ losses' = losses + 1)
      /\ nonce' = nonce
      /\ UNCHANGED <<room, offset, memory, gaveUp, crashes>>
  BY <1>0 DEF PreparePlan, Answered, Drop, authorityVars
<1>4. c \in Cards /\ c.type = "ResponsePlan" /\ ~ c.published
  BY NewCardType DEF CardTypes, Outcomes, Refs, NewCard
<1>5. /\ cards' = [cards EXCEPT ![p] = Append(@, c)]
      /\ \A q \in Proposals : state[q] = "PLANNED" => state'[q] = "PLANNED"
  BY <1>1, <1>3 DEF Prepare, Seal, LedgerTypeOK
<1> HIDE DEF c
<1>6. /\ s \notin DOMAIN cards[p] /\ s \in DOMAIN cards'[p]
      /\ cards'[p][s].type = "ResponsePlan"
  <2>1. /\ DOMAIN cards'[p] = (DOMAIN cards[p]) \cup {Len(cards[p]) + 1}
        /\ Len(cards[p]) + 1 \notin DOMAIN cards[p]
        /\ cards'[p][Len(cards[p]) + 1] = c
    BY <1>1, <1>2, <1>4, <1>5, SealFacts
  <2> QED
    BY <1>0, <1>4, <2>1
<1>7. \A q \in Proposals : PlansSame(q)
  BY <1>1, <1>2, <1>4, <1>5, SealEffects
<1>8. AskOK'
  BY <1>3, <1>5, <1>7, WaitingKept DEF SagaInv, AgentInv
<1>9. RequestsOK
  BY DEF SagaInv, AgentInv
<1>10. /\ request' = [q \in Proposals |-> request'[q]]
       /\ \A q \in Proposals : q # p => request'[q] = request[q]
       /\ DOMAIN request'[p] = DOMAIN request[p] \cup {s}
       /\ request'[p][s].source = job.source
       /\ \A t \in DOMAIN request[p] : t # s => request'[p][t] = request[p][t]
  <2>1. request = [q \in Proposals |-> request[q]]
    BY <1>9 DEF RequestsOK
  <2>2. request'[p] = [t \in DOMAIN request[p] \cup {s} |->
           IF t = s THEN [source |-> job.source, revision |-> job.revision]
                    ELSE request[p][t]]
    BY <1>2, <1>3, <2>1
  <2>3. /\ request' = [q \in Proposals |-> request'[q]]
        /\ \A q \in Proposals : q # p => request'[q] = request[q]
    BY <1>3, <2>1
  <2> QED
    BY <2>2, <2>3
<1>11. \A t \in DOMAIN request[p] :
         /\ t # s /\ request'[p][t] = request[p][t]
         /\ request[p][t].source # job.source
  BY <1>2, <1>3, <1>6, <1>9, <1>10 DEF RequestsOK, Under
<1>12. RequestsOK'
  <2>1. ASSUME NEW q \in Proposals, NEW t \in DOMAIN request'[q]
        PROVE  t \in DOMAIN cards'[q] /\ cards'[q][t].type = "ResponsePlan"
    <3>1. CASE q # p \/ t # s
      <4>1. t \in DOMAIN request[q]
        BY <1>10, <3>1
      <4> QED
        BY <1>1, <1>9, <4>1 DEF RequestsOK, CardsKept
    <3>2. CASE q = p /\ t = s
      BY <1>6, <3>2
    <3> QED
      BY <3>1, <3>2
  <2>2. ASSUME NEW q \in Proposals, NEW t \in DOMAIN request'[q],
               NEW u \in DOMAIN request'[q],
               request'[q][t].source = request'[q][u].source
        PROVE  t = u
    <3>1. CASE q # p
      BY <1>9, <1>10, <2>2, <3>1 DEF RequestsOK
    <3>2. CASE q = p /\ t # s /\ u # s
      BY <1>2, <1>9, <1>10, <2>2, <3>2 DEF RequestsOK
    <3>3. CASE q = p /\ t # s /\ u = s
      BY <1>10, <1>11, <2>2, <3>3
    <3>4. CASE q = p /\ t = s /\ u # s
      BY <1>10, <1>11, <2>2, <3>4
    <3> QED
      BY <3>1, <3>2, <3>3, <3>4
  <2> QED
    BY <1>10, <2>1, <2>2 DEF RequestsOK
<1>13. JobOK'
  <2>1. CASE job' = [job EXCEPT !.phase = "posting", !.plan = s]
    <3>1. /\ IsJob(job') /\ job'.prop = p /\ job'.phase = "posting"
          /\ job'.plan = s
      BY <1>0, <1>2, <2>1 DEF IsJob
    <3> QED
      BY <1>0, <1>2, <1>10, <3>1 DEF JobOK, PhaseOK, IsJob
  <2>2. CASE job' = NoJob
    BY <2>2 DEF JobOK
  <2> QED
    BY <1>3, <2>1, <2>2
<1> QED
  BY <1>1, <1>3, <1>8, <1>12, <1>13, SagaCarried DEF AgentInv

\* The steps of the saga that change nothing of the gateway's.
LEMMA AloneKeeps ==
  ASSUME SagaInv, UNCHANGED <<vars, room, request, offset, memory, crashes>>,
         job.phase # "idle",
         gaveUp' = gaveUp \/ (gaveUp' = gaveUp \cup {job.prop}),
         losses' = losses \/ (losses < MaxLosses /\ losses' = losses + 1),
         \/ job' = NoJob
         \/ IsJob(job') /\ job'.prop = job.prop /\ PhaseOK(job)'
  PROVE  AgentInv'
<1>1. CardsKept /\ AskOK' /\ UndecidedKept
  BY NothingMoves DEF SagaInv, AgentInv
<1>2. RoomOK' /\ MemoryOK' /\ VerdictSealed' /\ CountsOK'
  BY <1>1, SagaCarried
<1>3. RequestsOK'
  BY <1>1, RequestsCarried DEF SagaInv, AgentInv
<1>4. JobOK'
  BY SagaUnderWay DEF SagaInv, AgentInv, JobOK, IsJob
<1> QED
  BY <1>1, <1>2, <1>3, <1>4 DEF AgentInv

LEMMA PreparedBeforeKeeps ==
  ASSUME SagaInv, PreparedBefore
  PROVE  AgentInv'
<1>1. IsJob(job) /\ job.prop \in Proposals
  BY SagaUnderWay DEF SagaInv, AgentInv, PreparedBefore
<1>2. PICK s \in DOMAIN request[job.prop] :
             job' = [job EXCEPT !.phase = "posting", !.plan = s]
  BY DEF PreparedBefore, Under
<1>3. /\ IsJob(job') /\ job'.prop = job.prop
      /\ job'.phase = "posting" /\ job'.plan = s
  BY <1>1, <1>2 DEF IsJob
<1>4. PhaseOK(job)'
  BY <1>1, <1>3 DEF PhaseOK, PreparedBefore
<1> QED
  BY <1>3, <1>4, AloneKeeps DEF PreparedBefore

LEMMA PrepareRefusedKeeps ==
  ASSUME SagaInv, PrepareRefused
  PROVE  AgentInv'
<1>1. IsJob(job) /\ job.prop \in Proposals
  BY SagaUnderWay DEF SagaInv, AgentInv, PrepareRefused
<1>2. job.phase = "preparing"
  BY DEF PrepareRefused
<1>3. CASE job' = NoJob
  BY <1>2, <1>3, AloneKeeps DEF PrepareRefused, GiveUp
<1>4. CASE job' = [job EXCEPT !.attempts = job.attempts + 1]
  <2>1. IsJob(job') /\ job'.prop = job.prop /\ job'.phase = "preparing"
    BY <1>1, <1>2, <1>4 DEF IsJob
  <2> QED
    BY <1>2, <2>1, AloneKeeps DEF PrepareRefused, GiveUp, PhaseOK
<1> QED
  BY <1>3, <1>4 DEF PrepareRefused, GiveUp, Drop

LEMMA DroppedKeeps ==
  ASSUME SagaInv, ConfirmRefused \/ ChallengeRefused \/ Lose
  PROVE  AgentInv'
  BY AloneKeeps DEF ConfirmRefused, ChallengeRefused, Lose, GiveUp, Drop

LEMMA PostPlanKeeps ==
  ASSUME SagaInv, PostPlan
  PROVE  AgentInv'
<1>1. IsJob(job) /\ job.prop \in Proposals /\ PhaseOK(job)
  BY SagaUnderWay DEF SagaInv, AgentInv, PostPlan
<1>2. /\ job.phase = "posting"
      /\ UNCHANGED <<state, cards, nonce>>
      /\ UNCHANGED <<room, request, offset, memory, gaveUp, crashes>>
      /\ job' = NoJob \/ job' = [job EXCEPT !.phase = "confirming"]
      /\ losses' = losses \/ (losses < MaxLosses /\ losses' = losses + 1)
  BY DEF PostPlan, PostToRoom, authorityVars, Answered, Drop
<1>3. CardsKept /\ AskOK' /\ UndecidedKept
  <2>1. CardsKept /\ \A p \in Proposals : PlansSame(p)
    BY <1>2 DEF CardsKept, PlansSame, IsPublishedPlan
  <2> QED
    BY <1>2, <2>1, WaitingKept DEF SagaInv, AgentInv
<1>4. RoomOK' /\ MemoryOK' /\ VerdictSealed' /\ CountsOK'
  BY <1>2, <1>3, SagaCarried
<1>5. RequestsOK'
  BY <1>2, <1>3, RequestsCarried DEF SagaInv, AgentInv
<1>6. JobOK'
  <2>1. CASE job' = NoJob
    BY <2>1 DEF JobOK
  <2>2. CASE job' = [job EXCEPT !.phase = "confirming"]
    <3>1. /\ IsJob(job') /\ job'.prop = job.prop
          /\ job'.phase = "confirming" /\ job'.plan = job.plan
      BY <1>1, <2>2 DEF IsJob
    <3>2. job.plan \in DOMAIN request[job.prop]
      BY <1>1, <1>2 DEF PhaseOK
    <3> QED
      BY <1>1, <1>2, <3>1, <3>2 DEF JobOK, PhaseOK, IsJob
  <2> QED
    BY <1>2, <2>1, <2>2
<1> QED
  BY <1>3, <1>4, <1>5, <1>6 DEF AgentInv

\* The plan that is confirmed is the last of its proposal, and comes into force.
LEMMA ConfirmPlanKeeps ==
  ASSUME SagaInv, Effects, ConfirmPlan
  PROVE  AgentInv'
<1>0. PICK p, s : p = job.prop /\ s = job.plan
  OBVIOUS
<1>1. LedgerTypeOK /\ CardsKept
  BY DEF SagaInv, IInv, CoreInv, TypeOK, Effects
<1>2. IsJob(job) /\ p \in Proposals /\ PhaseOK(job)
  BY <1>0, SagaUnderWay DEF SagaInv, AgentInv, ConfirmPlan
<1>3. /\ job.phase = "confirming"
      /\ Confirm(p, s)
      /\ nonce' = nonce
      /\ UNCHANGED <<room, request, offset, memory, gaveUp, crashes>>
      /\ job' = NoJob \/ job' = [job EXCEPT !.phase = "asking"]
      /\ losses' = losses \/ (losses < MaxLosses /\ losses' = losses + 1)
  BY <1>0 DEF ConfirmPlan, authorityVars, Answered, Drop
<1>4. s \in DOMAIN cards[p] /\ cards[p][s].type = "ResponsePlan"
  BY <1>0, <1>2, <1>3 DEF PhaseOK, SagaInv, AgentInv, RequestsOK
<1>5. /\ Publish(p, s, TRUE)
      /\ state[p] # "PLANNED"
      /\ ~ NewerConfirmed(p, s)
      /\ state' = [state EXCEPT ![p] = StateAfter(p, cards[p][s])]
  BY <1>3, <1>4 DEF Confirm, Allowed, Prerequisite
<1>6. /\ state'[p] = "PLANNED"
      /\ \A q \in Proposals : q # p => state'[q] = state[q]
  <2>1. cards[p][s] \in Cards
    BY <1>1, <1>2, <1>4, ChainHoldsCards
  <2>2. cards[p][s].outcome = "none"
    BY <1>4, <2>1 DEF Cards, Outcomes
  <2>3. StateAfter(p, cards[p][s]) = "PLANNED"
    BY <1>4, <2>2 DEF StateAfter, Resolve, OutcomeTransitions, BaseTransitions
  <2> QED
    BY <1>1, <1>2, <1>5, <2>3 DEF LedgerTypeOK
<1>7. /\ \A q \in Proposals : q # p => cards'[q] = cards[q]
      /\ DOMAIN cards'[p] = DOMAIN cards[p]
      /\ DOMAIN cards[p] \subseteq Nat \ {0}
      /\ \A t \in DOMAIN cards[p] : t # s => cards'[p][t] = cards[p][t]
      /\ cards'[p][s].published
      /\ cards'[p][s].type = "ResponsePlan"
  BY <1>1, <1>2, <1>4, <1>5, PublishFacts
<1>8. IsPlanInForce(p, s)'
  <2>1. \A t \in DOMAIN cards[p] : cards[p][t].published => t <= s
    BY <1>4, <1>5, <1>7 DEF NewerConfirmed
  <2> QED
    BY <1>4, <1>7, <2>1 DEF IsPlanInForce, IsPublishedPlan
<1>9. /\ \A n \in Nonces : ~ Valid(p, n)
      /\ \A q \in Proposals : q # p => PlansSame(q)
      /\ \A q \in Proposals, n \in Nonces : Valid(q, n)' <=> Valid(q, n)
  <2>1. \A n \in Nonces : ~ Valid(p, n)
    BY <1>2, <1>5 DEF SagaInv, AgentInv, AskOK, InForce
  <2>2. \A q \in Proposals : q # p => PlansSame(q)
    BY <1>7 DEF PlansSame, IsPublishedPlan
  <2>3. \A q \in Proposals, n \in Nonces : Valid(q, n)' <=> Valid(q, n)
    BY <1>3 DEF Valid, NonceValid
  <2> QED
    BY <2>1, <2>2, <2>3
<1>10. AskOK'
  <2>1. ASSUME NEW q \in Proposals, NEW n \in Nonces, Valid(q, n)
        PROVE  InForce(q, nonce[q][n].plan)'
    <3>1. q # p
      BY <1>9, <2>1
    <3>2. InForce(q, nonce[q][n].plan)
      BY <2>1 DEF SagaInv, AgentInv, AskOK
    <3>3. cards'[q] = cards[q] /\ state'[q] = state[q]
      BY <1>6, <1>7, <3>1
    <3> QED
      BY <1>3, <3>2, <3>3 DEF InForce, IsPlanInForce, IsPublishedPlan
  <2> QED
    BY <1>3, <1>9, <2>1 DEF SagaInv, AgentInv, AskOK
<1>11. JobOK'
  <2>1. CASE job' = NoJob
    BY <2>1 DEF JobOK
  <2>2. CASE job' = [job EXCEPT !.phase = "asking"]
    <3>1. /\ IsJob(job') /\ job'.prop = p
          /\ job'.phase = "asking" /\ job'.plan = s
      BY <1>0, <1>2, <2>2 DEF IsJob
    <3>2. Undecided(p)'
      BY <1>2, <1>6, <1>9 DEF Undecided
    <3> QED
      BY <1>2, <1>8, <3>1, <3>2 DEF JobOK, PhaseOK, IsJob, Undecided,
                                    IsPlanInForce, IsPublishedPlan
  <2> QED
    BY <1>3, <2>1, <2>2
<1>12. RoomOK' /\ MemoryOK' /\ VerdictSealed' /\ CountsOK'
  BY <1>1, <1>3, SagaCarried
<1>13. RequestsOK'
  BY <1>1, <1>3, RequestsCarried DEF SagaInv, AgentInv
<1> QED
  BY <1>10, <1>11, <1>12, <1>13 DEF AgentInv

\* The new nonce is bound to the plan in force and closes the others; it cannot
\* decide before its challenge is out.
LEMMA AskForApprovalKeeps ==
  ASSUME SagaInv, AskForApproval
  PROVE  AgentInv'
<1>0. PICK p : p = job.prop
  OBVIOUS
<1>1. /\ LedgerTypeOK
      /\ nonce \in [Proposals -> [Nonces -> NonceRows]]
  BY DEF SagaInv, IInv, CoreInv, TypeOK
<1>2. IsJob(job) /\ p \in Proposals /\ PhaseOK(job) /\ job.phase = "asking"
  BY <1>0, SagaUnderWay DEF SagaInv, AgentInv, AskForApproval
<1>3. PICK n \in Nonces, s \in DOMAIN cards[p] :
        /\ CreateNonce(p, n, s)
        /\ \/ job' = NoJob
           \/ job' = [job EXCEPT !.phase = "challenging", !.nonce = n]
        /\ losses' = losses \/ (losses < MaxLosses /\ losses' = losses + 1)
  BY <1>0 DEF AskForApproval, Answered, Drop
<1>4. /\ UNCHANGED <<room, request, offset, memory, gaveUp, crashes>>
      /\ UNCHANGED <<state, cards>>
  BY <1>3 DEF AskForApproval, CreateNonce, ledgerVars
<1>5. /\ Undecided(p) /\ IsPlanInForce(p, job.plan) /\ IsPlanInForce(p, s)
      /\ InForce(p, s)
  BY <1>0, <1>2, <1>3 DEF PhaseOK, CreateNonce, InForce, Undecided
<1>6. s = job.plan
  <2>1. cards[p] \in Seq(Cards)
    BY <1>1, <1>2 DEF LedgerTypeOK
  <2>2. DOMAIN cards[p] \subseteq Nat
    BY <2>1
  <2> QED
    BY <1>5, <2>2 DEF IsPlanInForce, IsPublishedPlan
<1>7. /\ \A q \in Proposals : q # p => nonce'[q] = nonce[q]
      /\ nonce'[p][n] = NonceRow(s, "active")
      /\ \A m \in Nonces : m # n => nonce'[p][m].status # "active"
  <2>1. nonce'[p] = [m \in Nonces |->
                      IF m = n THEN NonceRow(s, "active")
                      ELSE IF nonce[p][m].status = "active"
                           THEN [nonce[p][m] EXCEPT !.status = "invalidated"]
                           ELSE nonce[p][m]]
    BY <1>1, <1>2, <1>3 DEF CreateNonce
  <2>2. \A q \in Proposals : q # p => nonce'[q] = nonce[q]
    BY <1>1, <1>3 DEF CreateNonce
  <2>3. ASSUME NEW m \in Nonces, m # n  PROVE nonce'[p][m].status # "active"
    <3>1. nonce[p][m] \in NonceRows
      BY <1>1, <1>2
    <3>2. nonce'[p][m] = IF nonce[p][m].status = "active"
                         THEN [nonce[p][m] EXCEPT !.status = "invalidated"]
                         ELSE nonce[p][m]
      BY <2>1, <2>3
    <3> QED
      BY <3>1, <3>2 DEF NonceRows
  <2>4. nonce'[p][n] = NonceRow(s, "active")
    BY <2>1
  <2> QED
    BY <2>2, <2>3, <2>4
<1>8. \A m \in Nonces : ~ Valid(p, m)'
  BY <1>7 DEF Valid, NonceValid, NonceRow
<1>9. AskOK'
  <2>1. ASSUME NEW q \in Proposals, NEW m \in Nonces, q # p
        PROVE  /\ \A k \in Nonces :
                    nonce'[q][m].status = "active" /\ nonce'[q][k].status = "active"
                      => k = m
               /\ Valid(q, m)' => InForce(q, nonce[q][m].plan)'
    BY <1>4, <1>7, <2>1 DEF SagaInv, AgentInv, AskOK, Valid, NonceValid, InForce,
                           IsPlanInForce, IsPublishedPlan
  <2>2. ASSUME NEW m \in Nonces
        PROVE  \A k \in Nonces :
                 nonce'[p][m].status = "active" /\ nonce'[p][k].status = "active"
                   => k = m
    BY <1>7
  <2> QED
    BY <1>8, <2>1, <2>2 DEF AskOK
<1>10. CardsKept
  BY <1>4 DEF CardsKept
<1>11. JobOK'
  <2>1. CASE job' = NoJob
    BY <2>1 DEF JobOK
  <2>2. CASE job' = [job EXCEPT !.phase = "challenging", !.nonce = n]
    <3>1. /\ IsJob(job') /\ job'.prop = p
          /\ job'.phase = "challenging" /\ job'.plan = s /\ job'.nonce = n
      BY <1>0, <1>2, <1>6, <2>2 DEF IsJob
    <3>2. Undecided(p)'
      BY <1>4, <1>5, <1>8 DEF Undecided
    <3>3. IsPlanInForce(p, s)'
      BY <1>4, <1>5 DEF IsPlanInForce, IsPublishedPlan
    <3>4. nonce'[p][n].plan = s
      BY <1>7 DEF NonceRow
    <3> QED
      BY <1>2, <3>1, <3>2, <3>3, <3>4 DEF JobOK, PhaseOK, IsJob, Undecided,
                                          IsPlanInForce, IsPublishedPlan
  <2> QED
    BY <1>3, <2>1, <2>2
<1>12. RoomOK' /\ MemoryOK' /\ VerdictSealed' /\ CountsOK'
  BY <1>2, <1>3, <1>4, <1>10, SagaCarried
<1>13. RequestsOK'
  BY <1>4, <1>10, RequestsCarried DEF SagaInv, AgentInv
<1> QED
  BY <1>9, <1>11, <1>12, <1>13 DEF AgentInv

\* The challenge is out: its nonce can decide from now on, about the plan in
\* force.
LEMMA PresentChallengeKeeps ==
  ASSUME SagaInv, PresentChallenge
  PROVE  AgentInv'
<1>0. PICK p, n : p = job.prop /\ n = job.nonce
  OBVIOUS
<1>1. nonce \in [Proposals -> [Nonces -> NonceRows]]
  BY DEF SagaInv, IInv, CoreInv, TypeOK
<1>2. IsJob(job) /\ p \in Proposals /\ PhaseOK(job) /\ job.phase = "challenging"
  BY <1>0, SagaUnderWay DEF SagaInv, AgentInv, PresentChallenge
<1>3. /\ nonce' = [nonce EXCEPT ![p][n].challenged = TRUE]
      /\ UNCHANGED <<state, cards>>
      /\ job' = NoJob
      /\ \/ Finished(p) /\ losses' = losses
         \/ losses < MaxLosses /\ losses' = losses + 1 /\ memory' = memory
      /\ UNCHANGED <<room, request, offset, gaveUp, crashes>>
  BY <1>0 DEF PresentChallenge, PostChallenge, ledgerVars, Drop
<1>4. n \in Nonces /\ InForce(p, nonce[p][n].plan)
  BY <1>0, <1>2 DEF PhaseOK, Undecided, InForce
<1>5. \A q \in Proposals, m \in Nonces :
        /\ nonce'[q][m].status = nonce[q][m].status
        /\ nonce'[q][m].plan = nonce[q][m].plan
        /\ nonce'[q][m].lapsed = nonce[q][m].lapsed
        /\ (q # p \/ m # n) => nonce'[q][m].challenged = nonce[q][m].challenged
  <2>1. /\ nonce[p][n] \in NonceRows
        /\ nonce'[p][n] = [nonce[p][n] EXCEPT !.challenged = TRUE]
    BY <1>0, <1>1, <1>2, <1>3, <1>4
  <2>2. /\ nonce'[p][n].status = nonce[p][n].status
        /\ nonce'[p][n].plan = nonce[p][n].plan
        /\ nonce'[p][n].lapsed = nonce[p][n].lapsed
    BY <2>1 DEF NonceRows
  <2>3. \A q \in Proposals, m \in Nonces :
          (q # p \/ m # n) => nonce'[q][m] = nonce[q][m]
    BY <1>1, <1>3
  <2> QED
    BY <2>2, <2>3
<1>6. \A q \in Proposals, m \in Nonces :
        Valid(q, m)' => Valid(q, m) \/ (q = p /\ m = n)
  BY <1>5 DEF Valid, NonceValid
<1>7. \A q \in Proposals : \A t : InForce(q, t)' <=> InForce(q, t)
  BY <1>3 DEF InForce, IsPlanInForce, IsPublishedPlan
<1>8. AskOK'
  <2>1. ASSUME NEW q \in Proposals, NEW m \in Nonces, Valid(q, m)'
        PROVE  InForce(q, nonce[q][m].plan)'
    <3>1. InForce(q, nonce[q][m].plan)
      BY <1>4, <1>6, <2>1 DEF SagaInv, AgentInv, AskOK
    <3>2. nonce'[q][m].plan = nonce[q][m].plan
      BY <1>5
    <3> QED
      BY <1>3, <3>1, <3>2 DEF InForce, IsPlanInForce, IsPublishedPlan
  <2>2. ASSUME NEW q \in Proposals, NEW m \in Nonces, NEW k \in Nonces,
               nonce'[q][m].status = "active", nonce'[q][k].status = "active"
        PROVE  k = m
    BY <1>5, <2>2 DEF SagaInv, AgentInv, AskOK
  <2> QED
    BY <2>1, <2>2 DEF AskOK, InForce, IsPlanInForce, IsPublishedPlan
<1>9. CardsKept
  BY <1>3 DEF CardsKept
<1>10. MemoryOK'
  <2>1. MemoryOK
    BY DEF SagaInv, AgentInv
  <2>2. CASE memory' = memory
    BY <1>9, <2>1, <2>2, MemoryCarried
  <2>3. CASE Finished(p)
    <3>1. PICK c : c = [memory[p] EXCEPT !.submitted = TRUE]
      OBVIOUS
    <3>2. /\ IsContext(memory[p])
          /\ memory[p].source \in {0} \cup DOMAIN cards[p]
      BY <1>2, <2>1 DEF MemoryOK
    <3>3. IsContext(c) /\ c.source = memory[p].source
      BY <3>1, <3>2 DEF IsContext
    <3>4. memory' = [memory EXCEPT ![p] = c]
      <4>1. memory = [q \in Proposals |-> memory[q]]
        BY <2>1 DEF MemoryOK
      <4> QED
        BY <1>2, <2>3, <3>1, <4>1 DEF Finished
    <3> QED
      BY <1>2, <1>9, <2>1, <3>2, <3>3, <3>4, Remembered
  <2> QED
    BY <1>3, <2>2, <2>3
<1>11. RoomOK' /\ RequestsOK' /\ VerdictSealed'
  BY <1>3, <1>9, RoomCarried, RequestsCarried, VerdictCarried DEF SagaInv, AgentInv
<1>12. JobOK'
  BY <1>3 DEF JobOK
<1>13. CountsOK'
  BY <1>3, CommanderAssumption DEF SagaInv, AgentInv, CountsOK
<1> QED
  BY <1>8, <1>10, <1>11, <1>12, <1>13 DEF AgentInv

\* All of the agent's memory is lost.
LEMMA CrashKeeps ==
  ASSUME SagaInv, Crash
  PROVE  AgentInv'
<1>1. /\ UNCHANGED <<vars, room, request, gaveUp, losses>>
      /\ crashes < MaxCrashes /\ crashes' = crashes + 1
      /\ job' = NoJob
      /\ memory' = [p \in Proposals |-> NoContext]
      /\ offset' = [p \in Proposals |-> 0]
  BY DEF Crash, Drop
<1>2. CardsKept /\ AskOK'
  BY <1>1, NothingMoves DEF SagaInv, AgentInv
<1>3. RequestsOK' /\ VerdictSealed'
  BY <1>1, <1>2, RequestsCarried, VerdictCarried DEF SagaInv, AgentInv
<1>4. MemoryOK'
  BY <1>1 DEF MemoryOK, IsContext, NoContext
<1>5. RoomOK'
  <2>1. room \in [Proposals -> Seq(Nat)]
    BY DEF SagaInv, AgentInv, RoomOK
  <2>2. \A p \in Proposals : Len(room[p]) \in Nat
    BY <2>1
  <2> QED
    BY <1>1, <1>2, <2>1, <2>2 DEF SagaInv, AgentInv, RoomOK, CardsKept
<1>6. JobOK' /\ CountsOK'
  BY <1>1, CommanderAssumption DEF SagaInv, AgentInv, JobOK, CountsOK
<1> QED
  BY <1>2, <1>3, <1>4, <1>5, <1>6 DEF AgentInv

-----------------------------------------------------------------------------
(***************************************************************************)
(* The theorems.                                                           *)
(***************************************************************************)

\* Every step of the agent, the reviewer, the human and the clock is one of the
\* lifecycle or none of it.
LEMMA SagaIsClient ==
  ASSUME SagaInv, SagaNext
  PROVE  [Next]_vars
<1>1. ASSUME NEW p \in Proposals, ReviewerConfirms(p)
      PROVE  Next
  BY <1>1 DEF ReviewerConfirms, Confirm, LedgerNext, LedgerStep, Next
<1>2. ASSUME NEW p \in Proposals, NEW s \in DOMAIN cards[p],
             NEW reach \in Reaches, RoomHearsOfRevision(p, s, reach)
      PROVE  Next
  BY <1>2 DEF RoomHearsOfRevision, GatewayStep, Next
<1>3. CASE HumanDecides
  <2>1. "advanced" \in Reaches
    BY DEF Reaches
  <2> QED
    BY <1>3, <2>1 DEF HumanDecides, HumanStep, Next
<1>4. CASE TimePasses
  BY <1>4 DEF TimePasses, ClockStep, Next
<1>5. job.phase # "idle" => job.prop \in Proposals /\ PhaseOK(job)
  BY SagaUnderWay DEF SagaInv, AgentInv
<1>6. CASE PreparePlan
  <2>1. /\ "ResponsePlan" \in CardTypes /\ "none" \in Outcomes("ResponsePlan")
        /\ "human" \in Refs("ResponsePlan")
    BY DEF CardTypes, Outcomes, Refs
  <2> QED
    BY <1>5, <1>6, <2>1 DEF PreparePlan, LedgerNext, LedgerStep, Next
<1>7. CASE PostPlan \/ ConfirmPlan
  BY <1>5, <1>7 DEF PostPlan, ConfirmPlan, PostToRoom, Confirm, LedgerNext,
                    LedgerStep, Next
<1>8. CASE AskForApproval
  <2>1. PICK n \in Nonces, s \in DOMAIN cards[job.prop] :
          CreateNonce(job.prop, n, s)
    BY <1>8 DEF AskForApproval
  <2>2. job.prop \in Proposals
    BY <1>5, <1>8 DEF AskForApproval
  <2> QED
    BY <2>1, <2>2 DEF HumanStep, Next
<1>9. CASE PresentChallenge
  <2>1. job.prop \in Proposals /\ job.nonce \in Nonces
    BY <1>5, <1>9 DEF PresentChallenge, PhaseOK
  <2>2. PostChallenge(job.prop, job.nonce)
    BY <1>9 DEF PresentChallenge
  <2> QED
    BY <2>1, <2>2 DEF GatewayStep, Next
<1>10. CASE \/ \E p \in Proposals : Read(p)
            \/ PreparedBefore \/ PrepareRefused
            \/ ConfirmRefused \/ ChallengeRefused \/ Lose \/ Crash
  BY <1>10 DEF Read, PreparedBefore, PrepareRefused, ConfirmRefused,
               ChallengeRefused, Lose, Crash
<1> QED
  BY <1>1, <1>2, <1>3, <1>4, <1>6, <1>7, <1>8, <1>9, <1>10
     DEF SagaNext, Working, Others

LEMMA SagaStarts == SagaInit => SagaInv
<1> SUFFICES ASSUME SagaInit  PROVE SagaInv
  OBVIOUS
<1>1. PICK t : t = Reviewed
  OBVIOUS
<1>2. /\ DOMAIN t = 1 .. 4 /\ t \in Seq(Cards)
      /\ \A s \in DOMAIN t : t[s].type # "ResponsePlan" /\ t[s].type # "PolicyAuthorization"
      /\ t[4].type = "Verdict"
  <2>1. /\ [NewCard("ProposalCard", "none", "none") EXCEPT !.published = TRUE] \in Cards
        /\ [NewCard("TriageDecision", "route", "none") EXCEPT !.published = TRUE] \in Cards
        /\ [NewCard("Assessment", "none", "none") EXCEPT !.published = TRUE] \in Cards
        /\ NewCard("Verdict", "CONFIRM", "none") \in Cards
    <3>1. /\ NewCard("ProposalCard", "none", "none") \in Cards
          /\ NewCard("TriageDecision", "route", "none") \in Cards
          /\ NewCard("Assessment", "none", "none") \in Cards
          /\ NewCard("Verdict", "CONFIRM", "none") \in Cards
      BY NewCardType DEF CardTypes, Outcomes, Refs
    <3> QED
      BY <3>1 DEF Cards, NewCard
  <2>2. t \in Seq(Cards) /\ Len(t) = 4
    BY <1>1, <2>1 DEF Reviewed
  <2>3. \A s \in 1 .. 4 : t[s].type # "ResponsePlan" /\ t[s].type # "PolicyAuthorization"
    BY <1>1 DEF Reviewed, NewCard
  <2>4. t[4].type = "Verdict"
    BY <1>1 DEF Reviewed, NewCard
  <2> QED
    BY <2>2, <2>3, <2>4
<1>3. /\ state = [p \in Proposals |-> "ASSESSED"]
      /\ cards = [p \in Proposals |-> t]
      /\ visible = Proposals \X (1 .. 4)
      /\ nonce = [p \in Proposals |-> [n \in Nonces |-> NonceRow(0, "free")]]
      /\ auths = {} /\ learned = {}
  BY <1>1 DEF SagaInit
<1>4. TypeOK
  <2>1. NonceRow(0, "free") \in NonceRows
    BY DEF NonceRow, NonceRows, NonceStatus
  <2>2. visible \subseteq (Proposals \X (Nat \ {0}))
    BY <1>3
  <2> QED
    BY <1>2, <1>3, <2>1, <2>2 DEF TypeOK, LedgerTypeOK, States
<1>5. IInv
  <2>1. \A p \in Proposals, n \in Nonces : NonceOK(p, n)
    BY <1>3 DEF NonceOK, NonceRow
  <2>2. PolicySettles
    BY <1>2, <1>3 DEF PolicySettles, HasPublishedPolicyCard
  <2> QED
    BY <1>3, <1>4, <2>1, <2>2 DEF IInv, CoreInv, OneGrantPerProposal
<1>6. VerdictSealed
  BY <1>2, <1>3 DEF VerdictSealed
<1>7. RoomOK
  BY <1>2, <1>3 DEF SagaInit, RoomOK
<1>8. MemoryOK /\ RequestsOK
  <2>1. memory = [p \in Proposals |-> NoContext] /\ IsContext(NoContext)
    BY DEF SagaInit, IsContext, NoContext
  <2>2. MemoryOK
    BY <2>1 DEF MemoryOK, IsContext, NoContext
  <2>3. request = [p \in Proposals |-> <<>>] /\ DOMAIN <<>> = {}
    BY DEF SagaInit
  <2> QED
    BY <2>2, <2>3 DEF RequestsOK
<1>9. AskOK
  BY <1>3 DEF AskOK, Valid, NonceValid, NonceRow
<1>10. JobOK /\ CountsOK
  BY CommanderAssumption DEF SagaInit, JobOK, CountsOK
<1> QED
  BY <1>5, <1>6, <1>7, <1>8, <1>9, <1>10 DEF SagaInv, AgentInv

LEMMA AgentKeeps ==
  ASSUME SagaInv, Effects, SagaNext
  PROVE  AgentInv'
<1>1. CASE \E p \in Proposals : Read(p)
  BY <1>1, ReadKeeps
<1>2. CASE PreparePlan \/ PreparedBefore \/ PrepareRefused
  BY <1>2, PreparePlanKeeps, PreparedBeforeKeeps, PrepareRefusedKeeps
<1>3. CASE PostPlan \/ ConfirmPlan
  BY <1>3, PostPlanKeeps, ConfirmPlanKeeps
<1>4. CASE AskForApproval \/ PresentChallenge
  BY <1>4, AskForApprovalKeeps, PresentChallengeKeeps
<1>5. CASE ConfirmRefused \/ ChallengeRefused \/ Lose \/ Crash
  BY <1>5, DroppedKeeps, CrashKeeps
<1>6. CASE Others
  BY <1>6, OthersKeep
<1> QED
  BY <1>1, <1>2, <1>3, <1>4, <1>5, <1>6 DEF SagaNext, Working

LEMMA SagaStutters ==
  ASSUME SagaInv, UNCHANGED sagaVars
  PROVE  AgentInv'
<1>1. UNCHANGED vars /\ UNCHANGED agentVars
  BY DEF sagaVars
<1>2. CardsKept /\ AskOK' /\ UndecidedKept
  BY <1>1, NothingMoves DEF SagaInv, AgentInv
<1> QED
  BY <1>1, <1>2, OthersCarry DEF agentVars

LEMMA SagaStep == SagaInv /\ [SagaNext]_sagaVars => SagaInv'
<1> SUFFICES ASSUME SagaInv, [SagaNext]_sagaVars  PROVE SagaInv'
  OBVIOUS
<1>1. [Next]_vars
  BY SagaIsClient DEF sagaVars
<1>2. IInv' /\ Effects
  BY <1>1, NextStep, CoreStutters DEF SagaInv, IInv, StepOK
<1>3. AgentInv'
  BY <1>2, AgentKeeps, SagaStutters
<1> QED
  BY <1>2, <1>3 DEF SagaInv

\* The inductive invariant, for any number of proposals, nonces, deaths and
\* lost requests.
THEOREM SagaInvariant == SagaSpec => []SagaInv
  BY SagaStarts, SagaStep, PTL DEF SagaSpec

\* The saga and its surroundings are a client of the authorization lifecycle:
\* each of their steps is one the gateway allows any client.
THEOREM SagaIsClientCorrect == SagaSpec => [][Next]_vars
<1>1. SagaInv /\ [SagaNext]_sagaVars => [Next]_vars
  BY SagaIsClient DEF sagaVars
<1> QED
  BY <1>1, SagaInvariant, PTL DEF SagaSpec

\* What the agent keeps refers to cards that are there, through all its lives.
THEOREM SagaTypeCorrect == SagaSpec => []SagaTypeOK
<1>1. SagaInv => SagaTypeOK
  <2> SUFFICES ASSUME SagaInv  PROVE SagaTypeOK
    OBVIOUS
  <2>1. TypeOK
    BY DEF SagaInv, IInv, CoreInv
  <2>2. ASSUME NEW p \in Proposals
        PROVE  /\ room[p] \in Seq(DOMAIN cards[p])
               /\ offset[p] \in 0 .. Len(room[p])
    <3>1. room[p] \in Seq(Nat) /\ offset[p] \in Nat /\ offset[p] <= Len(room[p])
      BY DEF SagaInv, AgentInv, RoomOK
    <3>2. \A i \in DOMAIN room[p] : room[p][i] \in DOMAIN cards[p]
      BY DEF SagaInv, AgentInv, RoomOK
    <3>3. /\ Len(room[p]) \in Nat /\ DOMAIN room[p] = 1 .. Len(room[p])
          /\ room[p] = [i \in 1 .. Len(room[p]) |-> room[p][i]]
      BY <3>1
    <3>4. room[p] \in [1 .. Len(room[p]) -> DOMAIN cards[p]]
      BY <3>2, <3>3
    <3>5. room[p] \in Seq(DOMAIN cards[p])
      BY <3>3, <3>4, SeqDef
    <3> QED
      BY <3>1, <3>3, <3>5
  <2>3. ASSUME NEW p \in Proposals
        PROVE  /\ DOMAIN request[p] \subseteq DOMAIN cards[p]
               /\ memory[p].source \in {0} \cup DOMAIN cards[p]
    BY DEF SagaInv, AgentInv, RequestsOK, MemoryOK
  <2>4. job.phase \in Phases
    BY DEF SagaInv, AgentInv, JobOK, NoJob, PhaseOK, Phases
  <2> QED
    BY <2>1, <2>2, <2>3, <2>4 DEF SagaInv, AgentInv, CountsOK, SagaTypeOK
<1> QED
  BY <1>1, SagaInvariant, PTL

\* However often the agent dies, loses answers and reads the room again, one
\* card leads to one confirmed plan.
THEOREM OnePlanCorrect == SagaSpec => []OnePlanPerRequest
<1>1. SagaInv => OnePlanPerRequest
  BY DEF SagaInv, AgentInv, RequestsOK, OnePlanPerRequest, PlansOf
<1> QED
  BY <1>1, SagaInvariant, PTL

\* A human who can decide decides about the plan in force, for any number of
\* revisions, deaths and lapsed nonces.
THEOREM AskedCorrect == SagaSpec => []AskedAboutPlanInForce
<1>1. SagaInv => AskedAboutPlanInForce
  BY DEF SagaInv, AgentInv, AskOK, Valid, InForce, AskedAboutPlanInForce
<1> QED
  BY <1>1, SagaInvariant, PTL

=============================================================================
