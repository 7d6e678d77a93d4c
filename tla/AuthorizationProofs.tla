------------------------ MODULE AuthorizationProofs ------------------------
(***************************************************************************)
(* Proofs about the authorization lifecycle, for any proposals, nonces and *)
(* quotas.                                                                 *)
(*                                                                         *)
(* The argument: published plans only accumulate, and none is added while  *)
(* a proposal is settled (approved, authorized or beyond), which it stays. *)
(* A granted authorization belongs to a settled proposal, so the plan in   *)
(* force cannot change under it; and an authorization carries the hash of  *)
(* a published plan that is not newer than the plan of its envelopes, so   *)
(* when the operator's request finds the former in force they are one.     *)
(*                                                                         *)
(* What the tables tell of each other in one lifetime of the gateway, and  *)
(* that the gateway implements ExecutionAuthority, needs more: a row of    *)
(* the authorizations table announces one sealed card, which nobody else   *)
(* publishes, so the card is out exactly when the row is; a nonce that was *)
(* decided stays decided, so it is quoted once; and a proposal becomes     *)
(* settled in the step that publishes a row.                               *)
(***************************************************************************)
EXTENDS AuthorizationLifecycle, ProposalLedgerProofs

-----------------------------------------------------------------------------
(***************************************************************************)
(* The inductive invariant.                                                *)
(***************************************************************************)

CardTypeOf(kind) ==
  IF kind = "policy" THEN "PolicyAuthorization" ELSE "StructuredApproval"

\* What is true of every row of the authorizations table.
AuthOK(a) ==
  /\ a.card \in DOMAIN cards[a.prop]
  /\ cards[a.prop][a.card].type = CardTypeOf(a.kind)
  /\ IsPublishedPlan(a.prop, a.plan)
  /\ IsPublishedPlan(a.prop, a.envelopes)
  /\ a.plan <= a.envelopes
  /\ a.kind = "policy" => cards[a.prop][a.plan].ref = "auto"
  /\ a.status = "CONSUMED" => IsPlanInForce(a.prop, a.plan)
  /\ Granted(a) => state[a.prop] \in Settled

\* And of every nonce that was created.
NonceOK(p, n) ==
  nonce[p][n].status # "free" => IsPublishedPlan(p, nonce[p][n].plan)

\* A policy card is published together with the authorization it announces.
PolicySettles ==
  \A p \in Proposals : HasPublishedPolicyCard(p) => state[p] \in Settled

\* Restarts keep all of these.
CoreInv ==
  /\ TypeOK
  /\ \A p \in Proposals, n \in Nonces : NonceOK(p, n)
  /\ \A a \in auths : AuthOK(a)
  /\ PolicySettles

IInv == CoreInv /\ OneGrantPerProposal

-----------------------------------------------------------------------------
(***************************************************************************)
(* What a step does to the cards and the states.                           *)
(***************************************************************************)

CardsKept ==
  \A p \in Proposals : \A s \in DOMAIN cards[p] :
    /\ s \in DOMAIN cards'[p]
    /\ cards'[p][s].type = cards[p][s].type
    /\ cards'[p][s].ref = cards[p][s].ref

PlansSame(p) == \A s : IsPublishedPlan(p, s)' <=> IsPublishedPlan(p, s)

\* No plan is withdrawn, and none is published for a settled proposal.
PlansKept ==
  \A p \in Proposals :
    /\ \A s : IsPublishedPlan(p, s) => IsPublishedPlan(p, s)'
    /\ state[p] \in Settled => PlansSame(p)

SettledKept == \A p \in Proposals : state[p] \in Settled => state'[p] \in Settled

PolicyKept ==
  \A p \in Proposals :
    HasPublishedPolicyCard(p)' => HasPublishedPolicyCard(p) \/ state'[p] \in Settled

Effects == CardsKept /\ PlansKept /\ SettledKept /\ PolicyKept

LEMMA NothingSealed ==
  ASSUME cards' = cards, state' = state
  PROVE  Effects
  BY DEF Effects, CardsKept, PlansKept, SettledKept, PolicyKept, PlansSame,
         IsPublishedPlan, HasPublishedPolicyCard

\* Sealing a card that is not a published plan.
LEMMA SealEffects ==
  ASSUME LedgerTypeOK, NEW p \in Proposals, NEW c \in Cards,
         c.type = "ResponsePlan" => ~ c.published,
         cards' = [cards EXCEPT ![p] = Append(@, c)]
  PROVE  /\ CardsKept
         /\ \A q \in Proposals : PlansSame(q)
         /\ cards' \in [Proposals -> Seq(Cards)]
         /\ NextSeq(p) \in Nat \ {0}
         /\ NextSeq(p) \in DOMAIN cards'[p]
         /\ cards'[p][NextSeq(p)] = c
         /\ \A q \in Proposals : HasPublishedPolicyCard(q)' =>
              \/ HasPublishedPolicyCard(q)
              \/ q = p /\ c.type = "PolicyAuthorization" /\ c.published
<1>1. /\ cards' \in [Proposals -> Seq(Cards)]
      /\ \A q \in Proposals : q # p => cards'[q] = cards[q]
      /\ DOMAIN cards'[p] = (DOMAIN cards[p]) \cup {NextSeq(p)}
      /\ NextSeq(p) \notin DOMAIN cards[p]
      /\ \A s \in DOMAIN cards[p] : cards'[p][s] = cards[p][s]
      /\ cards'[p][NextSeq(p)] = c
  BY SealFacts DEF NextSeq
<1>2. NextSeq(p) \in Nat \ {0}
  BY DEF NextSeq, LedgerTypeOK
<1>3. CardsKept
  BY <1>1 DEF CardsKept
<1>4. ASSUME NEW q \in Proposals  PROVE PlansSame(q)
  <2>1. CASE q = p
    BY <1>1, <2>1 DEF PlansSame, IsPublishedPlan
  <2>2. CASE q # p
    BY <1>1, <2>2 DEF PlansSame, IsPublishedPlan
  <2> QED
    BY <2>1, <2>2
<1>5. \A q \in Proposals : HasPublishedPolicyCard(q)' =>
        \/ HasPublishedPolicyCard(q)
        \/ q = p /\ c.type = "PolicyAuthorization" /\ c.published
  BY <1>1 DEF HasPublishedPolicyCard
<1> QED
  BY <1>1, <1>2, <1>3, <1>4, <1>5

\* Publishing a card that is not a plan.
LEMMA PublishEffects ==
  ASSUME LedgerTypeOK, NEW p \in Proposals, NEW s \in DOMAIN cards[p],
         cards[p][s].type # "ResponsePlan", NEW b \in BOOLEAN,
         Publish(p, s, b)
  PROVE  /\ CardsKept
         /\ \A q \in Proposals : PlansSame(q)
         /\ cards' \in [Proposals -> Seq(Cards)]
         /\ \A q \in Proposals : HasPublishedPolicyCard(q)' =>
              \/ HasPublishedPolicyCard(q)
              \/ q = p /\ cards[p][s].type = "PolicyAuthorization" /\ b
<1>1. /\ cards' \in [Proposals -> Seq(Cards)]
      /\ \A q \in Proposals : q # p => cards'[q] = cards[q]
      /\ \A q \in Proposals : DOMAIN cards'[q] = DOMAIN cards[q]
      /\ DOMAIN cards[p] \subseteq Nat \ {0}
      /\ \A t \in DOMAIN cards[p] : t # s => cards'[p][t] = cards[p][t]
      /\ cards'[p][s] = [cards[p][s] EXCEPT !.published = b]
      /\ cards[p][s] \in Cards
      /\ cards'[p][s].published = b
      /\ cards'[p][s].type = cards[p][s].type
      /\ cards'[p][s].outcome = cards[p][s].outcome
      /\ cards'[p][s].ref = cards[p][s].ref
  BY PublishFacts
<1>2. CardsKept
  BY <1>1 DEF CardsKept
<1>3. ASSUME NEW q \in Proposals  PROVE PlansSame(q)
  <2>1. CASE q = p
    BY <1>1, <2>1 DEF PlansSame, IsPublishedPlan
  <2>2. CASE q # p
    BY <1>1, <2>2 DEF PlansSame, IsPublishedPlan
  <2> QED
    BY <2>1, <2>2
<1>4. ASSUME NEW q \in Proposals, HasPublishedPolicyCard(q)'
      PROVE  \/ HasPublishedPolicyCard(q)
             \/ q = p /\ cards[p][s].type = "PolicyAuthorization" /\ b
  <2>1. CASE q # p
    <3>1. cards'[q] = cards[q]
      BY <1>1, <2>1
    <3> QED
      BY <1>4, <3>1 DEF HasPublishedPolicyCard
  <2>2. CASE q = p
    <3>1. PICK t \in DOMAIN cards'[p] :
            cards'[p][t].type = "PolicyAuthorization" /\ cards'[p][t].published
      BY <1>4, <2>2 DEF HasPublishedPolicyCard
    <3>2. t \in DOMAIN cards[p]
      BY <1>1
    <3>3. CASE t = s
      BY <1>1, <2>2, <3>1, <3>3
    <3>4. CASE t # s
      <4>1. cards'[p][t] = cards[p][t]
        BY <1>1, <3>2, <3>4
      <4> QED
        BY <2>2, <3>1, <3>2, <4>1 DEF HasPublishedPolicyCard
    <3> QED
      BY <3>3, <3>4
  <2> QED
    BY <2>1, <2>2
<1> QED
  BY <1>1, <1>2, <1>3, <1>4

LEMMA PlansSameKept ==
  ASSUME \A p \in Proposals : PlansSame(p)
  PROVE  PlansKept
  BY DEF PlansKept, PlansSame

\* The state machine leaves none of the four settled states but for another.
LEMMA SettledTypes ==
  ASSUME NEW c \in Cards, NEW x \in Settled, x \in Prerequisite(c.type)
  PROVE  /\ c.type # "ResponsePlan"
         /\ c.type # "ProposalCard" => Resolve(c) \in Settled
<1>1. c.type # "ProposalCard" =>
        c.type \in {"CasperExecutionReceipt", "GovernanceSummary"}
  BY DEF Cards, CardTypes, Settled, Prerequisite
<1>2. c.type # "ResponsePlan"
  BY DEF Settled, Prerequisite
<1>3. c.type \in {"CasperExecutionReceipt", "GovernanceSummary"}
        => Resolve(c) \in Settled
  BY DEF Cards, Outcomes, Resolve, OutcomeTransitions, BaseTransitions, Settled
<1> QED
  BY <1>1, <1>2, <1>3

LEMMA PrepareEffects ==
  ASSUME LedgerTypeOK, NEW p \in Proposals, NEW t \in CardTypes,
         NEW o \in Outcomes(t), NEW r \in Refs(t), Prepare(p, t, o, r)
  PROVE  Effects
<1> DEFINE c == NewCard(t, o, r)
<1>1. c \in Cards /\ ~ c.published
  BY NewCardType DEF NewCard
<1>2. cards' = [cards EXCEPT ![p] = Append(@, c)]
  BY DEF Prepare, Seal
<1> HIDE DEF c
<1>3. CardsKept /\ PlansKept /\ PolicyKept
  BY <1>1, <1>2, SealEffects, PlansSameKept DEF PolicyKept
<1>4. SettledKept
  BY DEF SettledKept, Settled, Prepare, LedgerTypeOK
<1> QED
  BY <1>3, <1>4 DEF Effects

LEMMA ConfirmEffects ==
  ASSUME LedgerTypeOK, NEW p \in Proposals, NEW s \in DOMAIN cards[p],
         Confirm(p, s)
  PROVE  Effects
<1> DEFINE c == cards[p][s]
<1>1. c \in Cards
  BY ChainHoldsCards
<1>2. /\ Publish(p, s, TRUE)
      /\ state[p] \in Prerequisite(c.type)
      /\ state' = [state EXCEPT ![p] = StateAfter(p, c)]
      /\ c.type # "PolicyAuthorization"
  BY LifecycleAssumption DEF Confirm, Allowed
<1> HIDE DEF c
<1>3. SettledKept
  <2>1. \A q \in Proposals : q # p => state'[q] = state[q]
    BY <1>2 DEF LedgerTypeOK
  <2>2. state'[p] = StateAfter(p, c)
    BY <1>2 DEF LedgerTypeOK
  <2>3. state[p] \in Settled => StateAfter(p, c) \in Settled
    BY <1>1, <1>2, SettledTypes DEF StateAfter, Settled
  <2> QED
    BY <2>1, <2>2, <2>3 DEF SettledKept
<1>4. CardsKept /\ PlansKept
  <2>1. CASE c.type # "ResponsePlan"
    BY <1>2, <2>1, PublishEffects, PlansSameKept DEF c
  <2>2. CASE c.type = "ResponsePlan"
    <3>1. /\ \A q \in Proposals : q # p => cards'[q] = cards[q]
          /\ \A q \in Proposals : DOMAIN cards'[q] = DOMAIN cards[q]
          /\ \A t \in DOMAIN cards[p] : t # s => cards'[p][t] = cards[p][t]
          /\ cards'[p][s].published = TRUE
          /\ cards'[p][s].type = cards[p][s].type
          /\ cards'[p][s].ref = cards[p][s].ref
      BY <1>2, PublishFacts
    <3>2. CardsKept
      BY <3>1 DEF CardsKept
    <3>3. state[p] \notin Settled
      BY <1>1, <1>2, <2>2, SettledTypes
    <3>4. \A q \in Proposals : q # p => PlansSame(q)
      BY <3>1 DEF PlansSame, IsPublishedPlan
    <3>5. \A t : IsPublishedPlan(p, t) => IsPublishedPlan(p, t)'
      BY <3>1 DEF IsPublishedPlan
    <3> QED
      BY <3>2, <3>3, <3>4, <3>5 DEF PlansKept, PlansSame
  <2> QED
    BY <2>1, <2>2
<1>5. PolicyKept
  <2>1. /\ \A q \in Proposals : q # p => cards'[q] = cards[q]
        /\ \A q \in Proposals : DOMAIN cards'[q] = DOMAIN cards[q]
        /\ \A t \in DOMAIN cards[p] : t # s => cards'[p][t] = cards[p][t]
        /\ cards'[p][s].type = cards[p][s].type
    BY <1>2, PublishFacts
  <2> QED
    BY <1>2, <2>1 DEF PolicyKept, HasPublishedPolicyCard, c
<1> QED
  BY <1>3, <1>4, <1>5 DEF Effects

LEMMA LedgerEffects ==
  ASSUME LedgerTypeOK, LedgerNext
  PROVE  LedgerTypeOK' /\ Effects
<1>1. PICK p \in Proposals :
        \/ \E t \in CardTypes : \E o \in Outcomes(t), r \in Refs(t) :
             Prepare(p, t, o, r)
        \/ \E s \in DOMAIN cards[p] : PostToRoom(p, s)
        \/ \E s \in DOMAIN cards[p] : Confirm(p, s)
  BY DEF LedgerNext
<1>2. CASE \E t \in CardTypes : \E o \in Outcomes(t), r \in Refs(t) :
             Prepare(p, t, o, r)
  BY <1>2, PrepareType, PrepareEffects
<1>3. CASE \E s \in DOMAIN cards[p] : PostToRoom(p, s)
  BY <1>3, PostType, NothingSealed DEF PostToRoom
<1>4. CASE \E s \in DOMAIN cards[p] : Confirm(p, s)
  BY <1>4, ConfirmType, ConfirmEffects
<1> QED
  BY <1>1, <1>2, <1>3, <1>4

-----------------------------------------------------------------------------
(***************************************************************************)
(* What the effects leave standing.                                        *)
(***************************************************************************)

\* A row that was right stays right, whatever happens to the ledger.
LEMMA AuthCarried ==
  ASSUME LedgerTypeOK, Effects, NEW a \in AuthRows, AuthOK(a)
  PROVE  AuthOK(a)'
<1>1. a.prop \in Proposals
  BY DEF AuthRows
<1>2. /\ IsPublishedPlan(a.prop, a.plan)'
      /\ IsPublishedPlan(a.prop, a.envelopes)'
      /\ state[a.prop] \in Settled => PlansSame(a.prop)
      /\ state[a.prop] \in Settled => state'[a.prop] \in Settled
  BY <1>1 DEF Effects, PlansKept, SettledKept, AuthOK
<1>3. /\ a.card \in DOMAIN cards'[a.prop]
      /\ cards'[a.prop][a.card].type = CardTypeOf(a.kind)
      /\ a.kind = "policy" => cards'[a.prop][a.plan].ref = "auto"
  BY <1>1 DEF Effects, CardsKept, AuthOK, IsPublishedPlan
<1>4. a.status = "CONSUMED" => IsPlanInForce(a.prop, a.plan)'
  BY <1>2 DEF AuthOK, Granted, PlansSame, IsPlanInForce, IsPublishedPlan
<1> QED
  BY <1>2, <1>3, <1>4 DEF AuthOK, Granted

\* What a step does to the nonces: it renames no plan, and it creates none
\* but for a published plan.
NoncesKept ==
  \A p \in Proposals, n \in Nonces :
    \/ nonce'[p][n].plan = nonce[p][n].plan /\ nonce[p][n].status # "free"
    \/ nonce'[p][n].status = "free"
    \/ IsPublishedPlan(p, nonce'[p][n].plan)

\* The part of the invariant a step keeps that adds no rows.
LEMMA CoreCarried ==
  ASSUME CoreInv, TypeOK', Effects, NoncesKept,
         \A b \in auths' : \/ b \in auths
                           \/ b \in AuthRows /\ AuthOK(b)'
  PROVE  CoreInv'
<1>1. \A p \in Proposals, n \in Nonces : NonceOK(p, n)'
  BY DEF NonceOK, NoncesKept, CoreInv, Effects, PlansKept
<1>2. \A a \in auths' : AuthOK(a)'
  BY AuthCarried DEF CoreInv, TypeOK
<1>3. PolicySettles'
  BY DEF CoreInv, PolicySettles, Effects, PolicyKept, SettledKept
<1> QED
  BY <1>1, <1>2, <1>3 DEF CoreInv

LEMMA NoncesUnchanged ==
  ASSUME CoreInv, nonce' = nonce
  PROVE  NoncesKept
  BY DEF CoreInv, NonceOK, NoncesKept

\* Replacing one nonce by a row for the same plan.
LEMMA NonceReplaced ==
  ASSUME CoreInv, NEW p \in Proposals, NEW n \in Nonces,
         nonce[p][n].status # "free",
         NEW row \in NonceRows, row.plan = nonce[p][n].plan,
         nonce' = [q \in Proposals |-> nonce'[q]],
         nonce'[p] = [nonce[p] EXCEPT ![n] = row],
         \A q \in Proposals : q # p => nonce'[q] = nonce[q]
  PROVE  nonce' \in [Proposals -> [Nonces -> NonceRows]] /\ NoncesKept
<1>1. nonce \in [Proposals -> [Nonces -> NonceRows]]
  BY DEF CoreInv, TypeOK
<1>2. nonce'[p] \in [Nonces -> NonceRows]
  BY <1>1
<1>3. \A q \in Proposals : nonce'[q] \in [Nonces -> NonceRows]
  BY <1>1, <1>2
<1>4. \A m \in Nonces : m # n => nonce'[p][m] = nonce[p][m]
  BY <1>1
<1>5. nonce'[p][n] = row
  BY <1>1
<1>6. ASSUME NEW q \in Proposals, NEW m \in Nonces
      PROVE  \/ /\ nonce'[q][m].plan = nonce[q][m].plan
                /\ nonce[q][m].status # "free"
             \/ nonce'[q][m].status = "free"
  <2>1. CASE q = p /\ m = n
    BY <1>5, <2>1
  <2>2. CASE ~ (q = p /\ m = n)
    BY <1>4, <2>2
  <2> QED
    BY <2>1, <2>2
<1> QED
  BY <1>3, <1>6 DEF NoncesKept

\* Setting the status of one nonce.
LEMMA NonceMarked ==
  ASSUME CoreInv, NEW p \in Proposals, NEW n \in Nonces,
         nonce[p][n].status # "free",
         NEW st \in NonceStatus,
         nonce' = [nonce EXCEPT ![p][n].status = st]
  PROVE  nonce' \in [Proposals -> [Nonces -> NonceRows]] /\ NoncesKept
<1> DEFINE row == [nonce[p][n] EXCEPT !.status = st]
<1>1. nonce[p][n] \in NonceRows
  BY DEF CoreInv, TypeOK
<1>2. row \in NonceRows /\ row.plan = nonce[p][n].plan
  BY <1>1 DEF NonceRows
<1>3. /\ nonce'[p] = [nonce[p] EXCEPT ![n] = row]
      /\ \A q \in Proposals : q # p => nonce'[q] = nonce[q]
      /\ nonce' = [q \in Proposals |-> nonce'[q]]
  BY DEF CoreInv, TypeOK
<1> QED
  BY <1>2, <1>3, NonceReplaced

\* A second grant needs a proposal that is not settled, and a granted one is.
LEMMA OneGrantAdded ==
  ASSUME CoreInv, OneGrantPerProposal, NEW b,
         state[b.prop] \notin Settled,
         \A x \in auths' : x \in auths \/ x = b
  PROVE  OneGrantPerProposal'
  BY DEF CoreInv, AuthOK, OneGrantPerProposal, Granted

\* A row replaced by one that is granted only if it was.
LEMMA OneGrantReplaced ==
  ASSUME OneGrantPerProposal, NEW a \in auths, NEW b, b.prop = a.prop,
         Granted(b) => Granted(a),
         auths' = (auths \ {a}) \cup {b}
  PROVE  OneGrantPerProposal'
  BY DEF OneGrantPerProposal, Granted

-----------------------------------------------------------------------------
(***************************************************************************)
(* One lemma per kind of step.                                             *)
(***************************************************************************)

StepOK ==
  /\ CoreInv'
  /\ Effects
  /\ OneGrantPerProposal => OneGrantPerProposal'

\* The first attempt to publish an authorization, however far it gets.
LEMMA IssueStep ==
  ASSUME CoreInv, NEW p \in Proposals, NEW kind \in AuthKinds,
         NEW plan, NEW envelopes, NEW r \in Refs(CardTypeOf(kind)),
         NEW reach \in Reaches,
         state[p] = "PLANNED",
         IsPublishedPlan(p, plan), IsPlanInForce(p, envelopes),
         kind = "policy" => cards[p][plan].ref = "auto",
         Issue(p, kind, plan, envelopes, r, reach),
         nonce' \in [Proposals -> [Nonces -> NonceRows]], NoncesKept,
         learned' = learned
  PROVE  StepOK
<1> DEFINE done == reach = "advanced"
           dec == IF kind = "policy" THEN "none" ELSE "APPROVED"
           target == IF kind = "policy" THEN "AUTHORIZED" ELSE "APPROVED"
           c == [NewCard(CardTypeOf(kind), dec, r) EXCEPT !.published = done]
<1>0. PICK b : b = [prop |-> p, kind |-> kind, card |-> NextSeq(p),
                    plan |-> plan, envelopes |-> envelopes, nonce |-> r,
                    status |-> StatusAt(reach), lapsed |-> FALSE]
  OBVIOUS
<1>1. LedgerTypeOK /\ TypeOK
  BY DEF CoreInv, TypeOK
<1>2. /\ cards' = [cards EXCEPT ![p] = Append(@, c)]
      /\ auths' = auths \cup {b}
      /\ visible' = RoomAt(p, NextSeq(p), reach)
      /\ state' = [state EXCEPT ![p] = StateAt(p, reach, target)]
  BY <1>0 DEF Issue, SealDecision, CardTypeOf
<1>3. /\ c \in Cards
      /\ c.type = CardTypeOf(kind)
      /\ c.published = done
  <2>1. CardTypeOf(kind) \in CardTypes /\ dec \in Outcomes(CardTypeOf(kind))
    BY DEF CardTypeOf, CardTypes, Outcomes, AuthKinds
  <2>2. NewCard(CardTypeOf(kind), dec, r) \in Cards
    BY <2>1, NewCardType
  <2> QED
    BY <2>2 DEF Cards, NewCard
<1>4. c.type # "ResponsePlan"
  BY <1>3 DEF CardTypeOf
<1> HIDE DEF c
<1>5. /\ CardsKept
      /\ \A q \in Proposals : PlansSame(q)
      /\ cards' \in [Proposals -> Seq(Cards)]
      /\ NextSeq(p) \in Nat \ {0}
      /\ NextSeq(p) \in DOMAIN cards'[p]
      /\ cards'[p][NextSeq(p)] = c
      /\ \A q \in Proposals : HasPublishedPolicyCard(q)' =>
           \/ HasPublishedPolicyCard(q)
           \/ q = p /\ c.type = "PolicyAuthorization" /\ c.published
  BY <1>1, <1>2, <1>3, <1>4, SealEffects
<1>6. /\ state' \in [Proposals -> States]
      /\ \A q \in Proposals : q # p => state'[q] = state[q]
      /\ done => state'[p] \in Settled
      /\ ~ done => state'[p] = "PLANNED"
  BY <1>1, <1>2 DEF LedgerTypeOK, StateAt, States, Settled
<1>7. Effects
  <2>1. SettledKept
    BY <1>6 DEF SettledKept, Settled
  <2>2. PolicyKept
    BY <1>3, <1>5, <1>6 DEF PolicyKept
  <2> QED
    BY <1>5, <2>1, <2>2, PlansSameKept DEF Effects
<1>8. plan \in Nat /\ envelopes \in Nat /\ plan <= envelopes
  <2>1. cards[p] \in Seq(Cards)
    BY <1>1 DEF LedgerTypeOK
  <2>2. DOMAIN cards[p] \subseteq Nat
    BY <2>1
  <2> QED
    BY <2>2 DEF IsPublishedPlan, IsPlanInForce
<1>9. b \in AuthRows
  <2>1. r \in AllRefs
    BY DEF Refs, AllRefs, CardTypeOf, AuthKinds
  <2>2. StatusAt(reach) \in AuthStatus
    BY DEF StatusAt, AuthStatus
  <2> QED
    BY <1>0, <1>5, <1>8, <2>1, <2>2 DEF AuthRows
<1>10. AuthOK(b)'
  <2>1. /\ IsPublishedPlan(p, plan)'
        /\ IsPublishedPlan(p, envelopes)'
    BY <1>5 DEF PlansSame, IsPlanInForce
  <2>2. kind = "policy" => cards'[p][plan].ref = "auto"
    BY <1>5 DEF CardsKept, IsPublishedPlan
  <2>3. Granted(b) => state'[p] \in Settled
    BY <1>0, <1>6 DEF Granted, StatusAt
  <2>4. b.status # "CONSUMED"
    BY <1>0 DEF StatusAt
  <2> QED
    BY <1>0, <1>3, <1>5, <1>8, <2>1, <2>2, <2>3, <2>4 DEF AuthOK, Granted
<1>11. TypeOK'
  <2>1. visible' \subseteq (Proposals \X (Nat \ {0}))
    BY <1>1, <1>2, <1>5 DEF LedgerTypeOK, RoomAt
  <2>2. auths' \subseteq AuthRows
    BY <1>1, <1>2, <1>9 DEF TypeOK
  <2> QED
    BY <1>1, <1>5, <1>6, <2>1, <2>2 DEF TypeOK, LedgerTypeOK
<1>12. CoreInv'
  BY <1>2, <1>7, <1>9, <1>10, <1>11, CoreCarried
<1>13. b.prop = p
  BY <1>0
<1>14. OneGrantPerProposal => OneGrantPerProposal'
  BY <1>2, <1>13, OneGrantAdded DEF Settled
<1> QED
  BY <1>7, <1>12, <1>14 DEF StepOK

\* A retry of a PENDING authorization.
LEMMA RepublishStep ==
  ASSUME CoreInv, NEW a \in auths, NEW reach, Republish(a, reach)
  PROVE  StepOK
<1> DEFINE done == reach = "advanced"
           target == IF a.kind = "policy" THEN "AUTHORIZED" ELSE "APPROVED"
<1>0. PICK b : b = [a EXCEPT !.status = StatusAt(reach)]
  OBVIOUS
<1>1. LedgerTypeOK /\ TypeOK /\ AuthOK(a) /\ a \in AuthRows /\ a.prop \in Proposals
  BY DEF CoreInv, TypeOK, AuthRows
<1>2. /\ reach \in {"posted", "advanced"}
      /\ state[a.prop] = "PLANNED"
      /\ Publish(a.prop, a.card, done)
      /\ auths' = (auths \ {a}) \cup {b}
      /\ visible' = RoomAt(a.prop, a.card, reach)
      /\ state' = [state EXCEPT ![a.prop] = StateAt(a.prop, reach, target)]
      /\ nonce' = nonce /\ learned' = learned
  BY <1>0 DEF Republish
<1>3. /\ a.card \in DOMAIN cards[a.prop]
      /\ cards[a.prop][a.card].type \in {"PolicyAuthorization",
                                          "StructuredApproval"}
  BY <1>1 DEF AuthOK, CardTypeOf
<1>4. /\ CardsKept
      /\ \A q \in Proposals : PlansSame(q)
      /\ cards' \in [Proposals -> Seq(Cards)]
      /\ \A q \in Proposals : HasPublishedPolicyCard(q)' =>
           \/ HasPublishedPolicyCard(q)
           \/ /\ q = a.prop
              /\ cards[a.prop][a.card].type = "PolicyAuthorization" /\ done
  BY <1>1, <1>2, <1>3, PublishEffects
<1>5. /\ state' \in [Proposals -> States]
      /\ \A q \in Proposals : q # a.prop => state'[q] = state[q]
      /\ done => state'[a.prop] \in Settled
      /\ ~ done => state'[a.prop] = "PLANNED"
  BY <1>1, <1>2 DEF LedgerTypeOK, StateAt, States, Settled
<1>6. Effects
  <2>1. SettledKept
    BY <1>2, <1>5 DEF SettledKept, Settled
  <2>2. PolicyKept
    BY <1>4, <1>5 DEF PolicyKept
  <2> QED
    BY <1>4, <2>1, <2>2, PlansSameKept DEF Effects
<1>7. b \in AuthRows /\ b.prop = a.prop
  <2>1. StatusAt(reach) \in AuthStatus
    BY DEF StatusAt, AuthStatus
  <2> QED
    BY <1>0, <1>1, <2>1 DEF AuthRows
<1>8. AuthOK(b)'
  <2>1. AuthOK(a)'
    BY <1>1, <1>6, AuthCarried
  <2>2. /\ b.prop = a.prop /\ b.kind = a.kind /\ b.card = a.card
        /\ b.plan = a.plan /\ b.envelopes = a.envelopes
        /\ b.status = StatusAt(reach)
    BY <1>0, <1>1 DEF AuthRows
  <2>3. b.status # "CONSUMED" /\ (Granted(b) => state'[b.prop] \in Settled)
    BY <1>5, <2>2 DEF Granted, StatusAt
  <2> QED
    BY <2>1, <2>2, <2>3 DEF AuthOK
<1>9. TypeOK'
  <2>1. a.card \in Nat \ {0}
    <3>1. cards[a.prop] \in Seq(Cards)
      BY <1>1 DEF LedgerTypeOK
    <3> QED
      BY <1>3, <3>1
  <2>2. visible' \subseteq (Proposals \X (Nat \ {0}))
    BY <1>1, <1>2, <2>1 DEF LedgerTypeOK, RoomAt
  <2>3. auths' \subseteq AuthRows
    BY <1>1, <1>2, <1>7 DEF TypeOK
  <2> QED
    BY <1>1, <1>2, <1>4, <1>5, <2>2, <2>3 DEF TypeOK, LedgerTypeOK
<1>10. CoreInv'
  BY <1>2, <1>6, <1>7, <1>8, <1>9, NoncesUnchanged, CoreCarried
<1>11. OneGrantPerProposal => OneGrantPerProposal'
  BY <1>2, <1>7, OneGrantAdded DEF Settled
<1> QED
  BY <1>6, <1>10, <1>11 DEF StepOK

\* A revision or a false alarm on the approval page.
LEMMA OverruleStep ==
  ASSUME CoreInv, NEW p \in Proposals, NEW n \in Nonces, NEW s,
         NEW outcome \in {"REJECTED", "FALSE_ALARM"},
         NEW target \in {"REJECTED", "CLOSED_FALSE_ALARM"},
         Overrule(p, n, s, outcome, target),
         learned' \subseteq {FingerprintOf[q] : q \in Proposals}
  PROVE  StepOK
<1> DEFINE c == [NewCard("StructuredApproval", outcome, n)
                   EXCEPT !.published = FALSE]
<1>1. LedgerTypeOK /\ TypeOK
  BY DEF CoreInv, TypeOK
<1>2. /\ state[p] = "PLANNED"
      /\ cards' = [cards EXCEPT ![p] = Append(@, c)]
      /\ nonce' = [nonce EXCEPT ![p][n].status = "invalidated"]
      /\ state' = [state EXCEPT ![p] = target]
      /\ UNCHANGED <<visible, auths>>
  BY DEF Overrule, SealDecision
<1>3. nonce[p][n].status # "free"
  BY DEF Overrule, NonceValid
<1>4. c \in Cards /\ ~ c.published
  <2>1. NewCard("StructuredApproval", outcome, n) \in Cards
    BY NewCardType DEF CardTypes, Outcomes, Refs
  <2> QED
    BY <2>1 DEF Cards, NewCard
<1> HIDE DEF c
<1>5. /\ CardsKept
      /\ \A q \in Proposals : PlansSame(q)
      /\ cards' \in [Proposals -> Seq(Cards)]
      /\ \A q \in Proposals :
           HasPublishedPolicyCard(q)' => HasPublishedPolicyCard(q)
  BY <1>1, <1>2, <1>4, SealEffects
<1>6. SettledKept /\ state' \in [Proposals -> States]
  BY <1>1, <1>2 DEF SettledKept, Settled, LedgerTypeOK, States
<1>7. Effects
  BY <1>5, <1>6, PlansSameKept DEF Effects, PolicyKept
<1>8. /\ nonce' \in [Proposals -> [Nonces -> NonceRows]]
      /\ NoncesKept
  BY <1>2, <1>3, NonceMarked DEF NonceStatus
<1>9. TypeOK'
  BY <1>1, <1>2, <1>5, <1>6, <1>8 DEF TypeOK, LedgerTypeOK
<1>10. CoreInv'
  BY <1>2, <1>7, <1>8, <1>9, CoreCarried
<1> QED
  BY <1>2, <1>7, <1>10 DEF StepOK, OneGrantPerProposal, Granted

\* The room hears of such a decision.
LEMMA NotifyStep ==
  ASSUME CoreInv, NEW p \in Proposals, NEW s, NEW reach,
         NotifyDecision(p, s, reach)
  PROVE  StepOK
<1>1. LedgerTypeOK /\ TypeOK
  BY DEF CoreInv, TypeOK
<1>2. /\ s \in DOMAIN cards[p]
      /\ cards[p][s].type = "StructuredApproval"
      /\ Publish(p, s, reach = "advanced")
      /\ visible' = visible \cup {<<p, s>>}
      /\ UNCHANGED <<state, nonce, auths, learned>>
  BY DEF NotifyDecision, authorityVars
<1>3. /\ CardsKept
      /\ \A q \in Proposals : PlansSame(q)
      /\ cards' \in [Proposals -> Seq(Cards)]
      /\ \A q \in Proposals :
           HasPublishedPolicyCard(q)' => HasPublishedPolicyCard(q)
  BY <1>1, <1>2, PublishEffects
<1>4. Effects
  BY <1>2, <1>3, PlansSameKept DEF Effects, PolicyKept, SettledKept
<1>5. TypeOK'
  <2>1. cards[p] \in Seq(Cards)
    BY <1>1 DEF LedgerTypeOK
  <2>2. s \in Nat \ {0}
    BY <1>2, <2>1
  <2> QED
    BY <1>1, <1>2, <1>3, <2>2 DEF TypeOK, LedgerTypeOK
<1>6. CoreInv'
  BY <1>2, <1>4, <1>5, NoncesUnchanged, CoreCarried
<1> QED
  BY <1>2, <1>4, <1>6 DEF StepOK, OneGrantPerProposal, Granted

\* Steps of the nonces table alone.
LEMMA NonceStep ==
  ASSUME CoreInv, UNCHANGED <<ledgerVars, auths, learned>>,
         nonce' \in [Proposals -> [Nonces -> NonceRows]], NoncesKept
  PROVE  StepOK
<1>1. TypeOK'
  BY DEF CoreInv, TypeOK, LedgerTypeOK, ledgerVars
<1>2. CoreInv' /\ Effects
  BY <1>1, NothingSealed, CoreCarried DEF ledgerVars
<1> QED
  BY <1>2 DEF StepOK, OneGrantPerProposal, Granted

LEMMA CreateNonceStep ==
  ASSUME CoreInv, NEW p \in Proposals, NEW n \in Nonces, NEW s,
         CreateNonce(p, n, s)
  PROVE  StepOK
<1> DEFINE row(m) == IF m = n THEN NonceRow(s, "active")
                     ELSE IF nonce[p][m].status = "active"
                          THEN [nonce[p][m] EXCEPT !.status = "invalidated"]
                          ELSE nonce[p][m]
<1>1. /\ nonce \in [Proposals -> [Nonces -> NonceRows]]
      /\ LedgerTypeOK
  BY DEF CoreInv, TypeOK
<1>2. nonce' = [nonce EXCEPT ![p] = [m \in Nonces |-> row(m)]]
  BY DEF CreateNonce
<1>3. IsPublishedPlan(p, s) /\ s \in Nat
  <2>1. cards[p] \in Seq(Cards)
    BY <1>1 DEF LedgerTypeOK
  <2> QED
    BY <2>1 DEF CreateNonce, IsPlanInForce, IsPublishedPlan
<1>4. ASSUME NEW m \in Nonces
      PROVE  /\ row(m) \in NonceRows
             /\ \/ m = n /\ row(m).plan = s
                \/ row(m).plan = nonce[p][m].plan /\ nonce[p][m].status # "free"
                \/ row(m).status = "free"
  <2>1. nonce[p][m] \in NonceRows
    BY <1>1
  <2>2. CASE m = n
    BY <1>3, <2>2 DEF NonceRow, NonceRows, NonceStatus
  <2>3. CASE m # n
    BY <2>1, <2>3 DEF NonceRows, NonceStatus
  <2> QED
    BY <2>2, <2>3
<1> HIDE DEF row
<1>5. /\ nonce' \in [Proposals -> [Nonces -> NonceRows]]
      /\ \A m \in Nonces : nonce'[p][m] = row(m)
      /\ \A q \in Proposals : q # p => nonce'[q] = nonce[q]
  <2>1. [m \in Nonces |-> row(m)] \in [Nonces -> NonceRows]
    BY <1>4
  <2> QED
    BY <1>1, <1>2, <2>1
<1>6. NoncesKept
  BY <1>3, <1>4, <1>5 DEF NoncesKept
<1> QED
  BY <1>5, <1>6, NonceStep DEF CreateNonce

\* The challenge of a nonce is posted, or its time is over.
LEMMA FlagNonceStep ==
  ASSUME CoreInv, NEW p \in Proposals, NEW n \in Nonces,
         PostChallenge(p, n) \/ LapseNonce(p, n)
  PROVE  StepOK
<1>1. /\ nonce[p][n].status # "free"
      /\ UNCHANGED <<ledgerVars, auths, learned>>
  BY DEF PostChallenge, LapseNonce
<1>2. nonce[p][n] \in NonceRows
  BY DEF CoreInv, TypeOK
<1>3. CASE PostChallenge(p, n)
  <2> DEFINE row == [nonce[p][n] EXCEPT !.challenged = TRUE]
  <2>1. row \in NonceRows /\ row.plan = nonce[p][n].plan
    BY <1>2 DEF NonceRows
  <2>2. /\ nonce'[p] = [nonce[p] EXCEPT ![n] = row]
        /\ \A q \in Proposals : q # p => nonce'[q] = nonce[q]
        /\ nonce' = [q \in Proposals |-> nonce'[q]]
    BY <1>3 DEF PostChallenge, CoreInv, TypeOK
  <2> HIDE DEF row
  <2>3. nonce' \in [Proposals -> [Nonces -> NonceRows]] /\ NoncesKept
    BY <1>1, <2>1, <2>2, NonceReplaced
  <2> QED
    BY <1>1, <2>3, NonceStep
<1>4. CASE LapseNonce(p, n)
  <2> DEFINE row == [nonce[p][n] EXCEPT !.lapsed = TRUE]
  <2>1. row \in NonceRows /\ row.plan = nonce[p][n].plan
    BY <1>2 DEF NonceRows
  <2>2. /\ nonce'[p] = [nonce[p] EXCEPT ![n] = row]
        /\ \A q \in Proposals : q # p => nonce'[q] = nonce[q]
        /\ nonce' = [q \in Proposals |-> nonce'[q]]
    BY <1>4 DEF LapseNonce, CoreInv, TypeOK
  <2> HIDE DEF row
  <2>3. nonce' \in [Proposals -> [Nonces -> NonceRows]] /\ NoncesKept
    BY <1>1, <2>1, <2>2, NonceReplaced
  <2> QED
    BY <1>1, <2>3, NonceStep
<1> QED
  BY <1>3, <1>4

\* An authorization is spent, or its time is over.
LEMMA RowStep ==
  ASSUME CoreInv, NEW a \in auths,
         ConsumeAuthorization(a) \/ LapseAuthorization(a)
  PROVE  StepOK
<1>1. UNCHANGED <<state, cards, visible, nonce, learned>>
  BY DEF ConsumeAuthorization, LapseAuthorization, ledgerVars
<1>2. TypeOK /\ LedgerTypeOK /\ AuthOK(a) /\ a \in AuthRows
  BY DEF CoreInv, TypeOK
<1>3. Effects /\ NoncesKept
  BY <1>1, NothingSealed, NoncesUnchanged
<1>4. PICK b : /\ auths' = (auths \ {a}) \cup {b}
               /\ \/ /\ b = [a EXCEPT !.status = "CONSUMED"]
                     /\ a.status = "PUBLISHED"
                     /\ IsPlanInForce(a.prop, a.plan)
                  \/ b = [a EXCEPT !.lapsed = TRUE]
  BY DEF ConsumeAuthorization, LapseAuthorization
<1>5. /\ b \in AuthRows
      /\ b.prop = a.prop /\ b.kind = a.kind /\ b.card = a.card
      /\ b.plan = a.plan /\ b.envelopes = a.envelopes
      /\ \/ /\ b.status = "CONSUMED" /\ a.status = "PUBLISHED"
            /\ IsPlanInForce(a.prop, a.plan)
         \/ b.status = a.status
  BY <1>2, <1>4 DEF AuthRows, AuthStatus
<1>6. Granted(b) => Granted(a)
  BY <1>5 DEF Granted
<1>7. AuthOK(b)
  BY <1>2, <1>5, <1>6 DEF AuthOK
<1>8. AuthOK(b)'
  BY <1>2, <1>3, <1>5, <1>7, AuthCarried
<1>9. TypeOK'
  BY <1>1, <1>2, <1>4, <1>5 DEF TypeOK, LedgerTypeOK
<1>10. CoreInv'
  BY <1>3, <1>4, <1>5, <1>8, <1>9, CoreCarried
<1>11. OneGrantPerProposal => OneGrantPerProposal'
  BY <1>4, <1>5, <1>6, OneGrantReplaced
<1> QED
  BY <1>3, <1>10, <1>11 DEF StepOK

\* The migration publishes rows of settled proposals only, which is why it
\* keeps the core invariant; it does not keep OneGrantPerProposal.
LEMMA RestartStep ==
  ASSUME CoreInv, Restart
  PROVE  CoreInv' /\ Effects
<1>1. UNCHANGED <<state, cards, visible, nonce, learned>>
  BY DEF Restart, ledgerVars
<1>2. TypeOK /\ LedgerTypeOK
  BY DEF CoreInv, TypeOK
<1>3. Effects /\ NoncesKept
  BY <1>1, NothingSealed, NoncesUnchanged
<1>4. ASSUME NEW b \in auths'
      PROVE  b \in AuthRows /\ AuthOK(b)'
  <2>1. PICK a \in auths :
          b = IF a.status = "PENDING" /\ HasPublishedPolicyCard(a.prop)
              THEN [a EXCEPT !.status = "PUBLISHED"] ELSE a
    BY DEF Restart
  <2>2. a \in AuthRows /\ AuthOK(a) /\ a.prop \in Proposals
    BY <1>2 DEF CoreInv, TypeOK, AuthRows
  <2>3. CASE a.status = "PENDING" /\ HasPublishedPolicyCard(a.prop)
    <3>1. /\ b \in AuthRows
          /\ b.prop = a.prop /\ b.kind = a.kind /\ b.card = a.card
          /\ b.plan = a.plan /\ b.envelopes = a.envelopes
          /\ b.status = "PUBLISHED"
      BY <2>1, <2>2, <2>3 DEF AuthRows, AuthStatus
    <3>2. state[a.prop] \in Settled
      BY <2>2, <2>3 DEF CoreInv, PolicySettles
    <3>3. AuthOK(b)
      BY <2>2, <3>1, <3>2 DEF AuthOK
    <3> QED
      BY <1>2, <1>3, <3>1, <3>3, AuthCarried
  <2>4. CASE ~ (a.status = "PENDING" /\ HasPublishedPolicyCard(a.prop))
    BY <1>2, <1>3, <2>1, <2>2, <2>4, AuthCarried
  <2> QED
    BY <2>3, <2>4
<1>5. TypeOK'
  BY <1>1, <1>2, <1>4 DEF TypeOK, LedgerTypeOK
<1> QED
  BY <1>3, <1>4, <1>5, CoreCarried

\* All steps together.
LEMMA NextStep ==
  ASSUME CoreInv, Next
  PROVE  StepOK
<1>1. CASE LedgerStep
  <2>1. LedgerTypeOK' /\ Effects
    BY <1>1, LedgerEffects DEF LedgerStep, CoreInv, TypeOK
  <2>2. UNCHANGED <<nonce, auths, learned>>
    BY <1>1 DEF LedgerStep, authorityVars
  <2>3. TypeOK'
    BY <2>1, <2>2 DEF CoreInv, TypeOK
  <2>4. CoreInv'
    BY <2>1, <2>2, <2>3, NoncesUnchanged, CoreCarried
  <2> QED
    BY <2>1, <2>2, <2>4 DEF StepOK, OneGrantPerProposal, Granted
<1>2. CASE HumanStep
  <2>0. PICK p \in Proposals, n \in Nonces :
          \E s \in DOMAIN cards[p] :
            \/ CreateNonce(p, n, s)
            \/ \E plan \in DOMAIN cards[p], reach \in Reaches :
                 ConsumeNonce(p, n, plan, s, reach)
            \/ Revise(p, n, s)
            \/ FalseAlarm(p, n, s)
    BY <1>2 DEF HumanStep
  <2>1. PICK s \in DOMAIN cards[p] :
          \/ CreateNonce(p, n, s)
          \/ \E plan \in DOMAIN cards[p], reach \in Reaches :
               ConsumeNonce(p, n, plan, s, reach)
          \/ Revise(p, n, s)
          \/ FalseAlarm(p, n, s)
    BY <2>0
  <2>2. CASE CreateNonce(p, n, s)
    BY <2>2, CreateNonceStep
  <2>3. ASSUME NEW plan \in DOMAIN cards[p], NEW reach \in Reaches,
               ConsumeNonce(p, n, plan, s, reach)
        PROVE  StepOK
    <3>1. /\ state[p] = "PLANNED"
          /\ nonce[p][n].status # "free" /\ nonce[p][n].plan = plan
          /\ IsPlanInForce(p, s)
          /\ Issue(p, "human_approval", plan, s, n, reach)
          /\ nonce' = [nonce EXCEPT ![p][n].status = "consumed"]
          /\ learned' = learned
      BY <2>3 DEF ConsumeNonce, NonceValid
    <3>2. IsPublishedPlan(p, plan)
      BY <3>1 DEF CoreInv, NonceOK
    <3>3. nonce' \in [Proposals -> [Nonces -> NonceRows]] /\ NoncesKept
      BY <3>1, NonceMarked DEF NonceStatus
    <3>4. n \in Refs(CardTypeOf("human_approval"))
      BY DEF CardTypeOf, Refs
    <3> QED
      BY <2>3, <3>1, <3>2, <3>3, <3>4, IssueStep DEF AuthKinds
  <2>4. CASE Revise(p, n, s)
    BY <2>4, OverruleStep DEF Revise, CoreInv, TypeOK
  <2>5. CASE FalseAlarm(p, n, s)
    BY <2>5, OverruleStep DEF FalseAlarm, CoreInv, TypeOK
  <2> QED
    BY <2>1, <2>2, <2>3, <2>4, <2>5
<1>3. CASE ClockStep
  BY <1>3, FlagNonceStep, RowStep DEF ClockStep
<1>4. CASE GatewayStep
  <2>1. CASE \E p \in Proposals, n \in Nonces : PostChallenge(p, n)
    BY <2>1, FlagNonceStep
  <2>2. ASSUME NEW p \in Proposals, NEW s \in DOMAIN cards[p],
               NEW reach \in Reaches, NotifyDecision(p, s, reach)
        PROVE  StepOK
    BY <2>2, NotifyStep
  <2>3. ASSUME NEW p \in Proposals, NEW s \in DOMAIN cards[p],
               NEW reach \in Reaches, RequestPolicy(p, s, reach)
        PROVE  StepOK
    <3>1. /\ state[p] = "PLANNED"
          /\ IsPlanInForce(p, s) /\ IsPublishedPlan(p, s)
          /\ cards[p][s].ref = "auto"
          /\ Issue(p, "policy", s, s, "none", reach)
          /\ nonce' = nonce /\ learned' = learned
      BY <2>3 DEF RequestPolicy, IsPlanInForce
    <3>2. nonce' \in [Proposals -> [Nonces -> NonceRows]] /\ NoncesKept
      BY <3>1, NoncesUnchanged DEF CoreInv, TypeOK
    <3>3. "none" \in Refs(CardTypeOf("policy"))
      BY DEF CardTypeOf, Refs
    <3> QED
      BY <3>1, <3>2, <3>3, IssueStep DEF AuthKinds
  <2>4. ASSUME NEW a \in auths, NEW reach \in Reaches,
               ResumePending(a, reach) \/ RetryPolicy(a, reach)
        PROVE  StepOK
    BY <2>4, RepublishStep DEF ResumePending, RetryPolicy
  <2>5. CASE \E a \in auths : ConsumeAuthorization(a)
    BY <2>5, RowStep
  <2> QED
    BY <1>4, <2>1, <2>2, <2>3, <2>4, <2>5 DEF GatewayStep
<1> QED
  BY <1>1, <1>2, <1>3, <1>4 DEF Next

LEMMA CoreStutters ==
  ASSUME CoreInv, UNCHANGED vars
  PROVE  StepOK
<1>1. UNCHANGED <<state, cards, visible, nonce, auths, learned>>
  BY DEF vars
<1>2. TypeOK'
  BY <1>1 DEF CoreInv, TypeOK, LedgerTypeOK
<1>3. CoreInv' /\ Effects
  BY <1>1, <1>2, NothingSealed, NoncesUnchanged, CoreCarried
<1> QED
  BY <1>1, <1>3 DEF StepOK, OneGrantPerProposal, Granted

LEMMA CoreStarts == Init => IInv
<1> SUFFICES ASSUME Init  PROVE IInv
  OBVIOUS
<1>1. TypeOK
  <2>1. NonceRow(0, "free") \in NonceRows
    BY DEF NonceRow, NonceRows, NonceStatus
  <2> QED
    BY <2>1 DEF Init, TypeOK, LedgerInit, LedgerTypeOK, States
<1>2. \A p \in Proposals, n \in Nonces : NonceOK(p, n)
  BY DEF Init, NonceOK, NonceRow
<1>3. PolicySettles
  BY DEF Init, LedgerInit, PolicySettles, HasPublishedPolicyCard
<1> QED
  BY <1>1, <1>2, <1>3 DEF Init, IInv, CoreInv, OneGrantPerProposal

-----------------------------------------------------------------------------
(***************************************************************************)
(* The theorems.                                                           *)
(***************************************************************************)

LEMMA CoreStep ==
  ASSUME CoreInv, [Next \/ Restart]_vars
  PROVE  CoreInv' /\ Effects
  BY NextStep, RestartStep, CoreStutters DEF StepOK

\* The inductive invariant holds with any number of restarts of the gateway.
THEOREM CoreCorrect == RestartSpec => []CoreInv
<1>1. Init => CoreInv
  BY CoreStarts DEF IInv
<1>2. CoreInv /\ [Next \/ Restart]_vars => CoreInv'
  BY CoreStep
<1> QED
  BY <1>1, <1>2, PTL DEF RestartSpec

LEMMA WithoutRestarts == Spec => RestartSpec
<1>1. [Next]_vars => [Next \/ Restart]_vars
  OBVIOUS
<1> QED
  BY <1>1, PTL DEF Spec, RestartSpec

\* Every handler keeps the tables well typed: no failed post or crash between
\* two transactions leaves a row or a state outside its column's values.
THEOREM TypeCorrect == Spec => []TypeOK
<1>1. CoreInv => TypeOK
  BY DEF CoreInv
<1> QED
  BY <1>1, CoreCorrect, WithoutRestarts, PTL

\* The operator only ever gets the envelopes of the plan that was authorised
\* and is in force, and by policy only of one the risk floor left to policy:
\* for any number of plans, nonces, retries, late posts and restarts.
THEOREM SpentCorrect == RestartSpec => []SpentPlanIsInForce
<1>1. CoreInv => SpentPlanIsInForce
  <2> SUFFICES ASSUME CoreInv, NEW a \in auths, a.status = "CONSUMED"
               PROVE  /\ IsPlanInForce(a.prop, a.plan)
                      /\ a.envelopes = a.plan
                      /\ a.kind = "policy" => cards[a.prop][a.plan].ref = "auto"
    BY DEF SpentPlanIsInForce
  <2>1. AuthOK(a) /\ a.plan \in Nat /\ a.envelopes \in Nat
    BY DEF CoreInv, TypeOK, AuthRows
  <2>2. a.envelopes <= a.plan
    BY <2>1 DEF AuthOK, IsPlanInForce, IsPublishedPlan
  <2> QED
    BY <2>1, <2>2 DEF AuthOK
<1> QED
  BY <1>1, CoreCorrect, PTL

\* Once an authorization is published no plan comes into force and none leaves
\* it, not even across the start-up migration.
THEOREM GrantFreezesPlanCorrect == RestartSpec => GrantFreezesPlan
<1> DEFINE Frozen ==
      \A p \in Proposals : GrantsOf(p) # {} =>
        \A s \in DOMAIN cards[p] : IsPlanInForce(p, s)' <=> IsPlanInForce(p, s)
<1>1. CoreInv /\ [Next \/ Restart]_vars => [Frozen]_vars
  <2> SUFFICES ASSUME CoreInv, [Next \/ Restart]_vars,
                      NEW p \in Proposals, GrantsOf(p) # {},
                      NEW s \in DOMAIN cards[p]
               PROVE  IsPlanInForce(p, s)' <=> IsPlanInForce(p, s)
    OBVIOUS
  <2>1. state[p] \in Settled
    BY DEF GrantsOf, CoreInv, AuthOK
  <2>2. PlansSame(p)
    BY <2>1, CoreStep DEF Effects, PlansKept
  <2> QED
    BY <2>2 DEF PlansSame, IsPlanInForce, IsPublishedPlan
<1> QED
  BY <1>1, CoreCorrect, PTL DEF RestartSpec, GrantFreezesPlan

\* In one lifetime of the gateway a proposal never holds two published
\* authorizations: of all the PENDING rows it collects, one is ever published.
THEOREM OneGrantCorrect == Spec => []OneGrantPerProposal
<1>1. Init => IInv
  BY CoreStarts
<1>2. IInv /\ [Next]_vars => IInv'
  BY NextStep, CoreStutters DEF IInv, StepOK
<1>3. IInv => OneGrantPerProposal
  BY DEF IInv
<1> QED
  BY <1>1, <1>2, <1>3, PTL DEF Spec


-----------------------------------------------------------------------------
(***************************************************************************)
(* The invariant of the tables.                                            *)
(***************************************************************************)

Closed(p, n) == nonce[p][n].status \in {"consumed", "invalidated"}

\* What is true of every row and the card it announces.
RowOK(a) ==
  /\ cards[a.prop][a.card].outcome =
       IF a.kind = "policy" THEN "none" ELSE "APPROVED"
  /\ a.envelopes < a.card
  /\ a.kind = "human_approval" =>
       /\ a.nonce \in Nonces
       /\ nonce[a.prop][a.nonce].status = "consumed"
  /\ Granted(a) => /\ cards[a.prop][a.card].published
                   /\ <<a.prop, a.card>> \in visible
  /\ a.status = "PENDING" => ~ cards[a.prop][a.card].published

OneRowPerCard ==
  \A a, b \in auths : a.prop = b.prop /\ a.card = b.card => a = b

\* A decision was taken with a nonce whose challenge was out, and closed it.
DecisionOK(p, s) ==
  cards[p][s].type = "StructuredApproval" =>
    /\ Closed(p, cards[p][s].ref)
    /\ nonce[p][cards[p][s].ref].challenged

RowsInv == (\A a \in auths : RowOK(a)) /\ OneRowPerCard

DecisionsInv ==
  /\ \A p \in Proposals : \A s \in DOMAIN cards[p] : DecisionOK(p, s)
  /\ OneDecisionPerNonce

GrantInv == IInv /\ RowsInv /\ DecisionsInv /\ GrantExplainsState

-----------------------------------------------------------------------------
(***************************************************************************)
(* What every step leaves alone, and what follows from that.               *)
(***************************************************************************)

OutcomesKept ==
  \A p \in Proposals : \A s \in DOMAIN cards[p] :
    cards'[p][s].outcome = cards[p][s].outcome

ClosedKept ==
  \A p \in Proposals, n \in Nonces : Closed(p, n) => nonce'[p][n] = nonce[p][n]

Kept == Effects /\ OutcomesKept /\ ClosedKept /\ visible \subseteq visible'

\* A row whose card is neither published nor withdrawn.
LEMMA RowCarried ==
  ASSUME CoreInv, Kept, NEW a \in auths, RowOK(a),
         cards'[a.prop][a.card].published = cards[a.prop][a.card].published
  PROVE  RowOK(a)'
<1>1. AuthOK(a) /\ a.prop \in Proposals /\ a.card \in DOMAIN cards[a.prop]
  BY DEF CoreInv, TypeOK, AuthRows, AuthOK
<1>2. cards'[a.prop][a.card].outcome = cards[a.prop][a.card].outcome
  BY <1>1 DEF Kept, OutcomesKept
<1>3. a.kind = "human_approval" =>
        /\ a.nonce \in Nonces
        /\ nonce'[a.prop][a.nonce].status = "consumed"
  BY <1>1 DEF Kept, ClosedKept, Closed, RowOK
<1> QED
  BY <1>2, <1>3 DEF RowOK, Kept, Granted

\* No decision is sealed.
DecisionsSame ==
  \A p \in Proposals : \A s \in DOMAIN cards'[p] :
    cards'[p][s].type = "StructuredApproval" => s \in DOMAIN cards[p]

LEMMA DecisionCarried ==
  ASSUME CoreInv, Kept, NEW p \in Proposals, NEW s \in DOMAIN cards[p],
         DecisionOK(p, s)
  PROVE  DecisionOK(p, s)'
<1>1. /\ cards'[p][s].type = cards[p][s].type
      /\ cards'[p][s].ref = cards[p][s].ref
  BY DEF Kept, Effects, CardsKept
<1>2. cards[p][s].type = "StructuredApproval" => cards[p][s].ref \in Nonces
  BY ChainHoldsCards DEF CoreInv, TypeOK, Cards, Refs
<1> QED
  BY <1>1, <1>2 DEF Kept, ClosedKept, DecisionOK, Closed

LEMMA DecisionsCarried ==
  ASSUME CoreInv, Kept, DecisionsInv, DecisionsSame
  PROVE  DecisionsInv'
<1>1. ASSUME NEW p \in Proposals, NEW s \in DOMAIN cards'[p],
             cards'[p][s].type = "StructuredApproval"
      PROVE  /\ s \in DOMAIN cards[p]
             /\ cards[p][s].type = "StructuredApproval"
             /\ cards'[p][s].ref = cards[p][s].ref
  BY <1>1 DEF DecisionsSame, Kept, Effects, CardsKept
<1>2. ASSUME NEW p \in Proposals, NEW s \in DOMAIN cards'[p]
      PROVE  DecisionOK(p, s)'
  <2>1. CASE cards'[p][s].type = "StructuredApproval"
    BY <1>1, <2>1, DecisionCarried DEF DecisionsInv
  <2>2. CASE cards'[p][s].type # "StructuredApproval"
    BY <2>2 DEF DecisionOK
  <2> QED
    BY <2>1, <2>2
<1>3. OneDecisionPerNonce'
  <2> SUFFICES ASSUME NEW p \in Proposals, NEW s \in DOMAIN cards'[p],
                      cards'[p][s].type = "StructuredApproval"
               PROVE  /\ nonce'[p][cards'[p][s].ref].challenged
                      /\ \A t \in DOMAIN cards'[p] :
                           /\ cards'[p][t].type = "StructuredApproval"
                           /\ cards'[p][t].ref = cards'[p][s].ref
                           => s = t
    BY DEF OneDecisionPerNonce
  <2>1. nonce'[p][cards'[p][s].ref].challenged
    BY <1>2 DEF DecisionOK
  <2>2. ASSUME NEW t \in DOMAIN cards'[p],
               cards'[p][t].type = "StructuredApproval",
               cards'[p][t].ref = cards'[p][s].ref
        PROVE  s = t
    BY <1>1, <2>2 DEF DecisionsInv, OneDecisionPerNonce
  <2> QED
    BY <2>1, <2>2
<1> QED
  BY <1>2, <1>3 DEF DecisionsInv

\* A step that publishes no row and settles no proposal.
LEMMA ExplanationCarried ==
  ASSUME GrantExplainsState,
         \A p \in Proposals :
           /\ state'[p] \in Settled <=> state[p] \in Settled
           /\ state'[p] \in {"APPROVED", "AUTHORIZED"} => state'[p] = state[p],
         \A b \in auths' : Granted(b) =>
           \E a \in auths : Granted(a) /\ a.prop = b.prop /\ a.kind = b.kind,
         \A a \in auths : Granted(a) =>
           \E b \in auths' : Granted(b) /\ b.prop = a.prop
  PROVE  GrantExplainsState'
<1> SUFFICES ASSUME NEW p \in Proposals
             PROVE  /\ (GrantsOf(p) # {})' <=> state'[p] \in Settled
                    /\ state'[p] = "APPROVED" =>
                         \A b \in GrantsOf(p)' : b.kind = "human_approval"
                    /\ state'[p] = "AUTHORIZED" =>
                         \A b \in GrantsOf(p)' : b.kind = "policy"
  BY DEF GrantExplainsState
<1>1. \A b \in GrantsOf(p)' : \E a \in GrantsOf(p) : a.kind = b.kind
  BY DEF GrantsOf
<1>2. (GrantsOf(p) # {})' <=> GrantsOf(p) # {}
  BY DEF GrantsOf
<1>3. /\ GrantsOf(p) # {} <=> state[p] \in Settled
      /\ state[p] = "APPROVED" => \A a \in GrantsOf(p) : a.kind = "human_approval"
      /\ state[p] = "AUTHORIZED" => \A a \in GrantsOf(p) : a.kind = "policy"
  BY DEF GrantExplainsState
<1>4. state'[p] = "APPROVED" => state[p] = "APPROVED"
  OBVIOUS
<1>5. state'[p] = "AUTHORIZED" => state[p] = "AUTHORIZED"
  OBVIOUS
<1> QED
  BY <1>1, <1>2, <1>3, <1>4, <1>5

\* Rows that are as they were, under an unchanged or merely grown ledger.
LEMMA RowsCarried ==
  ASSUME CoreInv, Kept, RowsInv, auths' = auths,
         \A a \in auths : cards'[a.prop][a.card].published =
                          cards[a.prop][a.card].published
  PROVE  RowsInv'
  BY RowCarried DEF RowsInv, OneRowPerCard

\* All that is to be shown of a step that changes no row.
LEMMA GrantCarried ==
  ASSUME GrantInv, IInv', Kept, DecisionsSame, auths' = auths,
         \A a \in auths : cards'[a.prop][a.card].published =
                          cards[a.prop][a.card].published,
         \A p \in Proposals :
           /\ state'[p] \in Settled <=> state[p] \in Settled
           /\ state'[p] \in {"APPROVED", "AUTHORIZED"} => state'[p] = state[p]
  PROVE  GrantInv'
<1>1. RowsInv'
  BY RowsCarried DEF GrantInv, IInv
<1>2. DecisionsInv'
  BY DecisionsCarried DEF GrantInv, IInv
<1>3. GrantExplainsState'
  BY ExplanationCarried DEF GrantInv
<1> QED
  BY <1>1, <1>2, <1>3 DEF GrantInv

-----------------------------------------------------------------------------
(***************************************************************************)
(* The steps that change no row.                                           *)
(***************************************************************************)

\* Apart from decisions and authorizations, no card settles a proposal.
LEMMA NeverSettles ==
  ASSUME NEW c \in Cards, NEW p \in Proposals, LedgerTypeOK,
         c.type \notin {"StructuredApproval", "PolicyAuthorization"},
         state[p] \in Prerequisite(c.type)
  PROVE  /\ StateAfter(p, c) \in Settled <=> state[p] \in Settled
         /\ StateAfter(p, c) \in {"APPROVED", "AUTHORIZED"}
              => StateAfter(p, c) = state[p]
<1>1. CASE c.type = "ProposalCard"
  BY <1>1, ResolveType DEF StateAfter, Settled
<1>2. CASE c.type # "ProposalCard"
  <2>1. StateAfter(p, c) = Resolve(c)
    BY <1>2 DEF StateAfter
  <2>2. Resolve(c) \notin {"APPROVED", "AUTHORIZED"}
    BY <1>2 DEF Cards, CardTypes, Outcomes, Resolve, OutcomeTransitions,
                BaseTransitions
  <2>3. CASE c.type \in {"CasperExecutionReceipt", "GovernanceSummary"}
    BY <2>1, <2>2, <2>3 DEF Cards, Outcomes, Resolve, OutcomeTransitions,
       BaseTransitions, Settled, Prerequisite
  <2>4. CASE c.type \in {"TriageDecision", "Assessment", "Verdict", "ResponsePlan"}
    BY <2>1, <2>2, <2>4 DEF Cards, Outcomes, Resolve, OutcomeTransitions,
       BaseTransitions, Settled, Prerequisite
  <2> QED
    BY <1>2, <2>3, <2>4 DEF Cards, CardTypes
<1> QED
  BY <1>1, <1>2

\* The card a row announces is an authority, which nobody submits.
LEMMA RowCard ==
  ASSUME CoreInv, NEW a \in auths
  PROVE  /\ a \in AuthRows /\ a.prop \in Proposals
         /\ a.card \in DOMAIN cards[a.prop]
         /\ cards[a.prop][a.card].type \in
              {"StructuredApproval", "PolicyAuthorization"}
         /\ cards[a.prop][a.card].type \notin SubmittedTypes
<1>1. /\ a \in AuthRows /\ a.prop \in Proposals
      /\ a.card \in DOMAIN cards[a.prop]
      /\ cards[a.prop][a.card].type = CardTypeOf(a.kind)
  BY DEF CoreInv, TypeOK, AuthRows, AuthOK
<1> QED
  BY <1>1, LifecycleAssumption DEF CardTypeOf

LEMMA PrepareGrant ==
  ASSUME GrantInv, IInv', Effects, NEW p \in Proposals, NEW t \in CardTypes,
         NEW o \in Outcomes(t), NEW r \in Refs(t), Prepare(p, t, o, r),
         UNCHANGED authorityVars
  PROVE  GrantInv'
<1> DEFINE c == NewCard(t, o, r)
<1>1. LedgerTypeOK /\ CoreInv
  BY DEF GrantInv, IInv, CoreInv, TypeOK
<1>2. c \in Cards /\ c.type = t
  BY NewCardType DEF NewCard
<1>3. /\ cards' = [cards EXCEPT ![p] = Append(@, c)]
      /\ t \notin {"StructuredApproval", "PolicyAuthorization"}
      /\ state' = [state EXCEPT ![p] = IF @ = "ABSENT" THEN "DETECTED" ELSE @]
      /\ visible' = visible /\ auths' = auths /\ nonce' = nonce
  BY LifecycleAssumption DEF Prepare, Seal, authorityVars
<1> HIDE DEF c
<1>4. /\ \A q \in Proposals : q # p => cards'[q] = cards[q]
      /\ DOMAIN cards'[p] = (DOMAIN cards[p]) \cup {Len(cards[p]) + 1}
      /\ \A s \in DOMAIN cards[p] : cards'[p][s] = cards[p][s]
      /\ cards'[p][Len(cards[p]) + 1] = c
  BY <1>1, <1>2, <1>3, SealFacts
<1>5. Kept
  BY <1>3, <1>4 DEF Kept, OutcomesKept, ClosedKept
<1>6. DecisionsSame
  BY <1>2, <1>3, <1>4 DEF DecisionsSame
<1>7. \A a \in auths : cards'[a.prop][a.card].published =
                       cards[a.prop][a.card].published
  BY <1>1, <1>4, RowCard
<1>8. \A q \in Proposals :
        /\ state'[q] \in Settled <=> state[q] \in Settled
        /\ state'[q] \in {"APPROVED", "AUTHORIZED"} => state'[q] = state[q]
  BY <1>1, <1>3 DEF LedgerTypeOK, Settled
<1> QED
  BY <1>3, <1>5, <1>6, <1>7, <1>8, GrantCarried

LEMMA ConfirmGrant ==
  ASSUME GrantInv, IInv', Effects, NEW p \in Proposals, NEW s \in DOMAIN cards[p],
         Confirm(p, s), UNCHANGED authorityVars
  PROVE  GrantInv'
<1> DEFINE c == cards[p][s]
<1>1. LedgerTypeOK /\ CoreInv
  BY DEF GrantInv, IInv, CoreInv, TypeOK
<1>2. c \in Cards
  BY <1>1, ChainHoldsCards
<1>3. /\ Publish(p, s, TRUE)
      /\ c.type \in SubmittedTypes
      /\ c.type \notin {"StructuredApproval", "PolicyAuthorization"}
      /\ state[p] \in Prerequisite(c.type)
      /\ state' = [state EXCEPT ![p] = StateAfter(p, c)]
      /\ visible' = visible /\ auths' = auths /\ nonce' = nonce
  BY LifecycleAssumption DEF Confirm, Allowed, authorityVars
<1>4. /\ \A q \in Proposals : q # p => cards'[q] = cards[q]
      /\ \A q \in Proposals : DOMAIN cards'[q] = DOMAIN cards[q]
      /\ \A t \in DOMAIN cards[p] : t # s => cards'[p][t] = cards[p][t]
      /\ cards'[p][s].outcome = cards[p][s].outcome
  BY <1>1, <1>3, PublishFacts
<1>5. Kept
  BY <1>3, <1>4 DEF Kept, OutcomesKept, ClosedKept
<1>6. DecisionsSame
  BY <1>4 DEF DecisionsSame
<1>7. \A a \in auths : cards'[a.prop][a.card].published =
                       cards[a.prop][a.card].published
  BY <1>1, <1>3, <1>4, RowCard
<1>8. \A q \in Proposals :
        /\ state'[q] \in Settled <=> state[q] \in Settled
        /\ state'[q] \in {"APPROVED", "AUTHORIZED"} => state'[q] = state[q]
  <2>1. /\ \A q \in Proposals : q # p => state'[q] = state[q]
        /\ state'[p] = StateAfter(p, c)
    BY <1>1, <1>3 DEF LedgerTypeOK
  <2> QED
    BY <1>1, <1>2, <1>3, <2>1, NeverSettles
<1> QED
  BY <1>3, <1>5, <1>6, <1>7, <1>8, GrantCarried

\* Steps that leave cards and states alone and only close nonces or open new
\* ones, or post a card.
LEMMA QuietGrant ==
  ASSUME GrantInv, IInv', Effects, ClosedKept, visible \subseteq visible',
         UNCHANGED <<state, cards, auths>>
  PROVE  GrantInv'
<1>1. Kept /\ DecisionsSame
  BY DEF Kept, OutcomesKept, DecisionsSame
<1> QED
  BY <1>1, GrantCarried

LEMMA LedgerGrant ==
  ASSUME GrantInv, IInv', Effects, LedgerStep
  PROVE  GrantInv'
<1>0. LedgerNext /\ UNCHANGED authorityVars
  BY DEF LedgerStep
<1>1. PICK p \in Proposals :
        \/ \E t \in CardTypes : \E o \in Outcomes(t), r \in Refs(t) :
             Prepare(p, t, o, r)
        \/ \E s \in DOMAIN cards[p] : PostToRoom(p, s)
        \/ \E s \in DOMAIN cards[p] : Confirm(p, s)
  BY <1>0 DEF LedgerNext
<1>2. CASE \E t \in CardTypes : \E o \in Outcomes(t), r \in Refs(t) :
             Prepare(p, t, o, r)
  BY <1>0, <1>2, PrepareGrant
<1>3. CASE \E s \in DOMAIN cards[p] : PostToRoom(p, s)
  BY <1>0, <1>3, QuietGrant DEF PostToRoom, authorityVars, ClosedKept
<1>4. CASE \E s \in DOMAIN cards[p] : Confirm(p, s)
  BY <1>0, <1>4, ConfirmGrant
<1> QED
  BY <1>1, <1>2, <1>3, <1>4

LEMMA NonceGrant ==
  ASSUME GrantInv, IInv', Effects, NEW p \in Proposals, NEW n \in Nonces, NEW s,
         CreateNonce(p, n, s) \/ PostChallenge(p, n) \/ LapseNonce(p, n)
  PROVE  GrantInv'
<1>1. nonce \in [Proposals -> [Nonces -> NonceRows]]
  BY DEF GrantInv, IInv, CoreInv, TypeOK
<1>2. UNCHANGED <<state, cards, visible, auths>>
  BY DEF CreateNonce, PostChallenge, LapseNonce, ledgerVars
<1>3. ASSUME NEW q \in Proposals, NEW m \in Nonces, Closed(q, m)
      PROVE  nonce'[q][m] = nonce[q][m]
  <2>1. CASE q # p
    BY <1>1, <2>1 DEF CreateNonce, PostChallenge, LapseNonce
  <2>2. CASE q = p /\ m # n
    BY <1>1, <1>3, <2>2 DEF CreateNonce, PostChallenge, LapseNonce, Closed
  <2>3. CASE q = p /\ m = n
    BY <1>3, <2>3 DEF CreateNonce, PostChallenge, LapseNonce, Closed
  <2> QED
    BY <2>1, <2>2, <2>3
<1> QED
  BY <1>2, <1>3, QuietGrant DEF ClosedKept

\* The room hears of a decision, whose card no row announces.
LEMMA NotifyGrant ==
  ASSUME GrantInv, IInv', Effects, NEW p \in Proposals, NEW s, NEW reach,
         NotifyDecision(p, s, reach)
  PROVE  GrantInv'
<1>1. LedgerTypeOK /\ CoreInv
  BY DEF GrantInv, IInv, CoreInv, TypeOK
<1>2. /\ s \in DOMAIN cards[p]
      /\ cards[p][s].outcome \in {"REJECTED", "FALSE_ALARM"}
      /\ Publish(p, s, reach = "advanced")
      /\ visible' = visible \cup {<<p, s>>}
      /\ UNCHANGED <<state, nonce, auths>>
  BY DEF NotifyDecision, authorityVars
<1>3. /\ \A q \in Proposals : q # p => cards'[q] = cards[q]
      /\ \A q \in Proposals : DOMAIN cards'[q] = DOMAIN cards[q]
      /\ \A t \in DOMAIN cards[p] : t # s => cards'[p][t] = cards[p][t]
      /\ cards'[p][s].outcome = cards[p][s].outcome
  BY <1>1, <1>2, PublishFacts
<1>4. Kept
  BY <1>2, <1>3 DEF Kept, OutcomesKept, ClosedKept
<1>5. DecisionsSame
  BY <1>3 DEF DecisionsSame
<1>6. \A a \in auths : cards'[a.prop][a.card].published =
                       cards[a.prop][a.card].published
  <2> SUFFICES ASSUME NEW a \in auths
               PROVE  cards'[a.prop][a.card].published =
                      cards[a.prop][a.card].published
    OBVIOUS
  <2>1. a.prop \in Proposals /\ a.card \in DOMAIN cards[a.prop]
    BY <1>1, RowCard
  <2>2. cards[a.prop][a.card].outcome \in {"none", "APPROVED"}
    BY DEF GrantInv, RowsInv, RowOK
  <2>3. a.prop # p \/ a.card # s
    BY <1>2, <2>2
  <2> QED
    BY <1>3, <2>1, <2>3
<1> QED
  BY <1>2, <1>4, <1>5, <1>6, GrantCarried

-----------------------------------------------------------------------------
(***************************************************************************)
(* The steps that take a decision or change a row.                         *)
(***************************************************************************)

\* Sealing any card keeps what was there.
LEMMA SealKept ==
  ASSUME LedgerTypeOK, Effects, ClosedKept, visible \subseteq visible',
         NEW p \in Proposals, NEW c \in Cards,
         cards' = [cards EXCEPT ![p] = Append(@, c)]
  PROVE  /\ Kept
         /\ \A q \in Proposals : \A s \in DOMAIN cards[q] :
              s \in DOMAIN cards'[q] /\ cards'[q][s] = cards[q][s]
         /\ \A q \in Proposals : \A s \in DOMAIN cards'[q] :
              \/ s \in DOMAIN cards[q]
              \/ q = p /\ s = NextSeq(p)
         /\ NextSeq(p) \in DOMAIN cards'[p] /\ NextSeq(p) \notin DOMAIN cards[p]
         /\ cards'[p][NextSeq(p)] = c
         /\ \A s \in DOMAIN cards[p] : s < NextSeq(p)
<1>1. /\ \A q \in Proposals : q # p => cards'[q] = cards[q]
      /\ DOMAIN cards'[p] = (DOMAIN cards[p]) \cup {NextSeq(p)}
      /\ NextSeq(p) \notin DOMAIN cards[p]
      /\ \A s \in DOMAIN cards[p] : cards'[p][s] = cards[p][s]
      /\ cards'[p][NextSeq(p)] = c
      /\ \A s \in DOMAIN cards[p] : s < NextSeq(p)
  BY SealFacts DEF NextSeq
<1>2. \A q \in Proposals : \A s \in DOMAIN cards[q] :
        s \in DOMAIN cards'[q] /\ cards'[q][s] = cards[q][s]
  BY <1>1
<1>3. \A q \in Proposals : \A s \in DOMAIN cards'[q] :
        s \in DOMAIN cards[q] \/ (q = p /\ s = NextSeq(p))
  BY <1>1
<1>4. Kept
  BY <1>2 DEF Kept, OutcomesKept
<1> QED
  BY <1>1, <1>2, <1>3, <1>4

\* A decision quotes a nonce that no decision before it has closed.
LEMMA DecisionAdded ==
  ASSUME GrantInv, Kept, NEW p \in Proposals, NEW n \in Nonces, NEW k,
         \A q \in Proposals : \A s \in DOMAIN cards[q] :
           s \in DOMAIN cards'[q] /\ cards'[q][s] = cards[q][s],
         \A q \in Proposals : \A s \in DOMAIN cards'[q] :
           s \in DOMAIN cards[q] \/ (q = p /\ s = k),
         cards'[p][k].type = "StructuredApproval", cards'[p][k].ref = n,
         ~ Closed(p, n), Closed(p, n)', nonce'[p][n].challenged
  PROVE  DecisionsInv'
<1>1. CoreInv /\ DecisionsInv
  BY DEF GrantInv, IInv
<1>2. ASSUME NEW q \in Proposals, NEW s \in DOMAIN cards'[q]
      PROVE  DecisionOK(q, s)'
  <2>1. CASE s \in DOMAIN cards[q]
    BY <1>1, <2>1, DecisionCarried DEF DecisionsInv
  <2>2. CASE q = p /\ s = k
    BY <2>2 DEF DecisionOK
  <2> QED
    BY <2>1, <2>2
<1>3. ASSUME NEW s \in DOMAIN cards[p], cards[p][s].type = "StructuredApproval"
      PROVE  cards[p][s].ref # n
  BY <1>1, <1>3 DEF DecisionsInv, DecisionOK
<1>4. OneDecisionPerNonce'
  <2> SUFFICES ASSUME NEW q \in Proposals, NEW s \in DOMAIN cards'[q],
                      cards'[q][s].type = "StructuredApproval"
               PROVE  /\ nonce'[q][cards'[q][s].ref].challenged
                      /\ \A t \in DOMAIN cards'[q] :
                           /\ cards'[q][t].type = "StructuredApproval"
                           /\ cards'[q][t].ref = cards'[q][s].ref
                           => s = t
    BY DEF OneDecisionPerNonce
  <2>1. nonce'[q][cards'[q][s].ref].challenged
    BY <1>2 DEF DecisionOK
  <2>2. ASSUME NEW t \in DOMAIN cards'[q],
               cards'[q][t].type = "StructuredApproval",
               cards'[q][t].ref = cards'[q][s].ref
        PROVE  s = t
    <3>1. CASE s \in DOMAIN cards[q] /\ t \in DOMAIN cards[q]
      BY <1>1, <2>2, <3>1 DEF DecisionsInv, OneDecisionPerNonce
    <3>2. CASE q = p /\ s = k /\ t # k
      BY <1>3, <2>2, <3>2
    <3>3. CASE q = p /\ t = k /\ s # k
      BY <1>3, <2>2, <3>3
    <3> QED
      BY <3>1, <3>2, <3>3
  <2> QED
    BY <2>1, <2>2
<1> QED
  BY <1>2, <1>4 DEF DecisionsInv

\* Closing one nonce that was open.
LEMMA NonceClosed ==
  ASSUME CoreInv, NEW p \in Proposals, NEW n \in Nonces, NEW plan,
         NonceValid(p, n, plan), NEW st \in {"consumed", "invalidated"},
         nonce' = [nonce EXCEPT ![p][n].status = st]
  PROVE  /\ ClosedKept
         /\ ~ Closed(p, n) /\ Closed(p, n)'
         /\ nonce'[p][n].challenged /\ nonce'[p][n].status = st
<1>1. nonce \in [Proposals -> [Nonces -> NonceRows]]
  BY DEF CoreInv, TypeOK
<1>2. nonce[p][n].status = "active" /\ nonce[p][n].challenged
  BY DEF NonceValid
<1>3. nonce[p][n] \in NonceRows
  BY <1>1
<1>4. nonce'[p][n] = [nonce[p][n] EXCEPT !.status = st]
  BY <1>1
<1>5. nonce'[p][n].status = st /\ nonce'[p][n].challenged
  BY <1>2, <1>3, <1>4 DEF NonceRows
<1>6. ASSUME NEW q \in Proposals, NEW m \in Nonces, q # p \/ m # n
      PROVE  nonce'[q][m] = nonce[q][m]
  BY <1>1, <1>6
<1>7. ClosedKept
  BY <1>2, <1>6 DEF ClosedKept, Closed
<1> QED
  BY <1>2, <1>5, <1>7 DEF Closed

LEMMA OverruleGrant ==
  ASSUME GrantInv, IInv', Effects, NEW p \in Proposals, NEW n \in Nonces, NEW s,
         NEW outcome \in {"REJECTED", "FALSE_ALARM"},
         NEW target \in {"REJECTED", "CLOSED_FALSE_ALARM"},
         Overrule(p, n, s, outcome, target)
  PROVE  GrantInv'
<1> DEFINE c == [NewCard("StructuredApproval", outcome, n)
                   EXCEPT !.published = FALSE]
<1>1. LedgerTypeOK /\ CoreInv
  BY DEF GrantInv, IInv, CoreInv, TypeOK
<1>2. /\ state[p] = "PLANNED"
      /\ NonceValid(p, n, s)
      /\ cards' = [cards EXCEPT ![p] = Append(@, c)]
      /\ nonce' = [nonce EXCEPT ![p][n].status = "invalidated"]
      /\ state' = [state EXCEPT ![p] = target]
      /\ visible' = visible /\ auths' = auths
  BY DEF Overrule, SealDecision
<1>3. c \in Cards /\ c.type = "StructuredApproval" /\ c.ref = n
  <2>1. NewCard("StructuredApproval", outcome, n) \in Cards
    BY NewCardType DEF CardTypes, Outcomes, Refs
  <2> QED
    BY <2>1 DEF Cards, NewCard
<1> HIDE DEF c
<1>4. /\ ClosedKept
      /\ ~ Closed(p, n) /\ Closed(p, n)'
      /\ nonce'[p][n].challenged
  BY <1>1, <1>2, NonceClosed
<1>5. /\ Kept
      /\ \A q \in Proposals : \A t \in DOMAIN cards[q] :
           t \in DOMAIN cards'[q] /\ cards'[q][t] = cards[q][t]
      /\ \A q \in Proposals : \A t \in DOMAIN cards'[q] :
           t \in DOMAIN cards[q] \/ (q = p /\ t = NextSeq(p))
      /\ cards'[p][NextSeq(p)] = c
  BY <1>1, <1>2, <1>3, <1>4, SealKept
<1>6. DecisionsInv'
  BY <1>3, <1>4, <1>5, DecisionAdded
<1>7. RowsInv'
  BY <1>1, <1>2, <1>5, RowCard, RowsCarried DEF GrantInv
<1>8. GrantExplainsState'
  <2>1. \A q \in Proposals :
          /\ state'[q] \in Settled <=> state[q] \in Settled
          /\ state'[q] \in {"APPROVED", "AUTHORIZED"} => state'[q] = state[q]
    BY <1>1, <1>2 DEF LedgerTypeOK, Settled
  <2> QED
    BY <1>2, <2>1, ExplanationCarried DEF GrantInv
<1> QED
  BY <1>6, <1>7, <1>8 DEF GrantInv

\* A row that comes, or takes the place of the row of its card, and settles the
\* proposal if it is granted.
LEMMA RowPublished ==
  ASSUME GrantInv, IInv', NEW p \in Proposals, NEW b \in auths', b.prop = p,
         state[p] = "PLANNED",
         \A q \in Proposals : q # p => state'[q] = state[q],
         Granted(b) => state'[p] = IF b.kind = "policy" THEN "AUTHORIZED"
                                                        ELSE "APPROVED",
         ~ Granted(b) => state'[p] = "PLANNED",
         \A x \in auths' : x \in auths \/ x = b,
         \A x \in auths : x \in auths' \/ (x.prop = p /\ ~ Granted(x))
  PROVE  GrantExplainsState'
<1>1. \A x \in auths : x.prop = p => ~ Granted(x)
  BY DEF GrantInv, IInv, CoreInv, AuthOK, Settled
<1>2. b.kind \in AuthKinds
  BY DEF IInv, CoreInv, TypeOK, AuthRows
<1>3. CASE Granted(b)
  <2>1. GrantsOf(p)' = {b}
    BY <1>1, <1>3 DEF GrantsOf
  <2>2. \A q \in Proposals : q # p => GrantsOf(q)' = GrantsOf(q)
    BY DEF GrantsOf
  <2>3. state'[p] = IF b.kind = "policy" THEN "AUTHORIZED" ELSE "APPROVED"
    BY <1>3
  <2>4. ASSUME NEW q \in Proposals
        PROVE  /\ GrantsOf(q)' # {} <=> state'[q] \in Settled
               /\ state'[q] = "APPROVED" =>
                    \A a \in GrantsOf(q)' : a.kind = "human_approval"
               /\ state'[q] = "AUTHORIZED" =>
                    \A a \in GrantsOf(q)' : a.kind = "policy"
    <3>1. CASE q = p
      BY <1>2, <2>1, <2>3, <3>1 DEF Settled, AuthKinds
    <3>2. CASE q # p
      BY <2>2, <3>2 DEF GrantInv, GrantExplainsState
    <3> QED
      BY <3>1, <3>2
  <2> QED
    BY <2>4 DEF GrantExplainsState
<1>4. CASE ~ Granted(b)
  <2>1. \A q \in Proposals : state'[q] = state[q]
    BY <1>4
  <2>2. \A q \in Proposals : GrantsOf(q)' = GrantsOf(q)
    BY <1>1, <1>4 DEF GrantsOf
  <2> QED
    BY <2>1, <2>2 DEF GrantInv, GrantExplainsState
<1> QED
  BY <1>3, <1>4

\* The first attempt to publish an authorization.  A human decision closes its
\* nonce in the same transaction.
LEMMA IssueGrant ==
  ASSUME GrantInv, IInv', Effects, ClosedKept, NEW p \in Proposals,
         NEW kind \in AuthKinds, NEW plan, NEW envelopes,
         NEW r \in Refs(CardTypeOf(kind)), NEW reach \in Reaches,
         state[p] = "PLANNED", IsPlanInForce(p, envelopes),
         Issue(p, kind, plan, envelopes, r, reach),
         kind = "human_approval" =>
           /\ r \in Nonces /\ ~ Closed(p, r) /\ Closed(p, r)'
           /\ nonce'[p][r].challenged /\ nonce'[p][r].status = "consumed"
  PROVE  GrantInv'
<1> DEFINE done == reach = "advanced"
           dec == IF kind = "policy" THEN "none" ELSE "APPROVED"
           target == IF kind = "policy" THEN "AUTHORIZED" ELSE "APPROVED"
           c == [NewCard(CardTypeOf(kind), dec, r) EXCEPT !.published = done]
<1>0. PICK b : b = [prop |-> p, kind |-> kind, card |-> NextSeq(p),
                    plan |-> plan, envelopes |-> envelopes, nonce |-> r,
                    status |-> StatusAt(reach), lapsed |-> FALSE]
  OBVIOUS
<1>1. LedgerTypeOK /\ CoreInv /\ kind \in {"human_approval", "policy"}
  BY DEF GrantInv, IInv, CoreInv, TypeOK, AuthKinds
<1>2. /\ cards' = [cards EXCEPT ![p] = Append(@, c)]
      /\ auths' = auths \cup {b}
      /\ visible' = RoomAt(p, NextSeq(p), reach)
      /\ state' = [state EXCEPT ![p] = StateAt(p, reach, target)]
  BY <1>0 DEF Issue, SealDecision, CardTypeOf
<1>3. /\ c \in Cards /\ c.type = CardTypeOf(kind) /\ c.ref = r
      /\ c.published = done /\ c.outcome = dec
  <2>1. CardTypeOf(kind) \in CardTypes /\ dec \in Outcomes(CardTypeOf(kind))
    BY DEF CardTypeOf, CardTypes, Outcomes, AuthKinds
  <2>2. NewCard(CardTypeOf(kind), dec, r) \in Cards
    BY <2>1, NewCardType
  <2> QED
    BY <2>2 DEF Cards, NewCard
<1> HIDE DEF c
<1>4. visible \subseteq visible'
  BY <1>2 DEF RoomAt
<1>5. /\ Kept
      /\ \A q \in Proposals : \A s \in DOMAIN cards[q] :
           s \in DOMAIN cards'[q] /\ cards'[q][s] = cards[q][s]
      /\ \A q \in Proposals : \A s \in DOMAIN cards'[q] :
           s \in DOMAIN cards[q] \/ (q = p /\ s = NextSeq(p))
      /\ NextSeq(p) \in DOMAIN cards'[p] /\ NextSeq(p) \notin DOMAIN cards[p]
      /\ cards'[p][NextSeq(p)] = c
      /\ \A s \in DOMAIN cards[p] : s < NextSeq(p)
  BY <1>1, <1>2, <1>3, <1>4, SealKept
<1>6. DecisionsInv'
  <2>1. CASE kind = "human_approval"
    BY <1>3, <1>5, <2>1, DecisionAdded DEF CardTypeOf
  <2>2. CASE kind = "policy"
    <3>1. DecisionsSame
      BY <1>3, <1>5, <2>2 DEF DecisionsSame, CardTypeOf
    <3> QED
      BY <1>1, <1>5, <3>1, DecisionsCarried DEF GrantInv
  <2> QED
    BY <1>1, <2>1, <2>2
<1>7. RowsInv'
  <2>1. \A a \in auths : RowOK(a)'
    BY <1>1, <1>5, RowCard, RowCarried DEF GrantInv, RowsInv
  <2>2. RowOK(b)'
    <3>1. envelopes \in DOMAIN cards[p]
      BY DEF IsPlanInForce, IsPublishedPlan
    <3>2. Granted(b) <=> done
      BY <1>0 DEF Granted, StatusAt
    <3>3. b.status = "PENDING" <=> ~ done
      BY <1>0 DEF StatusAt
    <3>4. done => <<p, NextSeq(p)>> \in visible'
      BY <1>2 DEF RoomAt
    <3> QED
      BY <1>0, <1>1, <1>3, <1>5, <3>1, <3>2, <3>3, <3>4 DEF RowOK
  <2>3. OneRowPerCard'
    <3>1. \A x \in auths : ~ (x.prop = p /\ x.card = NextSeq(p))
      BY <1>1, <1>5, RowCard
    <3>2. b.prop = p /\ b.card = NextSeq(p)
      BY <1>0
    <3>3. OneRowPerCard
      BY DEF GrantInv, RowsInv
    <3> QED
      BY <1>2, <3>1, <3>2, <3>3 DEF OneRowPerCard
  <2> QED
    BY <1>2, <2>1, <2>2, <2>3 DEF RowsInv
<1>8. GrantExplainsState'
  <2>1. /\ \A q \in Proposals : q # p => state'[q] = state[q]
        /\ state'[p] = IF done THEN target ELSE "PLANNED"
    BY <1>1, <1>2 DEF LedgerTypeOK, StateAt
  <2>2. /\ b \in auths' /\ b.prop = p /\ b.kind = kind
        /\ Granted(b) <=> done
    BY <1>0, <1>2 DEF Granted, StatusAt
  <2> QED
    BY <1>2, <2>1, <2>2, RowPublished
<1> QED
  BY <1>6, <1>7, <1>8 DEF GrantInv

\* A retry publishes the card of its own row and no other.
LEMMA RepublishGrant ==
  ASSUME GrantInv, IInv', Effects, NEW a \in auths, NEW reach,
         Republish(a, reach)
  PROVE  GrantInv'
<1> DEFINE done == reach = "advanced"
           target == IF a.kind = "policy" THEN "AUTHORIZED" ELSE "APPROVED"
<1>0. PICK b : b = [a EXCEPT !.status = StatusAt(reach)]
  OBVIOUS
<1>1. /\ LedgerTypeOK /\ CoreInv
      /\ a \in AuthRows /\ a.prop \in Proposals
      /\ a.card \in DOMAIN cards[a.prop]
      /\ RowOK(a)
  BY RowCard DEF GrantInv, IInv, CoreInv, TypeOK, RowsInv
<1>2. /\ reach \in {"posted", "advanced"}
      /\ a.status = "PENDING"
      /\ state[a.prop] = "PLANNED"
      /\ Publish(a.prop, a.card, done)
      /\ auths' = (auths \ {a}) \cup {b}
      /\ visible' = visible \cup {<<a.prop, a.card>>}
      /\ state' = [state EXCEPT ![a.prop] = StateAt(a.prop, reach, target)]
      /\ nonce' = nonce
  BY <1>0 DEF Republish, RoomAt
<1>3. /\ \A q \in Proposals : q # a.prop => cards'[q] = cards[q]
      /\ \A q \in Proposals : DOMAIN cards'[q] = DOMAIN cards[q]
      /\ \A t \in DOMAIN cards[a.prop] :
           t # a.card => cards'[a.prop][t] = cards[a.prop][t]
      /\ cards'[a.prop][a.card].published = done
      /\ cards'[a.prop][a.card].outcome = cards[a.prop][a.card].outcome
  BY <1>1, <1>2, PublishFacts
<1>4. Kept /\ DecisionsSame
  BY <1>2, <1>3 DEF Kept, OutcomesKept, ClosedKept, DecisionsSame
<1>5. DecisionsInv'
  BY <1>1, <1>4, DecisionsCarried DEF GrantInv
<1>6. /\ b.prop = a.prop /\ b.card = a.card /\ b.kind = a.kind
      /\ b.envelopes = a.envelopes /\ b.nonce = a.nonce
      /\ b.status = StatusAt(reach)
  BY <1>0, <1>1 DEF AuthRows
<1>7. RowsInv'
  <2>1. ASSUME NEW x \in auths, x # a
        PROVE  RowOK(x)'
    <3>1. x.prop \in Proposals /\ x.card \in DOMAIN cards[x.prop]
      BY <1>1, RowCard
    <3>2. x.prop # a.prop \/ x.card # a.card
      BY <2>1 DEF GrantInv, RowsInv, OneRowPerCard
    <3>3. cards'[x.prop][x.card].published = cards[x.prop][x.card].published
      BY <1>3, <3>1, <3>2
    <3> QED
      BY <1>1, <1>4, <3>3, RowCarried DEF GrantInv, RowsInv
  <2>2. RowOK(b)'
    <3>1. cards'[b.prop][b.card].outcome =
            IF b.kind = "policy" THEN "none" ELSE "APPROVED"
      BY <1>1, <1>3, <1>6 DEF RowOK
    <3>2. b.kind = "human_approval" =>
            b.nonce \in Nonces /\ nonce'[b.prop][b.nonce].status = "consumed"
      BY <1>1, <1>2, <1>6 DEF RowOK
    <3>3. (Granted(b) <=> done) /\ (b.status = "PENDING" <=> ~ done)
      BY <1>6 DEF Granted, StatusAt
    <3> QED
      BY <1>1, <1>2, <1>3, <1>6, <3>1, <3>2, <3>3 DEF RowOK
  <2>3. OneRowPerCard'
    BY <1>2, <1>6 DEF GrantInv, RowsInv, OneRowPerCard
  <2> QED
    BY <1>2, <2>1, <2>2, <2>3 DEF RowsInv
<1>8. GrantExplainsState'
  <2>1. /\ \A q \in Proposals : q # a.prop => state'[q] = state[q]
        /\ state'[a.prop] = IF done THEN target ELSE "PLANNED"
    BY <1>1, <1>2 DEF LedgerTypeOK, StateAt
  <2>2. /\ b \in auths' /\ b.prop = a.prop /\ b.kind = a.kind
        /\ Granted(b) <=> done
        /\ ~ Granted(a)
    BY <1>2, <1>6 DEF Granted, StatusAt
  <2> QED
    BY <1>1, <1>2, <2>1, <2>2, RowPublished
<1> QED
  BY <1>5, <1>7, <1>8 DEF GrantInv

\* A row is spent or runs out.
LEMMA RowGrant ==
  ASSUME GrantInv, IInv', Effects, NEW a \in auths,
         ConsumeAuthorization(a) \/ LapseAuthorization(a)
  PROVE  GrantInv'
<1>1. UNCHANGED <<state, cards, visible, nonce>>
  BY DEF ConsumeAuthorization, LapseAuthorization, ledgerVars
<1>2. CoreInv /\ a \in AuthRows /\ RowOK(a)
  BY RowCard DEF GrantInv, IInv, RowsInv
<1>3. Kept /\ DecisionsSame
  BY <1>1 DEF Kept, OutcomesKept, ClosedKept, DecisionsSame
<1>4. PICK b : /\ auths' = (auths \ {a}) \cup {b}
               /\ \/ b = [a EXCEPT !.status = "CONSUMED"] /\ a.status = "PUBLISHED"
                  \/ b = [a EXCEPT !.lapsed = TRUE]
  BY DEF ConsumeAuthorization, LapseAuthorization
<1>5. /\ b.prop = a.prop /\ b.kind = a.kind /\ b.card = a.card
      /\ b.envelopes = a.envelopes /\ b.nonce = a.nonce
      /\ \/ b.status = a.status
         \/ b.status = "CONSUMED" /\ a.status = "PUBLISHED"
  BY <1>2, <1>4 DEF AuthRows
<1>6. Granted(b) <=> Granted(a)
  BY <1>5 DEF Granted
<1>7. RowsInv'
  <2>1. \A x \in auths : RowOK(x)'
    BY <1>1, <1>2, <1>3, RowCarried DEF GrantInv, RowsInv
  <2>2. RowOK(b)'
    BY <1>1, <1>2, <1>5, <1>6 DEF RowOK
  <2>3. OneRowPerCard'
    BY <1>4, <1>5 DEF GrantInv, RowsInv, OneRowPerCard
  <2> QED
    BY <1>4, <2>1, <2>2, <2>3 DEF RowsInv
<1>8. DecisionsInv'
  BY <1>2, <1>3, DecisionsCarried DEF GrantInv
<1>9. GrantExplainsState'
  <2>1. \A x \in auths' : Granted(x) =>
          \E y \in auths : Granted(y) /\ y.prop = x.prop /\ y.kind = x.kind
    BY <1>4, <1>5, <1>6
  <2>2. \A x \in auths : Granted(x) =>
          \E y \in auths' : Granted(y) /\ y.prop = x.prop
    BY <1>4, <1>5, <1>6
  <2> QED
    BY <1>1, <2>1, <2>2, ExplanationCarried DEF GrantInv
<1> QED
  BY <1>7, <1>8, <1>9 DEF GrantInv

-----------------------------------------------------------------------------
(***************************************************************************)
(* The theorems.                                                           *)
(***************************************************************************)

LEMMA GrantStep ==
  ASSUME GrantInv, [Next]_vars
  PROVE  GrantInv'
<1>0. CoreInv /\ OneGrantPerProposal
  BY DEF GrantInv, IInv
<1>1. IInv' /\ Effects
  BY <1>0, NextStep, CoreStutters DEF IInv, StepOK
<1>2. CASE LedgerStep
  BY <1>1, <1>2, LedgerGrant
<1>3. CASE HumanStep
  <2>0. PICK p \in Proposals, n \in Nonces :
          \E s \in DOMAIN cards[p] :
            \/ CreateNonce(p, n, s)
            \/ \E plan \in DOMAIN cards[p], reach \in Reaches :
                 ConsumeNonce(p, n, plan, s, reach)
            \/ Revise(p, n, s)
            \/ FalseAlarm(p, n, s)
    BY <1>3 DEF HumanStep
  <2>1. PICK s \in DOMAIN cards[p] :
          \/ CreateNonce(p, n, s)
          \/ \E plan \in DOMAIN cards[p], reach \in Reaches :
               ConsumeNonce(p, n, plan, s, reach)
          \/ Revise(p, n, s)
          \/ FalseAlarm(p, n, s)
    BY <2>0
  <2>2. CASE CreateNonce(p, n, s)
    BY <1>1, <2>2, NonceGrant
  <2>3. ASSUME NEW plan \in DOMAIN cards[p], NEW reach \in Reaches,
               ConsumeNonce(p, n, plan, s, reach)
        PROVE  GrantInv'
    <3>1. /\ state[p] = "PLANNED"
          /\ NonceValid(p, n, plan)
          /\ IsPlanInForce(p, s)
          /\ Issue(p, "human_approval", plan, s, n, reach)
          /\ nonce' = [nonce EXCEPT ![p][n].status = "consumed"]
      BY <2>3 DEF ConsumeNonce
    <3>2. /\ ClosedKept
          /\ ~ Closed(p, n) /\ Closed(p, n)'
          /\ nonce'[p][n].challenged /\ nonce'[p][n].status = "consumed"
      BY <1>0, <3>1, NonceClosed
    <3>3. n \in Refs(CardTypeOf("human_approval")) /\ "human_approval" \in AuthKinds
      BY DEF CardTypeOf, Refs, AuthKinds
    <3> QED
      BY <1>1, <3>1, <3>2, <3>3, IssueGrant
  <2>4. CASE Revise(p, n, s)
    BY <1>1, <2>4, OverruleGrant DEF Revise
  <2>5. CASE FalseAlarm(p, n, s)
    BY <1>1, <2>5, OverruleGrant DEF FalseAlarm
  <2> QED
    BY <2>1, <2>2, <2>3, <2>4, <2>5
<1>4. CASE ClockStep
  BY <1>1, <1>4, NonceGrant, RowGrant DEF ClockStep
<1>5. CASE GatewayStep
  <2>1. CASE \E p \in Proposals, n \in Nonces : PostChallenge(p, n)
    BY <1>1, <2>1, NonceGrant
  <2>2. ASSUME NEW p \in Proposals, NEW s \in DOMAIN cards[p],
               NEW reach \in Reaches, NotifyDecision(p, s, reach)
        PROVE  GrantInv'
    BY <1>1, <2>2, NotifyGrant
  <2>3. ASSUME NEW p \in Proposals, NEW s \in DOMAIN cards[p],
               NEW reach \in Reaches, RequestPolicy(p, s, reach)
        PROVE  GrantInv'
    <3>1. /\ state[p] = "PLANNED"
          /\ IsPlanInForce(p, s)
          /\ Issue(p, "policy", s, s, "none", reach)
          /\ nonce' = nonce
      BY <2>3 DEF RequestPolicy
    <3>2. "none" \in Refs(CardTypeOf("policy")) /\ "policy" \in AuthKinds
      BY DEF CardTypeOf, Refs, AuthKinds
    <3>3. ClosedKept
      BY <3>1 DEF ClosedKept
    <3> QED
      BY <1>1, <3>1, <3>2, <3>3, IssueGrant
  <2>4. ASSUME NEW a \in auths, NEW reach \in Reaches,
               ResumePending(a, reach) \/ RetryPolicy(a, reach)
        PROVE  GrantInv'
    BY <1>1, <2>4, RepublishGrant DEF ResumePending, RetryPolicy
  <2>5. CASE \E a \in auths : ConsumeAuthorization(a)
    BY <1>1, <2>5, RowGrant
  <2> QED
    BY <1>5, <2>1, <2>2, <2>3, <2>4, <2>5 DEF GatewayStep
<1>6. CASE UNCHANGED vars
  <2>1. UNCHANGED <<state, cards, visible, nonce, auths>>
    BY <1>6 DEF vars
  <2> QED
    BY <1>1, <2>1, QuietGrant DEF ClosedKept
<1> QED
  BY <1>2, <1>3, <1>4, <1>5, <1>6 DEF Next

LEMMA GrantStarts == Init => GrantInv
<1> SUFFICES ASSUME Init  PROVE GrantInv
  OBVIOUS
<1>1. \A p \in Proposals : cards[p] = <<>> /\ state[p] = "ABSENT"
  BY DEF Init, LedgerInit
<1>2. RowsInv
  BY DEF Init, RowsInv, OneRowPerCard
<1>3. DecisionsInv
  BY <1>1 DEF DecisionsInv, OneDecisionPerNonce
<1>4. GrantExplainsState
  BY <1>1 DEF Init, GrantExplainsState, GrantsOf, Settled
<1> QED
  BY <1>2, <1>3, <1>4, CoreStarts DEF GrantInv

\* The inductive invariant of one lifetime of the gateway.
THEOREM GrantCorrect == Spec => []GrantInv
<1>1. Init => GrantInv
  BY GrantStarts
<1>2. GrantInv /\ [Next]_vars => GrantInv'
  BY GrantStep
<1> QED
  BY <1>1, <1>2, PTL DEF Spec

\* However the two transactions of a handler and the post between them fail, a
\* proposal is approved, authorized or beyond exactly when it has a published
\* authorization, of the kind its state names.
THEOREM ExplainsCorrect == Spec => []GrantExplainsState
<1>1. GrantInv => GrantExplainsState
  BY DEF GrantInv
<1> QED
  BY <1>1, GrantCorrect, PTL

\* A nonce backs one human decision, taken after its challenge was posted, for
\* any number of nonces, retries and decisions.
THEOREM OneDecisionCorrect == Spec => []OneDecisionPerNonce
<1>1. GrantInv => OneDecisionPerNonce
  BY DEF GrantInv, DecisionsInv
<1> QED
  BY <1>1, GrantCorrect, PTL

\* No authorization is published before its card is out, in whatever order
\* posts fail and are retried.
THEOREM VisibleCorrect == Spec => []GrantIsVisible
<1>1. GrantInv => GrantIsVisible
  BY RowCard DEF GrantInv, IInv, RowsInv, RowOK, GrantIsVisible
<1> QED
  BY <1>1, GrantCorrect, PTL

\* The retry of a PENDING authorization is never refused while its proposal
\* waits for the same plan.
THEOREM RetryCorrect == Spec => []PendingCanBeRetried
<1>1. GrantInv => PendingCanBeRetried
  BY RowCard DEF GrantInv, IInv, RowsInv, RowOK, PendingCanBeRetried
<1> QED
  BY <1>1, GrantCorrect, PTL

-----------------------------------------------------------------------------
(***************************************************************************)
(* The gateway implements ExecutionAuthority.                              *)
(***************************************************************************)

\* The plan in force is unique, and its position no less than 1.
PlanIsUnique ==
  \A p \in Proposals :
    /\ \A s : IsPlanInForce(p, s) => PlanInForce(p) = s /\ s \in Nat \ {0}
    /\ (\A s : ~ IsPlanInForce(p, s)) => PlanInForce(p) = 0

LEMMA InForceIs == LedgerTypeOK => PlanIsUnique
<1> SUFFICES ASSUME LedgerTypeOK, NEW p \in Proposals
             PROVE  /\ \A s : IsPlanInForce(p, s) =>
                          PlanInForce(p) = s /\ s \in Nat \ {0}
                    /\ (\A s : ~ IsPlanInForce(p, s)) => PlanInForce(p) = 0
  BY DEF PlanIsUnique
<1>1. DOMAIN cards[p] \subseteq Nat \ {0}
  <2>1. cards[p] \in Seq(Cards)
    BY DEF LedgerTypeOK
  <2> QED
    BY <2>1
<1>2. ASSUME NEW s, IsPlanInForce(p, s)
      PROVE  PlanInForce(p) = s /\ s \in Nat \ {0}
  <2>1. s \in DOMAIN cards[p] /\ s \in Nat \ {0}
    BY <1>1, <1>2 DEF IsPlanInForce, IsPublishedPlan
  <2>2. \A t \in DOMAIN cards[p] : IsPlanInForce(p, t) => t = s
    BY <1>1, <1>2, <2>1 DEF IsPlanInForce
  <2> QED
    BY <1>2, <2>1, <2>2 DEF PlanInForce
<1>3. (\A s : ~ IsPlanInForce(p, s)) => PlanInForce(p) = 0
  BY DEF PlanInForce
<1> QED
  BY <1>2, <1>3

LEMMA InForceWillBe == LedgerTypeOK' => PlanIsUnique'
  BY InForceIs, PTL

LEMMA PlanKept ==
  ASSUME LedgerTypeOK, LedgerTypeOK', NEW p \in Proposals, PlansSame(p)
  PROVE  PlanInForce(p)' = PlanInForce(p)
<1>1. \A s : IsPlanInForce(p, s)' <=> IsPlanInForce(p, s)
  BY DEF PlansSame, IsPlanInForce, IsPublishedPlan
<1>2. /\ \A s : IsPlanInForce(p, s) => PlanInForce(p) = s
      /\ (\A s : ~ IsPlanInForce(p, s)) => PlanInForce(p) = 0
  BY InForceIs DEF PlanIsUnique
<1>3. /\ \A s : IsPlanInForce(p, s)' => PlanInForce(p)' = s
      /\ (\A s : ~ IsPlanInForce(p, s)') => PlanInForce(p)' = 0
  BY InForceWillBe DEF PlanIsUnique
<1> QED
  BY <1>1, <1>2, <1>3

\* The grant of a proposal is unique, and so is what was spent of it.
GrantIsUnique ==
  /\ \A a \in auths : Granted(a) =>
       /\ GrantsOf(a.prop) = {a}
       /\ GrantCard(a.prop) = a.card
       /\ SpendingsOf(a.prop) =
            IF a.status = "CONSUMED"
            THEN {[card |-> a.card, authorised |-> a.plan,
                   executed |-> a.envelopes]}
            ELSE {}
  /\ \A p \in Proposals :
       GrantsOf(p) = {} => GrantCard(p) = 0 /\ SpendingsOf(p) = {}

LEMMA GrantUnique == OneGrantPerProposal => GrantIsUnique
<1> SUFFICES ASSUME OneGrantPerProposal  PROVE GrantIsUnique
  OBVIOUS
<1>1. ASSUME NEW a \in auths, Granted(a)
      PROVE  /\ GrantsOf(a.prop) = {a}
             /\ GrantCard(a.prop) = a.card
             /\ SpendingsOf(a.prop) =
                  IF a.status = "CONSUMED"
                  THEN {[card |-> a.card, authorised |-> a.plan,
                         executed |-> a.envelopes]}
                  ELSE {}
  <2>1. GrantsOf(a.prop) = {a}
    BY <1>1 DEF OneGrantPerProposal, GrantsOf
  <2>2. GrantCard(a.prop) = a.card
    BY <2>1 DEF GrantCard
  <2>3. CASE a.status = "CONSUMED"
    <3>1. {b \in GrantsOf(a.prop) : b.status = "CONSUMED"} = {a}
      BY <2>1, <2>3
    <3> QED
      BY <2>1, <2>2, <2>3, <3>1 DEF SpendingsOf
  <2>4. CASE a.status # "CONSUMED"
    <3>1. {b \in GrantsOf(a.prop) : b.status = "CONSUMED"} = {}
      BY <2>1, <2>4
    <3> QED
      BY <2>1, <2>2, <2>4, <3>1 DEF SpendingsOf
  <2> QED
    BY <2>3, <2>4
<1>2. \A p \in Proposals :
        GrantsOf(p) = {} => GrantCard(p) = 0 /\ SpendingsOf(p) = {}
  BY DEF GrantCard, SpendingsOf
<1> QED
  BY <1>1, <1>2 DEF GrantIsUnique

LEMMA GrantWillBe == OneGrantPerProposal' => GrantIsUnique'
  BY GrantUnique, PTL

GrantSame(p) ==
  GrantCard(p)' = GrantCard(p) /\ SpendingsOf(p)' = SpendingsOf(p)

LEMMA GrantKept ==
  ASSUME NEW p \in Proposals, GrantsOf(p)' = GrantsOf(p)
  PROVE  GrantSame(p)
  BY DEF GrantSame, GrantCard, SpendingsOf

Unmoved(p) == PlanInForce(p)' = PlanInForce(p) /\ GrantSame(p)

MapsToStep == [Authority!AuthNext]_(Authority!authVars)

LEMMA MapsToStutter ==
  ASSUME \A p \in Proposals : Unmoved(p)
  PROVE  MapsToStep
  BY DEF MapsToStep, Unmoved, GrantSame, Authority!authVars

LEMMA MapsToAdopt ==
  ASSUME NEW p \in Proposals, \A q \in Proposals : q # p => Unmoved(q),
         GrantCard(p) = 0, GrantSame(p), PlanInForce(p)' > PlanInForce(p)
  PROVE  MapsToStep
<1>1. Authority!Adopt(p)
  BY DEF Authority!Adopt, Unmoved, GrantSame
<1> QED
  BY <1>1 DEF MapsToStep, Authority!AuthNext

LEMMA MapsToGrant ==
  ASSUME NEW p \in Proposals, \A q \in Proposals : q # p => Unmoved(q),
         GrantCard(p) = 0, PlanInForce(p) # 0,
         PlanInForce(p)' = PlanInForce(p),
         GrantCard(p)' > PlanInForce(p), SpendingsOf(p)' = SpendingsOf(p)
  PROVE  MapsToStep
<1>1. Authority!Grant(p)
  BY DEF Authority!Grant, Unmoved, GrantSame
<1> QED
  BY <1>1 DEF MapsToStep, Authority!AuthNext

LEMMA MapsToSpend ==
  ASSUME NEW p \in Proposals, \A q \in Proposals : q # p => Unmoved(q),
         GrantCard(p) # 0, SpendingsOf(p) = {},
         PlanInForce(p)' = PlanInForce(p), GrantCard(p)' = GrantCard(p),
         SpendingsOf(p)' = {[card |-> GrantCard(p), authorised |-> PlanInForce(p),
                             executed |-> PlanInForce(p)]}
  PROVE  MapsToStep
<1>1. Authority!Spend(p)
  BY DEF Authority!Spend, Unmoved, GrantSame
<1> QED
  BY <1>1 DEF MapsToStep, Authority!AuthNext

\* Whatever changes neither the published plans nor the rows.
LEMMA MapsQuiet ==
  ASSUME GrantInv, GrantInv', \A p \in Proposals : PlansSame(p),
         \A p \in Proposals : GrantsOf(p)' = GrantsOf(p)
  PROVE  MapsToStep
<1>1. LedgerTypeOK /\ LedgerTypeOK'
  BY DEF GrantInv, IInv, CoreInv, TypeOK
<1>2. \A p \in Proposals : Unmoved(p)
  BY <1>1, PlanKept, GrantKept DEF Unmoved
<1> QED
  BY <1>2, MapsToStutter

\* A row b that comes, or takes the place of a row not granted: it grants, or
\* nothing is seen of it.
LEMMA MapsIssue ==
  ASSUME GrantInv, GrantInv', \A p \in Proposals : PlansSame(p),
         NEW p \in Proposals, NEW b \in auths', b.prop = p,
         b.status # "CONSUMED",
         state[p] = "PLANNED", NEW s, IsPlanInForce(p, s), b.card > s,
         \A x \in auths' : x \in auths \/ x = b,
         \A x \in auths : x \in auths' \/ (x.prop = p /\ ~ Granted(x))
  PROVE  MapsToStep
<1>1. LedgerTypeOK /\ LedgerTypeOK' /\ OneGrantPerProposal /\ OneGrantPerProposal'
  BY DEF GrantInv, IInv, CoreInv, TypeOK
<1>2. \A x \in auths : x.prop = p => ~ Granted(x)
  BY DEF GrantInv, IInv, CoreInv, AuthOK, Settled
<1>3. CASE ~ Granted(b)
  <2>1. \A q \in Proposals : GrantsOf(q)' = GrantsOf(q)
    BY <1>2, <1>3 DEF GrantsOf
  <2> QED
    BY <2>1, MapsQuiet
<1>4. CASE Granted(b)
  <2>1. \A q \in Proposals : q # p => GrantsOf(q)' = GrantsOf(q)
    BY <1>2 DEF GrantsOf
  <2>2. \A q \in Proposals : PlanInForce(q)' = PlanInForce(q)
    BY <1>1, PlanKept
  <2>3. \A q \in Proposals : q # p => Unmoved(q)
    BY <2>1, <2>2, GrantKept DEF Unmoved
  <2>4. GrantsOf(p) = {}
    BY <1>2 DEF GrantsOf
  <2>5. GrantCard(p) = 0 /\ SpendingsOf(p) = {}
    BY <1>1, <2>4, GrantUnique DEF GrantIsUnique
  <2>7. GrantCard(p)' = b.card /\ SpendingsOf(p)' = {}
    BY <1>1, <1>4, GrantWillBe DEF GrantIsUnique
  <2>6. PlanInForce(p) = s /\ s \in Nat \ {0}
    BY <1>1, InForceIs DEF PlanIsUnique
  <2> QED
    BY <2>2, <2>3, <2>5, <2>6, <2>7, MapsToGrant
<1> QED
  BY <1>3, <1>4

\* The cards and the rows stay as they are.
LEMMA MapsNothing ==
  ASSUME GrantInv, GrantInv', cards' = cards, auths' = auths
  PROVE  MapsToStep
<1>1. \A p \in Proposals : PlansSame(p) /\ GrantsOf(p)' = GrantsOf(p)
  BY DEF PlansSame, IsPublishedPlan, GrantsOf
<1> QED
  BY <1>1, MapsQuiet

\* A card that is not a published plan is sealed, and no row with it.
LEMMA MapsSeal ==
  ASSUME GrantInv, GrantInv', NEW p \in Proposals, NEW c \in Cards,
         c.type = "ResponsePlan" => ~ c.published,
         cards' = [cards EXCEPT ![p] = Append(@, c)], auths' = auths
  PROVE  MapsToStep
<1>1. LedgerTypeOK
  BY DEF GrantInv, IInv, CoreInv, TypeOK
<1>2. \A q \in Proposals : PlansSame(q)
  BY <1>1, SealEffects
<1>3. \A q \in Proposals : GrantsOf(q)' = GrantsOf(q)
  BY DEF GrantsOf
<1> QED
  BY <1>2, <1>3, MapsQuiet

\* A card that is not a plan is published, and no row with it.
LEMMA MapsPublish ==
  ASSUME GrantInv, GrantInv', NEW p \in Proposals, NEW s \in DOMAIN cards[p],
         cards[p][s].type # "ResponsePlan", NEW b \in BOOLEAN,
         Publish(p, s, b), auths' = auths
  PROVE  MapsToStep
<1>1. LedgerTypeOK
  BY DEF GrantInv, IInv, CoreInv, TypeOK
<1>2. \A q \in Proposals : PlansSame(q)
  BY <1>1, PublishEffects
<1>3. \A q \in Proposals : GrantsOf(q)' = GrantsOf(q)
  BY DEF GrantsOf
<1> QED
  BY <1>2, <1>3, MapsQuiet

\* A plan is confirmed: nothing is granted, and it is newer than any before.
LEMMA MapsPlan ==
  ASSUME GrantInv, GrantInv', NEW p \in Proposals, NEW s \in DOMAIN cards[p],
         cards[p][s].type = "ResponsePlan", Confirm(p, s), auths' = auths
  PROVE  MapsToStep
<1>1. LedgerTypeOK /\ LedgerTypeOK' /\ OneGrantPerProposal
  BY DEF GrantInv, IInv, CoreInv, TypeOK
<1>2. /\ Publish(p, s, TRUE)
      /\ state[p] \in Prerequisite(cards[p][s].type)
      /\ ~ NewerConfirmed(p, s)
      /\ ~ cards[p][s].published
  BY DEF Confirm, Allowed
<1>3. /\ \A q \in Proposals : q # p => cards'[q] = cards[q]
      /\ \A q \in Proposals : DOMAIN cards'[q] = DOMAIN cards[q]
      /\ DOMAIN cards[p] \subseteq Nat \ {0}
      /\ \A t \in DOMAIN cards[p] : t # s => cards'[p][t] = cards[p][t]
      /\ cards'[p][s].published
      /\ cards'[p][s].type = cards[p][s].type
  BY <1>1, <1>2, PublishFacts
<1>4. \A q \in Proposals : GrantsOf(q)' = GrantsOf(q)
  BY DEF GrantsOf
<1>5. GrantSame(p) /\ \A q \in Proposals : q # p => Unmoved(q)
  <2>1. \A q \in Proposals : GrantSame(q)
    BY <1>4, GrantKept
  <2>2. \A q \in Proposals : q # p => PlansSame(q)
    BY <1>3 DEF PlansSame, IsPublishedPlan
  <2> QED
    BY <1>1, <2>1, <2>2, PlanKept DEF Unmoved
<1>6. GrantCard(p) = 0
  <2>1. cards[p][s] \in Cards
    BY <1>1, ChainHoldsCards
  <2>2. state[p] \notin Settled
    BY <1>2, <2>1, SettledTypes
  <2>3. GrantsOf(p) = {}
    BY <2>2 DEF GrantInv, GrantExplainsState
  <2> QED
    BY <1>1, <2>3, GrantUnique DEF GrantIsUnique
<1>7. \A t \in DOMAIN cards[p] : cards[p][t].published => t < s
  BY <1>2, <1>3 DEF NewerConfirmed
<1>8. PlanInForce(p)' = s
  <2>1. IsPublishedPlan(p, s)'
    BY <1>3 DEF IsPublishedPlan
  <2>2. \A t \in DOMAIN cards'[p] : IsPublishedPlan(p, t)' => t <= s
    BY <1>3, <1>7 DEF IsPublishedPlan
  <2>3. IsPlanInForce(p, s)'
    BY <2>1, <2>2 DEF IsPlanInForce
  <2> QED
    BY <1>1, <2>3, InForceWillBe DEF PlanIsUnique
<1>9. s > PlanInForce(p)
  <2>1. CASE \A t : ~ IsPlanInForce(p, t)
    BY <1>1, <1>3, <2>1, InForceIs DEF PlanIsUnique
  <2>2. CASE \E t : IsPlanInForce(p, t)
    <3>1. PICK t : IsPlanInForce(p, t)
      BY <2>2
    <3>2. t \in DOMAIN cards[p] /\ t < s
      BY <1>7, <3>1 DEF IsPlanInForce, IsPublishedPlan
    <3>3. PlanInForce(p) = t
      BY <1>1, <3>1, InForceIs DEF PlanIsUnique
    <3> QED
      BY <1>3, <3>2, <3>3
  <2> QED
    BY <2>1, <2>2
<1> QED
  BY <1>5, <1>6, <1>8, <1>9, MapsToAdopt

LEMMA MapsLedger ==
  ASSUME GrantInv, GrantInv', LedgerStep
  PROVE  MapsToStep
<1>0. LedgerNext /\ auths' = auths
  BY DEF LedgerStep, authorityVars
<1>1. PICK p \in Proposals :
        \/ \E t \in CardTypes : \E o \in Outcomes(t), r \in Refs(t) :
             Prepare(p, t, o, r)
        \/ \E s \in DOMAIN cards[p] : PostToRoom(p, s)
        \/ \E s \in DOMAIN cards[p] : Confirm(p, s)
  BY <1>0 DEF LedgerNext
<1>2. ASSUME NEW t \in CardTypes, NEW o \in Outcomes(t), NEW r \in Refs(t),
             Prepare(p, t, o, r)
      PROVE  MapsToStep
  <2> DEFINE c == NewCard(t, o, r)
  <2>1. c \in Cards /\ ~ c.published
    BY NewCardType DEF NewCard
  <2>2. cards' = [cards EXCEPT ![p] = Append(@, c)]
    BY <1>2 DEF Prepare, Seal
  <2> HIDE DEF c
  <2> QED
    BY <1>0, <2>1, <2>2, MapsSeal
<1>3. CASE \E s \in DOMAIN cards[p] : PostToRoom(p, s)
  BY <1>0, <1>3, MapsNothing DEF PostToRoom
<1>4. ASSUME NEW s \in DOMAIN cards[p], Confirm(p, s)
      PROVE  MapsToStep
  <2>1. Publish(p, s, TRUE)
    BY <1>4 DEF Confirm
  <2>2. CASE cards[p][s].type = "ResponsePlan"
    BY <1>0, <1>4, <2>2, MapsPlan
  <2>3. CASE cards[p][s].type # "ResponsePlan"
    BY <1>0, <2>1, <2>3, MapsPublish
  <2> QED
    BY <2>2, <2>3
<1> QED
  BY <1>1, <1>2, <1>3, <1>4

LEMMA MapsFirst ==
  ASSUME GrantInv, GrantInv', NEW p \in Proposals, NEW kind \in AuthKinds,
         NEW plan, NEW s, NEW r \in Refs(CardTypeOf(kind)), NEW reach \in Reaches,
         state[p] = "PLANNED", IsPlanInForce(p, s),
         Issue(p, kind, plan, s, r, reach)
  PROVE  MapsToStep
<1> DEFINE dec == IF kind = "policy" THEN "none" ELSE "APPROVED"
           c == [NewCard(CardTypeOf(kind), dec, r)
                   EXCEPT !.published = (reach = "advanced")]
<1>1. LedgerTypeOK
  BY DEF GrantInv, IInv, CoreInv, TypeOK
<1>2. PICK b : b = [prop |-> p, kind |-> kind, card |-> NextSeq(p),
                    plan |-> plan, envelopes |-> s, nonce |-> r,
                    status |-> StatusAt(reach), lapsed |-> FALSE]
  OBVIOUS
<1>3. /\ cards' = [cards EXCEPT ![p] = Append(@, c)]
      /\ auths' = auths \cup {b}
  BY <1>2 DEF Issue, SealDecision, CardTypeOf
<1>4. c \in Cards /\ c.type # "ResponsePlan"
  <2>1. CardTypeOf(kind) \in CardTypes /\ dec \in Outcomes(CardTypeOf(kind))
    BY DEF CardTypeOf, CardTypes, Outcomes, AuthKinds
  <2>2. NewCard(CardTypeOf(kind), dec, r) \in Cards
    BY <2>1, NewCardType
  <2>3. CardTypeOf(kind) # "ResponsePlan"
    BY DEF CardTypeOf
  <2> QED
    BY <2>2, <2>3 DEF Cards, NewCard
<1> HIDE DEF c
<1>5. \A q \in Proposals : PlansSame(q)
  BY <1>1, <1>3, <1>4, SealEffects
<1>6. /\ b.prop = p /\ b.status # "CONSUMED" /\ b.card = NextSeq(p)
      /\ b \in auths'
  BY <1>2, <1>3 DEF StatusAt
<1>7. NextSeq(p) > s
  <2>1. s \in DOMAIN cards[p] /\ cards[p] \in Seq(Cards)
    BY <1>1 DEF IsPlanInForce, IsPublishedPlan, LedgerTypeOK
  <2> QED
    BY <2>1 DEF NextSeq
<1> QED
  BY <1>3, <1>5, <1>6, <1>7, MapsIssue

LEMMA MapsRetry ==
  ASSUME GrantInv, GrantInv', NEW a \in auths, NEW reach, Republish(a, reach)
  PROVE  MapsToStep
<1>1. /\ LedgerTypeOK /\ AuthOK(a) /\ RowOK(a) /\ a \in AuthRows
      /\ a.prop \in Proposals
  BY DEF GrantInv, IInv, CoreInv, TypeOK, RowsInv, AuthRows
<1>2. PICK b : b = [a EXCEPT !.status = StatusAt(reach)]
  OBVIOUS
<1>3. /\ state[a.prop] = "PLANNED" /\ a.status = "PENDING"
      /\ IsPlanInForce(a.prop, a.plan)
      /\ Publish(a.prop, a.card, reach = "advanced")
      /\ auths' = (auths \ {a}) \cup {b}
  BY <1>2 DEF Republish
<1>4. /\ a.card \in DOMAIN cards[a.prop]
      /\ cards[a.prop][a.card].type # "ResponsePlan"
  BY <1>1 DEF AuthOK, CardTypeOf
<1>5. \A q \in Proposals : PlansSame(q)
  BY <1>1, <1>3, <1>4, PublishEffects
<1>6. /\ b.prop = a.prop /\ b.card = a.card /\ b.status # "CONSUMED"
      /\ b \in auths'
  BY <1>1, <1>2, <1>3 DEF AuthRows, StatusAt
<1>7. b.card > a.plan
  BY <1>1, <1>6 DEF AuthRows, AuthOK, RowOK
<1>8. ~ Granted(a)
  BY <1>3 DEF Granted
<1> QED
  BY <1>1, <1>3, <1>5, <1>6, <1>7, <1>8, MapsIssue

\* The operator's request, and an expiry that nobody outside sees.
LEMMA MapsRow ==
  ASSUME GrantInv, GrantInv', NEW a \in auths,
         ConsumeAuthorization(a) \/ LapseAuthorization(a)
  PROVE  MapsToStep
<1>1. /\ LedgerTypeOK /\ LedgerTypeOK' /\ AuthOK(a) /\ RowOK(a)
      /\ a \in AuthRows /\ a.prop \in Proposals
      /\ OneGrantPerProposal /\ OneGrantPerProposal'
  BY DEF GrantInv, IInv, CoreInv, TypeOK, RowsInv, AuthRows
<1>2. cards' = cards
  BY DEF ConsumeAuthorization, LapseAuthorization, ledgerVars
<1>3. PICK b : /\ auths' = (auths \ {a}) \cup {b}
               /\ \/ /\ b = [a EXCEPT !.status = "CONSUMED"]
                     /\ a.status = "PUBLISHED"
                     /\ IsPlanInForce(a.prop, a.plan)
                  \/ b = [a EXCEPT !.lapsed = TRUE] /\ a.status # "CONSUMED"
  BY DEF ConsumeAuthorization, LapseAuthorization
<1>4. /\ b.prop = a.prop /\ b.card = a.card /\ b.plan = a.plan
      /\ b.envelopes = a.envelopes
      /\ \/ /\ b.status = "CONSUMED" /\ a.status = "PUBLISHED"
            /\ IsPlanInForce(a.prop, a.plan)
         \/ b.status = a.status /\ a.status # "CONSUMED"
  BY <1>1, <1>3 DEF AuthRows
<1>5. \A q \in Proposals : PlanInForce(q)' = PlanInForce(q)
  <2>1. \A q \in Proposals : PlansSame(q)
    BY <1>2 DEF PlansSame, IsPublishedPlan
  <2> QED
    BY <1>1, <2>1, PlanKept
<1>6. \A q \in Proposals : q # a.prop => Unmoved(q)
  <2>1. \A q \in Proposals : q # a.prop => GrantsOf(q)' = GrantsOf(q)
    BY <1>3, <1>4 DEF GrantsOf
  <2> QED
    BY <1>5, <2>1, GrantKept DEF Unmoved
<1>7. CASE ~ Granted(a)
  <2>1. ~ Granted(b)
    BY <1>4, <1>7 DEF Granted
  <2>2. \A q \in Proposals : GrantsOf(q)' = GrantsOf(q)
    BY <1>3, <1>7, <2>1 DEF GrantsOf
  <2>3. \A q \in Proposals : PlansSame(q)
    BY <1>2 DEF PlansSame, IsPublishedPlan
  <2> QED
    BY <2>2, <2>3, MapsQuiet
<1>8. CASE Granted(a)
  <2>1. Granted(b) /\ b \in auths'
    BY <1>3, <1>4, <1>8 DEF Granted
  <2>2. /\ GrantCard(a.prop) = a.card
        /\ SpendingsOf(a.prop) =
             IF a.status = "CONSUMED"
             THEN {[card |-> a.card, authorised |-> a.plan,
                    executed |-> a.envelopes]}
             ELSE {}
    BY <1>1, <1>8, GrantUnique DEF GrantIsUnique
  <2>3. /\ GrantCard(b.prop)' = b.card
        /\ SpendingsOf(b.prop)' =
             IF b.status = "CONSUMED"
             THEN {[card |-> b.card, authorised |-> b.plan,
                    executed |-> b.envelopes]}
             ELSE {}
    BY <1>1, <2>1, GrantWillBe DEF GrantIsUnique
  <2>4. a.status # "CONSUMED"
    BY <1>4
  <2>5. GrantCard(a.prop)' = GrantCard(a.prop) /\ SpendingsOf(a.prop) = {}
    BY <1>4, <2>2, <2>3, <2>4
  <2>6. CASE b.status = "CONSUMED"
    <3>1. IsPlanInForce(a.prop, a.plan)
      BY <1>4, <2>4, <2>6
    <3>2. PlanInForce(a.prop) = a.plan
      BY <1>1, <3>1, InForceIs DEF PlanIsUnique
    <3>3. a.envelopes = a.plan
      <4>1. a.envelopes <= a.plan
        BY <1>1, <3>1 DEF AuthOK, IsPlanInForce, IsPublishedPlan
      <4> QED
        BY <1>1, <4>1 DEF AuthOK, AuthRows
    <3>4. GrantCard(a.prop) # 0
      BY <1>1, <2>2 DEF RowOK, AuthRows
    <3>5. SpendingsOf(a.prop)' =
            {[card |-> GrantCard(a.prop), authorised |-> PlanInForce(a.prop),
              executed |-> PlanInForce(a.prop)]}
      BY <1>4, <2>2, <2>3, <2>6, <3>2, <3>3
    <3> QED
      BY <1>1, <1>5, <1>6, <2>5, <3>4, <3>5, MapsToSpend
  <2>7. CASE b.status # "CONSUMED"
    <3>1. SpendingsOf(a.prop)' = {}
      BY <1>4, <2>3, <2>7
    <3>2. \A q \in Proposals : Unmoved(q)
      BY <1>5, <1>6, <2>5, <3>1 DEF Unmoved, GrantSame
    <3> QED
      BY <3>2, MapsToStutter
  <2> QED
    BY <2>6, <2>7
<1> QED
  BY <1>7, <1>8

\* The page's other decisions seal a card that is no plan.
LEMMA MapsOverrule ==
  ASSUME GrantInv, GrantInv', NEW p \in Proposals, NEW n \in Nonces, NEW s,
         NEW outcome \in {"REJECTED", "FALSE_ALARM"}, NEW target,
         Overrule(p, n, s, outcome, target)
  PROVE  MapsToStep
<1> DEFINE c == [NewCard("StructuredApproval", outcome, n)
                   EXCEPT !.published = FALSE]
<1>1. cards' = [cards EXCEPT ![p] = Append(@, c)] /\ auths' = auths
  BY DEF Overrule, SealDecision
<1>2. c \in Cards /\ ~ c.published
  <2>1. NewCard("StructuredApproval", outcome, n) \in Cards
    BY NewCardType DEF CardTypes, Outcomes, Refs
  <2> QED
    BY <2>1 DEF Cards, NewCard
<1> HIDE DEF c
<1> QED
  BY <1>1, <1>2, MapsSeal

\* Every step of the gateway is a step of the authority, or is not seen there.
LEMMA StepMaps ==
  ASSUME GrantInv, GrantInv', [Next]_vars
  PROVE  MapsToStep
<1>1. CASE LedgerStep
  BY <1>1, MapsLedger
<1>2. CASE HumanStep
  <2>1. PICK p \in Proposals, n \in Nonces :
          \E s \in DOMAIN cards[p] :
            \/ CreateNonce(p, n, s)
            \/ \E plan \in DOMAIN cards[p], reach \in Reaches :
                 ConsumeNonce(p, n, plan, s, reach)
            \/ Revise(p, n, s)
            \/ FalseAlarm(p, n, s)
    BY <1>2 DEF HumanStep
  <2>2. PICK s \in DOMAIN cards[p] :
          \/ CreateNonce(p, n, s)
          \/ \E plan \in DOMAIN cards[p], reach \in Reaches :
               ConsumeNonce(p, n, plan, s, reach)
          \/ Revise(p, n, s)
          \/ FalseAlarm(p, n, s)
    BY <2>1
  <2>3. CASE CreateNonce(p, n, s)
    BY <2>3, MapsNothing DEF CreateNonce, ledgerVars
  <2>4. ASSUME NEW plan, NEW reach \in Reaches, ConsumeNonce(p, n, plan, s, reach)
        PROVE  MapsToStep
    <3>1. /\ state[p] = "PLANNED"
          /\ IsPlanInForce(p, s)
          /\ Issue(p, "human_approval", plan, s, n, reach)
      BY <2>4 DEF ConsumeNonce
    <3>2. n \in Refs(CardTypeOf("human_approval")) /\ "human_approval" \in AuthKinds
      BY DEF CardTypeOf, Refs, AuthKinds
    <3> QED
      BY <3>1, <3>2, MapsFirst
  <2>5. CASE Revise(p, n, s)
    BY <2>5, MapsOverrule DEF Revise
  <2>6. CASE FalseAlarm(p, n, s)
    BY <2>6, MapsOverrule DEF FalseAlarm
  <2> QED
    BY <2>2, <2>3, <2>4, <2>5, <2>6
<1>3. CASE ClockStep
  <2>1. CASE \E p \in Proposals, n \in Nonces : LapseNonce(p, n)
    BY <2>1, MapsNothing DEF LapseNonce, ledgerVars
  <2>2. CASE \E a \in auths : LapseAuthorization(a)
    BY <2>2, MapsRow
  <2> QED
    BY <1>3, <2>1, <2>2 DEF ClockStep
<1>4. CASE GatewayStep
  <2>1. CASE \E p \in Proposals, n \in Nonces : PostChallenge(p, n)
    BY <2>1, MapsNothing DEF PostChallenge, ledgerVars
  <2>2. ASSUME NEW p \in Proposals, NEW s, NEW reach, NotifyDecision(p, s, reach)
        PROVE  MapsToStep
    <3>1. /\ s \in DOMAIN cards[p]
          /\ cards[p][s].type # "ResponsePlan"
          /\ Publish(p, s, reach = "advanced")
          /\ auths' = auths
      BY <2>2 DEF NotifyDecision, authorityVars
    <3> QED
      BY <3>1, MapsPublish
  <2>3. ASSUME NEW p \in Proposals, NEW s, NEW reach \in Reaches,
               RequestPolicy(p, s, reach)
        PROVE  MapsToStep
    <3>1. /\ state[p] = "PLANNED"
          /\ IsPlanInForce(p, s)
          /\ Issue(p, "policy", s, s, "none", reach)
      BY <2>3 DEF RequestPolicy
    <3>2. "none" \in Refs(CardTypeOf("policy")) /\ "policy" \in AuthKinds
      BY DEF CardTypeOf, Refs, AuthKinds
    <3> QED
      BY <3>1, <3>2, MapsFirst
  <2>4. ASSUME NEW a \in auths, NEW reach,
               ResumePending(a, reach) \/ RetryPolicy(a, reach)
        PROVE  MapsToStep
    BY <2>4, MapsRetry DEF ResumePending, RetryPolicy
  <2>5. CASE \E a \in auths : ConsumeAuthorization(a)
    BY <2>5, MapsRow
  <2> QED
    BY <1>4, <2>1, <2>2, <2>3, <2>4, <2>5 DEF GatewayStep
<1>5. CASE UNCHANGED vars
  BY <1>5, MapsNothing DEF vars
<1> QED
  BY <1>1, <1>2, <1>3, <1>4, <1>5 DEF Next

LEMMA InitMaps == Init => Authority!AuthInit
<1> SUFFICES ASSUME Init  PROVE Authority!AuthInit
  OBVIOUS
<1>1. \A p \in Proposals : cards[p] = <<>>
  BY DEF Init, LedgerInit
<1>2. \A p \in Proposals : PlanInForce(p) = 0
  BY <1>1 DEF PlanInForce
<1>3. \A p \in Proposals : GrantCard(p) = 0 /\ SpendingsOf(p) = {}
  BY DEF Init, GrantCard, SpendingsOf, GrantsOf
<1> QED
  BY <1>2, <1>3 DEF Authority!AuthInit

\* The gateway implements ExecutionAuthority, for any number of proposals,
\* plans, nonces, lost posts and retries in one lifetime: the operator gets at
\* most one set of envelopes, those of the plan that was authorised and is in
\* force.
THEOREM ImplementsCorrect == Spec => ExecutesWhatWasGranted
<1>1. GrantInv /\ GrantInv' /\ [Next]_vars => [Authority!AuthNext]_(Authority!authVars)
  BY StepMaps DEF MapsToStep
<1> QED
  BY <1>1, InitMaps, GrantCorrect, PTL
  DEF Spec, ExecutesWhatWasGranted, Authority!AuthSpec

=============================================================================
