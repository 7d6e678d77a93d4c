-------------------------- MODULE SubmissionProofs --------------------------
(***************************************************************************)
(* Proofs about CardSubmission: what the submission protocol promises, for *)
(* every number of proposals, keys, clients and messages.                  *)
(***************************************************************************)
EXTENDS CardSubmission, ProposalLedgerProofs

-----------------------------------------------------------------------------
(***************************************************************************)
(* The inductive invariant.                                                *)
(***************************************************************************)

\* What a confirmation has checked of a message and no room can change.
Backs(m, x) ==
  Carries(m, x) /\ (x.role = "gateway" \/ messages[m].role = x.role)

\* The row of a card knows the card it was sealed as; once it names a message,
\* the card is confirmed and the message carries it.
RowInv(x) ==
  /\ x.card \in DOMAIN cards[x.prop]
  /\ cards[x.prop][x.card].type = x.body.type
  /\ cards[x.prop][x.card].outcome = x.body.outcome
  /\ CanSubmit(x.role, x.body.type)
  /\ x.message # 0 => /\ x.message \in DOMAIN messages
                      /\ Backs(x.message, x)
                      /\ cards[x.prop][x.card].published

\* A card, a key and a message each lead to one row.
RowsDiffer ==
  \A x, y \in submissions :
    \/ x.prop = y.prop /\ x.card = y.card
    \/ x.prop = y.prop /\ x.key = y.key
    \/ x.message = y.message /\ x.message # 0
    => x = y

\* A confirmed card has a row that says with which message.
PublishedHasRow ==
  \A p \in Proposals : \A s \in DOMAIN cards[p] :
    cards[p][s].published =>
      \E x \in RowsOf(p) : x.card = s /\ x.message # 0

RowsInv ==
  /\ \A x \in submissions : RowInv(x)
  /\ RowsDiffer
  /\ PublishedHasRow

\* The states from which no Assessment is ever accepted again.
LateStates == {"REVIEWED", "ESCALATED_HUMAN", "CLOSED_FALSE_ALARM", "PLANNED",
               "REJECTED", "APPROVED", "AUTHORIZED", "EXECUTED", "RESOLVED"}

\* A plan is sealed after the last Assessment, confirmed or not.
PlansAreLate ==
  \A p \in Proposals : \A s \in DOMAIN cards[p] :
    cards[p][s].type = "ResponsePlan" => state[p] \in LateStates

SubmissionInv ==
  /\ SubmissionTypeOK /\ RowsInv
  /\ PlansAreLate /\ FloorStands
  /\ ConfirmedCardsShareRoom

-----------------------------------------------------------------------------
(***************************************************************************)
(* PrepareCard.                                                            *)
(***************************************************************************)

\* The floor of a body is one of the refs of its type, unless it is an approval,
\* which is not submitted.
LEMMA FloorType ==
  ASSUME NEW p, NEW body \in Bodies, body.type \in SubmittedTypes
  PROVE  /\ RiskFloor(p, body) \in Refs(body.type)
         /\ body.type \in CardTypes /\ body.outcome \in Outcomes(body.type)
<1>1. body.type \in CardTypes \ {"StructuredApproval"}
  BY SubmissionAssumption DEF Bodies
<1>2. body.outcome \in Outcomes(body.type)
  BY DEF Bodies
<1>3. RiskFloor(p, body) \in Refs(body.type)
  BY <1>1 DEF RiskFloor, Refs
<1> QED
  BY <1>1, <1>2, <1>3

\* What sealing a card changes, and that every card sealed before is left as it
\* was.
LEMMA PrepareCardFacts ==
  ASSUME SubmissionTypeOK, NEW p \in Proposals, NEW role \in Roles,
         NEW key \in Keys, NEW body \in Bodies, PrepareCard(p, role, key, body)
  PROVE  \E n \in Nat \ {0}, b \in Rows, r \in Refs(body.type) :
           /\ r = RiskFloor(p, body)
           /\ b = [prop |-> p, card |-> n, key |-> key, body |-> body,
                   role |-> role, message |-> 0]
           /\ submissions' = submissions \cup {b}
           /\ LedgerTypeOK'
           /\ \A q \in Proposals : q # p => cards'[q] = cards[q]
           /\ \A q \in Proposals : \A s \in DOMAIN cards[q] :
                s \in DOMAIN cards'[q] /\ cards'[q][s] = cards[q][s]
           /\ DOMAIN cards'[p] = DOMAIN cards[p] \cup {n}
           /\ n \notin DOMAIN cards[p]
           /\ \A s \in DOMAIN cards[p] : s < n
           /\ cards'[p][n] = NewCard(body.type, body.outcome, r)
           /\ n = Len(cards[p]) + 1
<1> DEFINE n == Len(cards[p]) + 1
           r == RiskFloor(p, body)
           c == NewCard(body.type, body.outcome, r)
           b == [prop |-> p, card |-> n, key |-> key, body |-> body,
                 role |-> role, message |-> 0]
<1>1. /\ Prepare(p, body.type, body.outcome, r)
      /\ submissions' = submissions \cup {b}
      /\ body.type \in SubmittedTypes
  BY DEF PrepareCard, Prepare
<1>2. /\ r \in Refs(body.type)
      /\ body.type \in CardTypes /\ body.outcome \in Outcomes(body.type)
  BY <1>1, FloorType
<1>3. c \in Cards /\ LedgerTypeOK /\ LedgerTypeOK'
  BY <1>1, <1>2, NewCardType, PrepareType DEF SubmissionTypeOK
<1>4. cards' = [cards EXCEPT ![p] = Append(@, c)]
  BY <1>1 DEF Prepare, Seal
<1>5. /\ \A q \in Proposals : q # p => cards'[q] = cards[q]
      /\ DOMAIN cards'[p] = (DOMAIN cards[p]) \cup {n}
      /\ n \notin DOMAIN cards[p]
      /\ \A s \in DOMAIN cards[p] : cards'[p][s] = cards[p][s]
      /\ cards'[p][n] = c
  BY <1>3, <1>4, SealFacts
<1>6. n \in Nat \ {0} /\ \A s \in DOMAIN cards[p] : s < n
  <2>1. cards[p] \in Seq(Cards)
    BY <1>3 DEF LedgerTypeOK
  <2> QED
    BY <2>1
<1>7. b \in Rows
  BY <1>6 DEF Rows
<1> QED
  BY <1>1, <1>2, <1>3, <1>5, <1>6, <1>7

LEMMA PrepareCardKeepsRows ==
  ASSUME SubmissionTypeOK, RowsInv, NEW p \in Proposals, NEW role \in Roles,
         NEW key \in Keys, NEW body \in Bodies, PrepareCard(p, role, key, body)
  PROVE  SubmissionTypeOK' /\ RowsInv'
<1>1. PICK n \in Nat \ {0}, b \in Rows, r \in Refs(body.type) :
         /\ b = [prop |-> p, card |-> n, key |-> key, body |-> body,
                 role |-> role, message |-> 0]
         /\ submissions' = submissions \cup {b}
         /\ LedgerTypeOK'
         /\ \A q \in Proposals : q # p => cards'[q] = cards[q]
         /\ \A q \in Proposals : \A s \in DOMAIN cards[q] :
              s \in DOMAIN cards'[q] /\ cards'[q][s] = cards[q][s]
         /\ DOMAIN cards'[p] = DOMAIN cards[p] \cup {n}
         /\ n \notin DOMAIN cards[p]
         /\ cards'[p][n] = NewCard(body.type, body.outcome, r)
  BY PrepareCardFacts
<1>2. /\ UNCHANGED <<messages, rooms, chamber>> /\ CanSubmit(role, body.type)
      /\ Under(p, key) = {}
  BY DEF PrepareCard, Unused, roomVars
<1>3. SubmissionTypeOK'
  BY <1>1, <1>2 DEF SubmissionTypeOK
<1>4. RowInv(b)'
  BY <1>1, <1>2 DEF RowInv, NewCard
<1>5. ASSUME NEW x \in submissions  PROVE RowInv(x)'
  <2>1. RowInv(x) /\ x.prop \in Proposals
    BY DEF RowsInv, SubmissionTypeOK, Rows
  <2> QED
    BY <1>1, <1>2, <2>1 DEF RowInv, Backs, Carries
<1>6. ASSUME NEW x \in submissions
      PROVE  ~ (x.prop = b.prop /\ x.card = b.card)
             /\ ~ (x.prop = b.prop /\ x.key = b.key)
  <2>1. RowInv(x)
    BY DEF RowsInv
  <2> QED
    BY <1>1, <1>2, <2>1 DEF RowInv, Under, RowsOf
<1>7. RowsDiffer'
  <2> SUFFICES ASSUME NEW x \in submissions', NEW y \in submissions',
                      \/ x.prop = y.prop /\ x.card = y.card
                      \/ x.prop = y.prop /\ x.key = y.key
                      \/ x.message = y.message /\ x.message # 0
               PROVE  x = y
    BY DEF RowsDiffer
  <2>1. CASE x \in submissions /\ y \in submissions
    BY <2>1 DEF RowsInv, RowsDiffer
  <2>2. CASE x = b \/ y = b
    <3>1. b.message = 0
      BY <1>1
    <3>2. (x.message = y.message /\ x.message # 0) => x # b /\ y # b
      BY <3>1
    <3> QED
      BY <1>1, <1>6, <2>2, <3>2
  <2> QED
    BY <1>1, <2>1, <2>2
<1>8. PublishedHasRow'
  <2> SUFFICES ASSUME NEW q \in Proposals, NEW s \in DOMAIN cards'[q],
                      cards'[q][s].published
               PROVE  \E x \in submissions' :
                        x.prop = q /\ x.card = s /\ x.message # 0
    BY DEF PublishedHasRow, RowsOf
  <2>1. s \in DOMAIN cards[q] /\ cards'[q][s] = cards[q][s]
    BY <1>1 DEF NewCard
  <2> QED
    BY <1>1, <2>1 DEF RowsInv, PublishedHasRow, RowsOf
<1> QED
  BY <1>1, <1>3, <1>4, <1>5, <1>7, <1>8 DEF RowsInv

-----------------------------------------------------------------------------
(***************************************************************************)
(* PostCard.                                                               *)
(***************************************************************************)

\* A message shows a card of the chain, or the one before it.
LEMMA CarriedType ==
  ASSUME NEW s \in Nat \ {0}, NEW tagged \in BOOLEAN
  PROVE  Carried(s, tagged) \subseteq Nat \ {0}
<1>1. s - 1 \in Nat
  OBVIOUS
<1> QED
  BY <1>1 DEF Carried

LEMMA PostCardKeeps ==
  ASSUME SubmissionTypeOK, RowsInv, NEW p \in Proposals, NEW role \in Roles,
         NEW s, NEW tagged \in BOOLEAN, NEW r, PostCard(p, role, s, tagged, r)
  PROVE  /\ SubmissionTypeOK' /\ RowsInv'
         /\ \A m \in DOMAIN messages :
              m \in DOMAIN messages' /\ messages'[m] = messages[m]
         /\ UNCHANGED <<state, cards, submissions, rooms, chamber>>
<1> DEFINE b == [room |-> r, prop |-> p, role |-> role,
                 cards |-> Carried(s, tagged)]
<1>1. /\ UNCHANGED <<state, cards, submissions, rooms, chamber>>
      /\ messages' = Append(messages, b)
      /\ visible' = visible \cup ({p} \X Carried(s, tagged))
      /\ s \in DOMAIN cards[p] /\ \E q \in rooms : q.id = r
  BY DEF PostCard, roomVars
<1>2. s \in Nat \ {0}
  <2>1. cards[p] \in Seq(Cards)
    BY DEF SubmissionTypeOK, LedgerTypeOK
  <2> QED
    BY <1>1, <2>1
<1>3. Carried(s, tagged) \subseteq Nat \ {0}
  BY <1>2, CarriedType
<1>4. LedgerTypeOK'
  BY <1>1, <1>3 DEF SubmissionTypeOK, LedgerTypeOK
<1>5. /\ messages' \in Seq(Messages)
      /\ \A m \in DOMAIN messages :
           m \in DOMAIN messages' /\ messages'[m] = messages[m]
  <2>1. b \in Messages /\ messages \in Seq(Messages)
    BY <1>1, <1>3 DEF Messages, SubmissionTypeOK
  <2> QED
    BY <1>1, <2>1
<1>6. SubmissionTypeOK'
  BY <1>1, <1>4, <1>5 DEF SubmissionTypeOK
<1>7. ASSUME NEW x \in submissions  PROVE RowInv(x)'
  BY <1>1, <1>5 DEF RowsInv, RowInv, Backs, Carries
<1>8. RowsDiffer' /\ PublishedHasRow'
  BY <1>1 DEF RowsInv, RowsDiffer, PublishedHasRow, RowsOf
<1> QED
  BY <1>1, <1>5, <1>6, <1>7, <1>8 DEF RowsInv

-----------------------------------------------------------------------------
(***************************************************************************)
(* ConfirmCard.                                                            *)
(***************************************************************************)

\* The row confirmed changes its message and nothing else.
LEMMA ConfirmCardFacts ==
  ASSUME SubmissionTypeOK, RowsInv, NEW x \in submissions, NEW role \in Roles,
         NEW m \in DOMAIN messages, NEW named \in Chambers \cup {NoRoom},
         ConfirmCard(x, role, m, named)
  PROVE  \E y \in Rows :
           /\ y = [x EXCEPT !.message = m]
           /\ submissions' = (submissions \ {x}) \cup {y}
           /\ x.message = 0 /\ m \in Nat \ {0}
           /\ Backs(m, x) /\ Unclaimed(m)
           /\ LedgerTypeOK' /\ UNCHANGED <<messages, rooms>>
           /\ chamber' \in [Proposals -> Chambers \cup {NoRoom}]
           /\ \A q \in Proposals : DOMAIN cards'[q] = DOMAIN cards[q]
           /\ \A q \in Proposals : \A s \in DOMAIN cards[q] :
                IF q = x.prop /\ s = x.card
                THEN cards'[q][s] = [cards[q][s] EXCEPT !.published = TRUE]
                ELSE cards'[q][s] = cards[q][s]
           /\ cards[x.prop][x.card] \in Cards
<1> DEFINE y == [x EXCEPT !.message = m]
           p == x.prop
           s == x.card
<1>1. /\ Backs(m, x) /\ Unclaimed(m)
      /\ Confirm(p, s)
      /\ submissions' = (submissions \ {x}) \cup {y}
      /\ UNCHANGED <<messages, rooms>>
      /\ chamber' \in [Proposals -> Chambers \cup {NoRoom}]
  BY DEF ConfirmCard, Certifies, Backs, SubmissionTypeOK
<1>2. RowInv(x) /\ x \in Rows /\ p \in Proposals /\ s \in DOMAIN cards[p]
  BY DEF RowsInv, RowInv, SubmissionTypeOK, Rows
<1>3. x.message = 0
  BY <1>1, <1>2 DEF RowInv, Confirm
<1>4. m \in Nat \ {0}
  BY DEF SubmissionTypeOK
<1>5. y \in Rows
  BY <1>2, <1>4 DEF Rows
<1>6. LedgerTypeOK /\ LedgerTypeOK' /\ Publish(p, s, TRUE)
  BY <1>1, <1>2, ConfirmType DEF SubmissionTypeOK, Confirm
<1>7. /\ \A q \in Proposals : q # p => cards'[q] = cards[q]
      /\ \A q \in Proposals : DOMAIN cards'[q] = DOMAIN cards[q]
      /\ \A t \in DOMAIN cards[p] : t # s => cards'[p][t] = cards[p][t]
      /\ cards'[p][s] = [cards[p][s] EXCEPT !.published = TRUE]
  BY <1>2, <1>6, PublishFacts
<1>8. cards[p][s] \in Cards
  BY <1>2, <1>6, ChainHoldsCards
<1> QED
  BY <1>1, <1>3, <1>4, <1>5, <1>6, <1>7, <1>8

LEMMA ConfirmCardKeepsRows ==
  ASSUME SubmissionTypeOK, RowsInv, NEW x \in submissions, NEW role \in Roles,
         NEW m \in DOMAIN messages, NEW named \in Chambers \cup {NoRoom},
         ConfirmCard(x, role, m, named)
  PROVE  SubmissionTypeOK' /\ RowsInv'
<1>1. PICK y \in Rows :
         /\ y = [x EXCEPT !.message = m]
         /\ submissions' = (submissions \ {x}) \cup {y}
         /\ x.message = 0 /\ m \in Nat \ {0}
         /\ Backs(m, x) /\ Unclaimed(m)
         /\ LedgerTypeOK' /\ UNCHANGED <<messages, rooms>>
         /\ chamber' \in [Proposals -> Chambers \cup {NoRoom}]
         /\ \A q \in Proposals : DOMAIN cards'[q] = DOMAIN cards[q]
         /\ \A q \in Proposals : \A s \in DOMAIN cards[q] :
              IF q = x.prop /\ s = x.card
              THEN cards'[q][s] = [cards[q][s] EXCEPT !.published = TRUE]
              ELSE cards'[q][s] = cards[q][s]
         /\ cards[x.prop][x.card] \in Cards
  BY ConfirmCardFacts
<1>2. x \in Rows /\ RowInv(x)
  BY DEF RowsInv, SubmissionTypeOK
<1>3. /\ y.prop = x.prop /\ y.card = x.card /\ y.key = x.key
      /\ y.body = x.body /\ y.role = x.role /\ y.message = m
  BY <1>1, <1>2 DEF Rows
<1>4. SubmissionTypeOK'
  BY <1>1 DEF SubmissionTypeOK
<1>5. ASSUME NEW q \in Proposals, NEW s \in DOMAIN cards[q]
      PROVE  /\ cards'[q][s].type = cards[q][s].type
             /\ cards'[q][s].outcome = cards[q][s].outcome
             /\ cards'[q][s].published
                  <=> cards[q][s].published \/ (q = x.prop /\ s = x.card)
  <2>1. CASE q = x.prop /\ s = x.card
    BY <1>1, <2>1 DEF Cards
  <2>2. CASE ~ (q = x.prop /\ s = x.card)
    <3>1. cards'[q][s] = cards[q][s]
      BY <1>1, <2>2
    <3> QED
      BY <2>2, <3>1
  <2> QED
    BY <2>1, <2>2
<1>6. RowInv(y)'
  <2>1. x.prop \in Proposals /\ x.card \in DOMAIN cards[x.prop]
    BY <1>2 DEF Rows, RowInv
  <2>2. Backs(m, y)'
    BY <1>1, <1>3 DEF Backs, Carries
  <2> QED
    BY <1>1, <1>2, <1>3, <1>5, <2>1, <2>2 DEF RowInv
<1>7. ASSUME NEW z \in submissions  PROVE RowInv(z)'
  <2>1. RowInv(z) /\ z.prop \in Proposals
    BY DEF RowsInv, SubmissionTypeOK, Rows
  <2> QED
    BY <1>1, <1>5, <2>1 DEF RowInv, Backs, Carries
<1>8. ASSUME NEW z \in submissions, z # x
      PROVE  /\ z.prop = y.prop => z.card # y.card /\ z.key # y.key
             /\ z.message # m
  BY <1>1, <1>3, <1>8 DEF RowsInv, RowsDiffer, Unclaimed
<1>9. RowsDiffer'
  <2> SUFFICES ASSUME NEW v \in submissions', NEW w \in submissions',
                      \/ v.prop = w.prop /\ v.card = w.card
                      \/ v.prop = w.prop /\ v.key = w.key
                      \/ v.message = w.message /\ v.message # 0
               PROVE  v = w
    BY DEF RowsDiffer
  <2>1. CASE v # y /\ w # y
    BY <1>1, <2>1 DEF RowsInv, RowsDiffer
  <2>2. CASE v = y \/ w = y
    <3>1. submissions' = (submissions \ {x}) \cup {y}
      BY <1>1
    <3>2. CASE v = y
      BY <1>3, <1>8, <3>1, <3>2
    <3>3. CASE w = y
      BY <1>3, <1>8, <3>1, <3>3
    <3> QED
      BY <2>2, <3>2, <3>3
  <2> QED
    BY <2>1, <2>2
<1>10. PublishedHasRow'
  <2> SUFFICES ASSUME NEW q \in Proposals, NEW s \in DOMAIN cards'[q],
                      cards'[q][s].published
               PROVE  \E z \in submissions' :
                        z.prop = q /\ z.card = s /\ z.message # 0
    BY DEF PublishedHasRow, RowsOf
  <2>1. CASE q = x.prop /\ s = x.card
    BY <1>1, <1>3, <2>1
  <2>2. CASE ~ (q = x.prop /\ s = x.card)
    <3>1. PICK z \in submissions : z.prop = q /\ z.card = s /\ z.message # 0
      BY <1>1, <1>5, <2>2 DEF RowsInv, PublishedHasRow, RowsOf
    <3> QED
      BY <1>1, <3>1
  <2> QED
    BY <2>1, <2>2
<1> QED
  BY <1>1, <1>4, <1>6, <1>7, <1>9, <1>10 DEF RowsInv

-----------------------------------------------------------------------------
(***************************************************************************)
(* The floor of a plan.                                                    *)
(***************************************************************************)

\* From a late state the state machine goes to late states only; a plan is
\* accepted in late states, an Assessment in none.
LEMMA LateMoves ==
  ASSUME NEW c \in Cards, c.type \in SubmittedTypes
  PROVE  /\ c.type = "ResponsePlan" => Prerequisite(c.type) \subseteq LateStates
         /\ c.type = "Assessment" => Prerequisite(c.type) \cap LateStates = {}
         /\ \A z \in LateStates : z \in Prerequisite(c.type) =>
              Resolve(c) \in LateStates \/ c.type = "ProposalCard"
<1>1. c.type \in CardTypes \ {"StructuredApproval"}
  BY SubmissionAssumption DEF Cards
<1>2. CASE c.type \in {"ResponsePlan", "PolicyAuthorization",
                      "CasperExecutionReceipt", "GovernanceSummary"}
  <2>1. c.outcome = "none"
    BY <1>2 DEF Cards, Outcomes
  <2> QED
    BY <1>2, <2>1 DEF Prerequisite, Resolve, OutcomeTransitions,
                      BaseTransitions, LateStates
<1>3. CASE c.type \in {"ProposalCard", "TriageDecision", "Assessment", "Verdict"}
  BY <1>3 DEF Prerequisite, LateStates
<1> QED
  BY <1>1, <1>2, <1>3 DEF CardTypes

\* What an Assessment finds is low or high.
LEMMA AssessmentLevel ==
  ASSUME SubmissionTypeOK, NEW x \in submissions, x.body.type = "Assessment"
  PROVE  x.body.level \in {"low", "high"}
  BY DEF SubmissionTypeOK, Rows, Bodies, Levels

LEMMA PrepareCardKeepsFloor ==
  ASSUME SubmissionInv, NEW p \in Proposals, NEW role \in Roles,
         NEW key \in Keys, NEW body \in Bodies, PrepareCard(p, role, key, body)
  PROVE  PlansAreLate' /\ FloorStands'
<1>0. SubmissionTypeOK /\ PlansAreLate /\ FloorStands
  BY DEF SubmissionInv
<1>1. PICK n \in Nat \ {0}, b \in Rows, r \in Refs(body.type) :
         /\ r = RiskFloor(p, body)
         /\ b = [prop |-> p, card |-> n, key |-> key, body |-> body,
                 role |-> role, message |-> 0]
         /\ submissions' = submissions \cup {b}
         /\ \A q \in Proposals : q # p => cards'[q] = cards[q]
         /\ \A q \in Proposals : \A s \in DOMAIN cards[q] :
              s \in DOMAIN cards'[q] /\ cards'[q][s] = cards[q][s]
         /\ DOMAIN cards'[p] = DOMAIN cards[p] \cup {n}
         /\ cards'[p][n] = NewCard(body.type, body.outcome, r)
  BY <1>0, PrepareCardFacts
<1> DEFINE c == NewCard(body.type, body.outcome, r)
<1>2. /\ state[p] \in Prerequisite(body.type) /\ body.type \in SubmittedTypes
      /\ state' = [state EXCEPT ![p] = IF @ = "ABSENT" THEN "DETECTED" ELSE @]
  BY DEF PrepareCard, Prepare, Allowed
<1>3. c \in Cards /\ c.type = body.type /\ c.ref = r
  <2>1. body.type \in CardTypes /\ body.outcome \in Outcomes(body.type)
    BY <1>2, FloorType
  <2> QED
    BY <2>1, NewCardType DEF NewCard
<1>4. \A q \in Proposals : state[q] \in LateStates => state'[q] \in LateStates
  BY <1>0, <1>2 DEF SubmissionTypeOK, LedgerTypeOK, LateStates
<1>5. ASSUME body.type = "ResponsePlan"  PROVE state'[p] \in LateStates
  BY <1>2, <1>3, <1>4, <1>5, LateMoves
<1>6. PlansAreLate'
  <2> SUFFICES ASSUME NEW q \in Proposals, NEW s \in DOMAIN cards'[q],
                      cards'[q][s].type = "ResponsePlan"
               PROVE  state'[q] \in LateStates
    BY DEF PlansAreLate
  <2>1. CASE s \in DOMAIN cards[q]
    BY <1>0, <1>1, <1>4, <2>1 DEF PlansAreLate
  <2>2. CASE s \notin DOMAIN cards[q]
    <3>1. q = p /\ s = n
      BY <1>1, <2>2
    <3> QED
      BY <1>1, <1>3, <1>5, <3>1
  <2> QED
    BY <2>1, <2>2
<1>7. FloorStands'
  <2> SUFFICES ASSUME NEW q \in Proposals, NEW s \in DOMAIN cards'[q],
                      cards'[q][s].type = "ResponsePlan",
                      cards'[q][s].ref = "auto",
                      NEW x \in submissions', x.prop = q,
                      x.body.type = "Assessment",
                      \A y \in submissions' :
                        y.prop = q /\ y.body.type = "Assessment" =>
                          y.card <= x.card
               PROVE  x.body.level = "low"
    BY DEF FloorStands, LatestAssessment, RowsOf
  <2>1. x \in submissions
    <3>1. CASE body.type # "Assessment"
      BY <1>1, <3>1
    <3>2. CASE body.type = "Assessment" /\ q # p
      BY <1>1, <3>2
    <3>3. CASE body.type = "Assessment" /\ q = p
      <4>1. s \in DOMAIN cards[p] /\ cards[p][s].type = "ResponsePlan"
        BY <1>1, <1>3, <3>3
      <4>2. state[p] \in LateStates
        BY <1>0, <4>1 DEF PlansAreLate
      <4>3. Prerequisite(body.type) \cap LateStates = {}
        BY <1>2, <1>3, <3>3, LateMoves
      <4> QED
        BY <1>2, <4>2, <4>3
    <3> QED
      BY <3>1, <3>2, <3>3
  <2>2. LatestAssessment(q, x)
    BY <1>1, <2>1 DEF LatestAssessment, RowsOf
  <2>3. CASE s \in DOMAIN cards[q]
    BY <1>0, <1>1, <2>1, <2>2, <2>3 DEF FloorStands, RowsOf
  <2>4. CASE s \notin DOMAIN cards[q]
    <3>1. q = p /\ s = n
      BY <1>1, <2>4
    <3>2. RiskFloor(p, body) = "auto" /\ body.type = "ResponsePlan"
      BY <1>1, <1>3, <3>1
    <3>3. ~ \E y \in RowsOf(p) : LatestAssessment(p, y) /\ y.body.level = "high"
      BY <3>2 DEF RiskFloor
    <3>4. x.body.level # "high"
      BY <2>1, <2>2, <3>1, <3>3 DEF RowsOf
    <3> QED
      BY <1>0, <2>1, <3>4, AssessmentLevel
  <2> QED
    BY <2>3, <2>4
<1> QED
  BY <1>6, <1>7

LEMMA PostCardKeepsFloor ==
  ASSUME SubmissionInv, UNCHANGED <<state, cards, submissions>>
  PROVE  PlansAreLate' /\ FloorStands'
<1>1. PlansAreLate'
  BY DEF SubmissionInv, PlansAreLate
<1>2. FloorStands'
  BY DEF SubmissionInv, FloorStands, LatestAssessment, RowsOf
<1> QED
  BY <1>1, <1>2

LEMMA ConfirmCardKeepsFloor ==
  ASSUME SubmissionInv, NEW x \in submissions, NEW role \in Roles,
         NEW m \in DOMAIN messages, NEW named \in Chambers \cup {NoRoom},
         ConfirmCard(x, role, m, named)
  PROVE  PlansAreLate' /\ FloorStands'
<1>0. SubmissionTypeOK /\ RowsInv /\ PlansAreLate /\ FloorStands
  BY DEF SubmissionInv
<1>1. PICK y \in Rows :
         /\ y = [x EXCEPT !.message = m]
         /\ submissions' = (submissions \ {x}) \cup {y}
         /\ \A q \in Proposals : DOMAIN cards'[q] = DOMAIN cards[q]
         /\ \A q \in Proposals : \A s \in DOMAIN cards[q] :
              IF q = x.prop /\ s = x.card
              THEN cards'[q][s] = [cards[q][s] EXCEPT !.published = TRUE]
              ELSE cards'[q][s] = cards[q][s]
         /\ cards[x.prop][x.card] \in Cards
  BY <1>0, ConfirmCardFacts
<1>2. x \in Rows
  BY <1>0 DEF SubmissionTypeOK
<1>3. y.prop = x.prop /\ y.card = x.card /\ y.body = x.body
  BY <1>1, <1>2 DEF Rows
<1>4. \A q \in Proposals : \A s \in DOMAIN cards[q] :
        cards'[q][s].type = cards[q][s].type /\ cards'[q][s].ref = cards[q][s].ref
  <2> SUFFICES ASSUME NEW q \in Proposals, NEW s \in DOMAIN cards[q]
               PROVE  /\ cards'[q][s].type = cards[q][s].type
                      /\ cards'[q][s].ref = cards[q][s].ref
    OBVIOUS
  <2>1. CASE q = x.prop /\ s = x.card
    BY <1>1, <2>1 DEF Cards
  <2>2. CASE ~ (q = x.prop /\ s = x.card)
    BY <1>1, <2>2
  <2> QED
    BY <2>1, <2>2
<1>5. /\ Confirm(x.prop, x.card) /\ x.prop \in Proposals
      /\ state' = [state EXCEPT ![x.prop] = StateAfter(x.prop, cards[x.prop][x.card])]
      /\ cards[x.prop][x.card].type \in SubmittedTypes
      /\ state[x.prop] \in Prerequisite(cards[x.prop][x.card].type)
  BY <1>2 DEF ConfirmCard, Confirm, Allowed, Rows
<1>6. \A q \in Proposals : state[q] \in LateStates => state'[q] \in LateStates
  <2>1. ASSUME state[x.prop] \in LateStates
        PROVE  StateAfter(x.prop, cards[x.prop][x.card]) \in LateStates
    <3>1. state[x.prop] # "DETECTED"
      BY <2>1 DEF LateStates
    <3> QED
      BY <1>1, <1>5, <2>1, <3>1, LateMoves DEF StateAfter
  <2> QED
    BY <1>0, <1>5, <2>1 DEF SubmissionTypeOK, LedgerTypeOK
<1>7. PlansAreLate'
  BY <1>0, <1>1, <1>4, <1>6 DEF PlansAreLate
<1>8. FloorStands'
  <2> SUFFICES ASSUME NEW q \in Proposals, NEW s \in DOMAIN cards[q],
                      cards[q][s].type = "ResponsePlan",
                      cards[q][s].ref = "auto",
                      NEW z \in submissions', z.prop = q,
                      z.body.type = "Assessment",
                      \A w \in submissions' :
                        w.prop = q /\ w.body.type = "Assessment" =>
                          w.card <= z.card
               PROVE  z.body.level = "low"
    BY <1>1, <1>4 DEF FloorStands, LatestAssessment, RowsOf
  <2>1. PICK v \in submissions :
           v.prop = z.prop /\ v.card = z.card /\ v.body = z.body
    BY <1>1, <1>3
  <2>2. \A w \in submissions :
          w.prop = q /\ w.body.type = "Assessment" => w.card <= v.card
    <3>1. submissions' = (submissions \ {x}) \cup {y}
      BY <1>1
    <3>2. ASSUME NEW w \in submissions, w.prop = q, w.body.type = "Assessment"
          PROVE  w.card <= v.card
      <4>1. CASE w = x
        BY <1>3, <2>1, <3>1, <3>2, <4>1
      <4>2. CASE w # x
        BY <2>1, <3>1, <3>2, <4>2
      <4> QED
        BY <4>1, <4>2
    <3> QED
      BY <3>2
  <2>3. LatestAssessment(q, v)
    BY <2>1, <2>2 DEF LatestAssessment, RowsOf
  <2> QED
    BY <1>0, <2>1, <2>3 DEF FloorStands, RowsOf
<1> QED
  BY <1>7, <1>8

-----------------------------------------------------------------------------
(***************************************************************************)
(* The rooms of the confirmed cards.                                       *)
(***************************************************************************)

\* The confirmed rows of a proposal name messages there are, of cards that are
\* confirmed.
LEMMA ConfirmedRowsFacts ==
  ASSUME SubmissionInv, NEW p \in Proposals, NEW x \in ConfirmedRows(p)
  PROVE  /\ x \in submissions /\ x.prop = p /\ x.message # 0
         /\ x.message \in DOMAIN messages
         /\ messages[x.message].room \in Chambers
         /\ x.card \in DOMAIN cards[p] /\ cards[p][x.card].published
         /\ x.card \in Nat
<1>1. x \in submissions /\ x.prop = p /\ x.message # 0
  BY DEF ConfirmedRows, RowsOf
<1>2. RowInv(x) /\ x \in Rows
  BY <1>1 DEF SubmissionInv, RowsInv, SubmissionTypeOK
<1>3. x.message \in DOMAIN messages
  BY <1>1, <1>2 DEF RowInv
<1>4. messages[x.message] \in Messages
  <2>1. messages \in Seq(Messages)
    BY DEF SubmissionInv, SubmissionTypeOK
  <2> QED
    BY <1>3, <2>1
<1> QED
  BY <1>1, <1>2, <1>3, <1>4 DEF RowInv, Rows, Messages

\* What the sharing of a room asks of two rows.
Share(p, x, y) ==
  LET rx == messages[x.message].room
      ry == messages[y.message].room
  IN  /\ chamber[p] # NoRoom
      /\ rx # chamber[p] => OwnRoom(p, chamber[p])
      /\ rx # ry /\ x.card < y.card => rx # chamber[p] /\ ry = chamber[p]

LEMMA ShareRoomIs ==
  ConfirmedCardsShareRoom <=>
    \A p \in Proposals : \A x, y \in ConfirmedRows(p) : Share(p, x, y)
  BY DEF ConfirmedCardsShareRoom, Share

LEMMA ShareRoomWillBe ==
  ConfirmedCardsShareRoom' <=>
    \A p \in Proposals : \A x, y \in ConfirmedRows(p)' : Share(p, x, y)'
  BY DEF ConfirmedCardsShareRoom, Share

\* Messages keep their room, so where rows and rooms stay the rest follows.
LEMMA RoomsKept ==
  ASSUME SubmissionInv, UNCHANGED <<submissions, rooms, chamber>>,
         \A m \in DOMAIN messages : messages'[m] = messages[m]
  PROVE  ConfirmedCardsShareRoom'
<1> SUFFICES ASSUME NEW p \in Proposals, NEW x \in ConfirmedRows(p)',
                    NEW y \in ConfirmedRows(p)'
             PROVE  Share(p, x, y)'
  BY ShareRoomWillBe
<1>1. x \in ConfirmedRows(p) /\ y \in ConfirmedRows(p)
  BY DEF ConfirmedRows, RowsOf
<1>2. Share(p, x, y)
  BY <1>1, ShareRoomIs DEF SubmissionInv
<1>3. /\ messages'[x.message] = messages[x.message]
      /\ messages'[y.message] = messages[y.message]
  BY <1>1, ConfirmedRowsFacts
<1> QED
  BY <1>2, <1>3 DEF Share, OwnRoom

\* A card that was just sealed has no message yet.
LEMMA PrepareCardKeepsRooms ==
  ASSUME SubmissionInv, NEW p \in Proposals, NEW role \in Roles,
         NEW key \in Keys, NEW body \in Bodies, PrepareCard(p, role, key, body)
  PROVE  ConfirmedCardsShareRoom'
<1> DEFINE b == [prop |-> p, card |-> Len(cards[p]) + 1, key |-> key,
                 body |-> body, role |-> role, message |-> 0]
<1>1. /\ submissions' = submissions \cup {b}
      /\ UNCHANGED <<messages, rooms, chamber>>
  BY DEF PrepareCard, roomVars
<1>2. b.message = 0
  OBVIOUS
<1>3. \A q \in Proposals : ConfirmedRows(q)' = ConfirmedRows(q)
  BY <1>1, <1>2 DEF ConfirmedRows, RowsOf
<1> SUFFICES ASSUME NEW q \in Proposals, NEW x \in ConfirmedRows(q)',
                    NEW y \in ConfirmedRows(q)'
             PROVE  Share(q, x, y)'
  BY ShareRoomWillBe
<1>4. Share(q, x, y)
  BY <1>3, ShareRoomIs DEF SubmissionInv
<1> QED
  BY <1>1, <1>4 DEF Share, OwnRoom

LEMMA CreateRoomKeepsRows ==
  ASSUME SubmissionTypeOK, RowsInv, NEW r \in Chambers,
         NEW p \in Proposals \cup {NoProposal}, CreateRoom(r, p)
  PROVE  /\ SubmissionTypeOK' /\ RowsInv'
         /\ UNCHANGED <<state, cards, visible, submissions, messages>>
<1>1. UNCHANGED <<state, cards, visible, submissions, messages>>
  BY DEF CreateRoom, ledgerVars
<1>2. /\ rooms' \subseteq [id : Chambers, prop : Proposals \cup {NoProposal}]
      /\ chamber' \in [Proposals -> Chambers \cup {NoRoom}]
  BY DEF CreateRoom, SubmissionTypeOK
<1>3. SubmissionTypeOK'
  BY <1>1, <1>2 DEF SubmissionTypeOK, LedgerTypeOK
<1>4. \A x \in submissions : RowInv(x)'
  BY <1>1 DEF RowsInv, RowInv, Backs, Carries
<1>5. RowsDiffer' /\ PublishedHasRow'
  BY <1>1 DEF RowsInv, RowsDiffer, PublishedHasRow, RowsOf
<1> QED
  BY <1>1, <1>3, <1>4, <1>5 DEF RowsInv

\* A proposal gets a room of its own once: until then its confirmed cards all
\* stand in the room stored for it.
LEMMA CreateRoomKeepsRooms ==
  ASSUME SubmissionInv, NEW r \in Chambers,
         NEW p \in Proposals \cup {NoProposal}, CreateRoom(r, p)
  PROVE  ConfirmedCardsShareRoom'
<1>1. UNCHANGED <<submissions, messages>>
  BY DEF CreateRoom
<1>2. /\ \A q \in rooms : q.id # r
      /\ p \in Proposals => \A q \in rooms : q.prop # p
      /\ rooms' = rooms \cup {[id |-> r, prop |-> p]}
      /\ chamber' = [q \in Proposals |->
                       IF q = p /\ state[q] # "ABSENT" THEN r ELSE chamber[q]]
  BY DEF CreateRoom
<1> SUFFICES ASSUME NEW q \in Proposals, NEW x \in ConfirmedRows(q)',
                    NEW y \in ConfirmedRows(q)'
             PROVE  Share(q, x, y)'
  BY ShareRoomWillBe
<1>3. x \in ConfirmedRows(q) /\ y \in ConfirmedRows(q)
  BY <1>1 DEF ConfirmedRows, RowsOf
<1>4. Share(q, x, y) /\ Share(q, y, x)
  BY <1>3, ShareRoomIs DEF SubmissionInv
<1>5. CASE chamber'[q] = chamber[q]
  BY <1>1, <1>2, <1>4, <1>5 DEF Share, OwnRoom
<1>6. CASE chamber'[q] # chamber[q]
  <2>1. q = p /\ chamber'[q] = r
    BY <1>2, <1>6
  <2>2. OwnRoom(q, r)'
    BY <1>2, <2>1 DEF OwnRoom
  <2>3. ~ OwnRoom(q, chamber[q])
    BY <1>2, <2>1 DEF OwnRoom
  <2>4. /\ messages[x.message].room = chamber[q]
        /\ messages[y.message].room = chamber[q]
    BY <1>4, <2>3 DEF Share
  <2>5. r # NoRoom
    BY SubmissionAssumption
  <2> QED
    BY <1>1, <2>1, <2>2, <2>4, <2>5 DEF Share
<1> QED
  BY <1>5, <1>6

\* The card confirmed comes after all confirmed ones, and its message is in the
\* room that is stored from now on.
LEMMA ConfirmCardKeepsRooms ==
  ASSUME SubmissionInv, NEW x \in submissions, NEW role \in Roles,
         NEW m \in DOMAIN messages, NEW named \in Chambers \cup {NoRoom},
         ConfirmCard(x, role, m, named)
  PROVE  ConfirmedCardsShareRoom'
<1> DEFINE y == [x EXCEPT !.message = m]
           p == x.prop
           r == ExpectedRoom(p, named)
<1>1. /\ submissions' = (submissions \ {x}) \cup {y}
      /\ UNCHANGED <<messages, rooms>>
      /\ messages[m].room = r /\ r # NoRoom
      /\ chamber[p] # NoRoom /\ named # NoRoom => named = chamber[p]
      /\ chamber' = [chamber EXCEPT ![p] = IF named = NoRoom THEN @ ELSE named]
      /\ Confirm(p, x.card)
  BY DEF ConfirmCard, Certifies
<1>2. SubmissionTypeOK /\ x \in Rows /\ p \in Proposals
  BY DEF SubmissionInv, SubmissionTypeOK, Rows
<1>3. y.prop = p /\ y.card = x.card /\ y.message = m /\ x.card \in Nat
  BY <1>2 DEF Rows
<1>4. /\ chamber'[p] = r
      /\ chamber[p] # NoRoom => r = chamber[p]
      /\ \A q \in Proposals : q # p => chamber'[q] = chamber[q]
  BY <1>1, <1>2 DEF SubmissionTypeOK, ExpectedRoom
<1>5. ASSUME NEW q \in Proposals, NEW z \in ConfirmedRows(q)', z # y
      PROVE  z \in ConfirmedRows(q)
  BY <1>1, <1>5 DEF ConfirmedRows, RowsOf
<1>6. ASSUME NEW z \in ConfirmedRows(p)
      PROVE  chamber[p] # NoRoom /\ z.card < x.card /\ z.card \in Nat
  <2>1. Share(p, z, z)
    BY <1>2, ShareRoomIs DEF SubmissionInv
  <2>2. /\ z.card \in DOMAIN cards[p] /\ cards[p][z.card].published
        /\ z.card \in Nat
    BY <1>2, ConfirmedRowsFacts
  <2>3. ~ (z.card > x.card) /\ ~ cards[p][x.card].published
    BY <1>1, <2>2 DEF Confirm, NewerConfirmed
  <2>4. z.card # x.card
    BY <2>2, <2>3
  <2> QED
    BY <1>3, <2>1, <2>2, <2>3, <2>4 DEF Share
<1> SUFFICES ASSUME NEW q \in Proposals, NEW v \in ConfirmedRows(q)',
                    NEW w \in ConfirmedRows(q)'
             PROVE  Share(q, v, w)'
  BY ShareRoomWillBe
<1>7. ASSUME v # y, w # y  PROVE Share(q, v, w)'
  <2>1. v \in ConfirmedRows(q) /\ w \in ConfirmedRows(q)
    BY <1>5, <1>7
  <2>2. Share(q, v, w) /\ chamber[q] # NoRoom
    BY <2>1, ShareRoomIs DEF SubmissionInv, Share
  <2>3. chamber'[q] = chamber[q]
    BY <1>4, <2>2
  <2> QED
    BY <1>1, <2>2, <2>3 DEF Share, OwnRoom
<1>8. ASSUME v = y \/ w = y  PROVE q = p
  BY <1>3, <1>8 DEF ConfirmedRows, RowsOf
<1>9. ASSUME NEW z \in ConfirmedRows(p)', z # y
      PROVE  /\ z.card < x.card /\ z.card \in Nat
             /\ messages[z.message].room # r => OwnRoom(p, r)
  <2>1. z \in ConfirmedRows(p)
    BY <1>2, <1>5, <1>9
  <2>2. Share(p, z, z) /\ chamber[p] = r
    BY <1>2, <1>4, <1>6, <2>1, ShareRoomIs DEF SubmissionInv
  <2> QED
    BY <1>6, <2>1, <2>2 DEF Share
<1>10. CASE v = y /\ w = y
  BY <1>1, <1>3, <1>4, <1>8, <1>10 DEF Share
<1>11. CASE v = y /\ w # y
  <2>1. w.card < x.card /\ w.card \in Nat
    BY <1>8, <1>9, <1>11
  <2>2. ~ (v.card < w.card)
    BY <1>3, <1>11, <2>1
  <2> QED
    BY <1>1, <1>3, <1>4, <1>8, <1>11, <2>2 DEF Share
<1>12. CASE v # y /\ w = y
  <2>1. messages[v.message].room # r => OwnRoom(p, r)
    BY <1>8, <1>9, <1>12
  <2> QED
    BY <1>1, <1>3, <1>4, <1>8, <1>12, <2>1 DEF Share, OwnRoom
<1> QED
  BY <1>7, <1>10, <1>11, <1>12

-----------------------------------------------------------------------------
(***************************************************************************)
(* The invariant holds.                                                    *)
(***************************************************************************)

\* The four requests keep the invariant, whoever sends them.
LEMMA RequestsKeepInv ==
  ASSUME SubmissionInv
  PROVE  /\ \A p \in Proposals, role \in Roles, key \in Keys, body \in Bodies :
              PrepareCard(p, role, key, body) => SubmissionInv'
         /\ \A r \in Chambers, p \in Proposals \cup {NoProposal} :
              CreateRoom(r, p) => SubmissionInv'
         /\ \A p \in Proposals, role \in Roles, tagged \in BOOLEAN :
              \A s \in DOMAIN cards[p], r \in Chambers :
                PostCard(p, role, s, tagged, r) => SubmissionInv'
         /\ \A x \in submissions, role \in Roles, m \in DOMAIN messages,
               named \in Chambers \cup {NoRoom} :
              ConfirmCard(x, role, m, named) => SubmissionInv'
<1>0. SubmissionTypeOK /\ RowsInv
  BY DEF SubmissionInv
<1>1. ASSUME NEW p \in Proposals, NEW role \in Roles, NEW key \in Keys,
             NEW body \in Bodies, PrepareCard(p, role, key, body)
      PROVE  SubmissionInv'
  <2>1. SubmissionTypeOK' /\ RowsInv'
    BY <1>0, <1>1, PrepareCardKeepsRows
  <2>2. PlansAreLate' /\ FloorStands'
    BY <1>1, PrepareCardKeepsFloor
  <2>3. ConfirmedCardsShareRoom'
    BY <1>1, PrepareCardKeepsRooms
  <2> QED
    BY <2>1, <2>2, <2>3 DEF SubmissionInv
<1>2. ASSUME NEW r \in Chambers, NEW p \in Proposals \cup {NoProposal},
             CreateRoom(r, p)
      PROVE  SubmissionInv'
  <2>1. SubmissionTypeOK' /\ RowsInv' /\ UNCHANGED <<state, cards, submissions>>
    BY <1>0, <1>2, CreateRoomKeepsRows
  <2>2. PlansAreLate' /\ FloorStands'
    BY <2>1, PostCardKeepsFloor
  <2>3. ConfirmedCardsShareRoom'
    BY <1>2, CreateRoomKeepsRooms
  <2> QED
    BY <2>1, <2>2, <2>3 DEF SubmissionInv
<1>3. ASSUME NEW p \in Proposals, NEW role \in Roles, NEW s \in DOMAIN cards[p],
             NEW tagged \in BOOLEAN, NEW r \in Chambers,
             PostCard(p, role, s, tagged, r)
      PROVE  SubmissionInv'
  <2>1. /\ SubmissionTypeOK' /\ RowsInv' /\ UNCHANGED <<state, cards, submissions>>
        /\ UNCHANGED <<rooms, chamber>>
        /\ \A m \in DOMAIN messages : messages'[m] = messages[m]
    BY <1>0, <1>3, PostCardKeeps
  <2>2. PlansAreLate' /\ FloorStands'
    BY <2>1, PostCardKeepsFloor
  <2>3. ConfirmedCardsShareRoom'
    BY <2>1, RoomsKept
  <2> QED
    BY <2>1, <2>2, <2>3 DEF SubmissionInv
<1>4. ASSUME NEW x \in submissions, NEW role \in Roles, NEW m \in DOMAIN messages,
             NEW named \in Chambers \cup {NoRoom}, ConfirmCard(x, role, m, named)
      PROVE  SubmissionInv'
  <2>1. SubmissionTypeOK' /\ RowsInv'
    BY <1>0, <1>4, ConfirmCardKeepsRows
  <2>2. PlansAreLate' /\ FloorStands'
    BY <1>4, ConfirmCardKeepsFloor
  <2>3. ConfirmedCardsShareRoom'
    BY <1>4, ConfirmCardKeepsRooms
  <2> QED
    BY <2>1, <2>2, <2>3 DEF SubmissionInv
<1> QED
  BY <1>1, <1>2, <1>3, <1>4

LEMMA SubmissionStarts == SubmissionInit => SubmissionInv
<1> SUFFICES ASSUME SubmissionInit  PROVE SubmissionInv
  OBVIOUS
<1>1. LedgerTypeOK /\ submissions = {} /\ messages = <<>> /\ rooms = {}
      /\ chamber \in [Proposals -> Chambers \cup {NoRoom}]
      /\ \A p \in Proposals : cards[p] = <<>>
  BY DEF SubmissionInit, LedgerInit, LedgerTypeOK, States
<1>2. SubmissionTypeOK
  BY <1>1 DEF SubmissionTypeOK
<1>3. RowsInv
  BY <1>1 DEF RowsInv, RowsDiffer, PublishedHasRow
<1>4. PlansAreLate /\ FloorStands
  BY <1>1 DEF PlansAreLate, FloorStands
<1>5. ConfirmedCardsShareRoom
  BY <1>1 DEF ConfirmedCardsShareRoom, ConfirmedRows, RowsOf
<1> QED
  BY <1>2, <1>3, <1>4, <1>5 DEF SubmissionInv

LEMMA SubmissionStutters ==
  SubmissionInv /\ UNCHANGED submissionVars => SubmissionInv'
<1> SUFFICES ASSUME SubmissionInv, UNCHANGED submissionVars
             PROVE  SubmissionInv'
  OBVIOUS
<1>1. UNCHANGED <<state, cards, visible, submissions, messages, rooms, chamber>>
  BY DEF submissionVars, ledgerVars, roomVars
<1>2. SubmissionTypeOK'
  BY <1>1 DEF SubmissionInv, SubmissionTypeOK, LedgerTypeOK
<1>3. \A x \in submissions : RowInv(x)'
  BY <1>1 DEF SubmissionInv, RowsInv, RowInv, Backs, Carries
<1>4. RowsDiffer' /\ PublishedHasRow'
  BY <1>1 DEF SubmissionInv, RowsInv, RowsDiffer, PublishedHasRow, RowsOf
<1>5. PlansAreLate' /\ FloorStands'
  BY <1>1, PostCardKeepsFloor
<1>6. ConfirmedCardsShareRoom'
  BY <1>1, RoomsKept
<1> QED
  BY <1>1, <1>2, <1>3, <1>4, <1>5, <1>6 DEF SubmissionInv, RowsInv

\* However clients repeat, reorder and cross their requests.
THEOREM SubmissionInvariant == SubmissionSpec => []SubmissionInv
<1>1. SubmissionInv /\ [SubmissionNext]_submissionVars => SubmissionInv'
  BY RequestsKeepInv, SubmissionStutters, ClientsAssumption DEF SubmissionNext
<1> QED
  BY <1>1, SubmissionStarts, PTL DEF SubmissionSpec

LEMMA RowsShowCards == SubmissionInv => ConfirmedCardIsInRoom
<1> SUFFICES ASSUME SubmissionInv  PROVE ConfirmedCardHasMessage
  BY DEF SubmissionInv, ConfirmedCardIsInRoom
<1> SUFFICES ASSUME NEW p \in Proposals, NEW s \in DOMAIN cards[p],
                    cards[p][s].published
             PROVE  \E x \in RowsOf(p) :
                      /\ x.card = s /\ CanSubmit(x.role, cards[p][s].type)
                      /\ x.message \in DOMAIN messages /\ Carries(x.message, x)
                      /\ x.role = "gateway" \/ messages[x.message].role = x.role
  BY DEF ConfirmedCardHasMessage
<1>1. PICK x \in RowsOf(p) : x.card = s /\ x.message # 0
  BY DEF SubmissionInv, RowsInv, PublishedHasRow
<1>2. x.prop = p /\ RowInv(x)
  BY <1>1 DEF SubmissionInv, RowsInv, RowsOf
<1> QED
  BY <1>1, <1>2 DEF RowInv, Backs

\* What the chain calls confirmed some room has seen, in a message about the
\* proposal that shows the card's hash, posted as the role that prepared it.  The
\* room is the one the first confirmation named, whatever room that was, or the
\* proposal's own, and the cards change from the one to the other once at most.
THEOREM InRoomCorrect == SubmissionSpec => []ConfirmedCardIsInRoom
  BY SubmissionInvariant, RowsShowCards, PTL

\* No Assessment of a high impact ever comes behind the floor of a plan that was
\* left to the policy, however Assessments, plans and their confirmations cross.
THEOREM FloorCorrect == SubmissionSpec => []FloorStands
<1>1. SubmissionInv => FloorStands
  BY DEF SubmissionInv
<1> QED
  BY <1>1, SubmissionInvariant, PTL

-----------------------------------------------------------------------------
(***************************************************************************)
(* The protocol implements CardIntent.                                     *)
(***************************************************************************)

\* A key has one row at most, so the intent under it is what that row says.
IntentsAreRows ==
  \A p \in Proposals, k \in Keys :
    /\ Under(p, k) = {} => IntentsSent[p][k] = [step |-> "none"]
    /\ \A x \in Under(p, k) : IntentsSent[p][k] = IntentOf(x)

LEMMA IntentsAre == RowsInv => IntentsAreRows
<1> SUFFICES ASSUME RowsInv, NEW p \in Proposals, NEW k \in Keys
             PROVE  /\ Under(p, k) = {} => IntentsSent[p][k] = [step |-> "none"]
                    /\ \A x \in Under(p, k) : IntentsSent[p][k] = IntentOf(x)
  BY DEF IntentsAreRows
<1>1. IntentsSent[p][k] = IntentUnder(p, k)
  BY DEF IntentsSent
<1>2. ASSUME NEW x \in Under(p, k)  PROVE LastUnder(p, k) = x
  <2>1. \A y \in Under(p, k) : y = x
    BY DEF RowsInv, RowsDiffer, Under, RowsOf
  <2> QED
    BY <2>1 DEF LastUnder
<1> QED
  BY <1>1, <1>2 DEF IntentUnder

LEMMA IntentsWillBe == RowsInv' => IntentsAreRows'
  BY IntentsAre, PTL

IntentStep ==
  [\E p \in Proposals, k \in Keys :
     Intents!SealIntent(p, k) \/ Intents!PublishIntent(p, k)]_IntentsSent

\* Where the row under a key is as it was, so is the intent.
LEMMA IntentKept ==
  ASSUME RowsInv, RowsInv', NEW p \in Proposals, NEW k \in Keys,
         Under(p, k)' = Under(p, k)
  PROVE  IntentsSent'[p][k] = IntentsSent[p][k]
<1>1. IntentsAreRows /\ IntentsAreRows'
  BY IntentsAre, IntentsWillBe
<1>2. CASE Under(p, k) = {}
  BY <1>1, <1>2 DEF IntentsAreRows
<1>3. ASSUME NEW x \in Under(p, k)
      PROVE  IntentsSent'[p][k] = IntentsSent[p][k]
  <2>1. IntentsSent[p][k] = IntentOf(x)
    BY <1>1 DEF IntentsAreRows
  <2>2. IntentsSent'[p][k] = IntentOf(x)'
    BY <1>1 DEF IntentsAreRows
  <2> QED
    BY <2>1, <2>2 DEF IntentOf
<1> QED
  BY <1>2, <1>3

\* A step that touches the rows of one key changes one intent.
LEMMA IntentChanged ==
  ASSUME RowsInv, RowsInv', NEW p \in Proposals, NEW k \in Keys, NEW v,
         \A q \in Proposals, j \in Keys :
           q # p \/ j # k => Under(q, j)' = Under(q, j),
         IntentsSent'[p][k] = v
  PROVE  IntentsSent' = [IntentsSent EXCEPT ![p][k] = v]
<1>1. \A q \in Proposals, j \in Keys :
        q # p \/ j # k => IntentsSent'[q][j] = IntentsSent[q][j]
  BY IntentKept
<1> DEFINE f == IntentsSent'
           g == [IntentsSent EXCEPT ![p][k] = v]
<1>2. /\ f = [q \in Proposals |-> f[q]]
      /\ g = [q \in Proposals |-> g[q]]
  BY DEF IntentsSent
<1>3. ASSUME NEW q \in Proposals  PROVE f[q] = g[q]
  <2>1. /\ f[q] = [j \in Keys |-> f[q][j]]
        /\ g[q] = [j \in Keys |-> g[q][j]]
    BY DEF IntentsSent
  <2>2. ASSUME NEW j \in Keys  PROVE f[q][j] = g[q][j]
    <3>1. g[q][j] = IF q = p /\ j = k THEN v ELSE IntentsSent[q][j]
      BY DEF IntentsSent
    <3> QED
      BY <1>1, <3>1
  <2> HIDE DEF f, g
  <2> QED
    BY <2>1, <2>2
<1> HIDE DEF f, g
<1>4. f = g
  BY <1>2, <1>3
<1> QED
  BY <1>4 DEF f, g

LEMMA PrepareMaps ==
  ASSUME SubmissionInv, NEW p \in Proposals, NEW role \in Roles, NEW key \in Keys,
         NEW body \in Bodies, PrepareCard(p, role, key, body)
  PROVE  IntentStep
<1>1. SubmissionTypeOK /\ RowsInv /\ RowsInv'
  BY PrepareCardKeepsRows DEF SubmissionInv
<1>2. PICK n \in Nat, b \in Rows :
         /\ b = [prop |-> p, card |-> n, key |-> key, body |-> body,
                 role |-> role, message |-> 0]
         /\ submissions' = submissions \cup {b}
  BY <1>1, PrepareCardFacts
<1>3. b.prop = p /\ b.key = key /\ b.message = 0 /\ b.body = body
  BY <1>2
<1>4. Under(p, key) = {}
  BY DEF PrepareCard, Unused
<1>5. /\ \A q \in Proposals, j \in Keys :
           q # p \/ j # key => Under(q, j)' = Under(q, j)
      /\ b \in Under(p, key)'
  BY <1>2, <1>3 DEF Under, RowsOf
<1>6. IntentsSent[p][key] = [step |-> "none"]
  BY <1>1, <1>4, IntentsAre DEF IntentsAreRows
<1>7. IntentsSent'[p][key] = [step |-> "sealed", body |-> body]
  <2>1. IntentsSent'[p][key] = IntentOf(b)'
    BY <1>1, <1>5, IntentsWillBe DEF IntentsAreRows
  <2> QED
    BY <1>3, <2>1 DEF IntentOf
<1>8. IntentsSent' = [IntentsSent EXCEPT ![p][key] =
                                      [step |-> "sealed", body |-> body]]
  BY <1>1, <1>5, <1>7, IntentChanged
<1>9. Intents!SealIntent(p, key)
  <2>1. /\ IntentsSent'[p][key].step = "sealed"
        /\ body \in Bodies \cap {IntentsSent'[p][key].body}
    BY <1>7
  <2>2. \E w \in Bodies \cap {IntentsSent'[p][key].body} :
          IntentsSent' = [IntentsSent EXCEPT ![p][key] = Intents!Sealed(w)]
    BY <1>8, <2>1 DEF Intents!Sealed
  <2> QED
    BY <1>6, <2>1, <2>2 DEF Intents!SealIntent, Intents!NoIntent
<1> QED
  BY <1>9 DEF IntentStep

LEMMA ConfirmMaps ==
  ASSUME SubmissionInv, NEW x \in submissions, NEW role \in Roles,
         NEW m \in DOMAIN messages, NEW named \in Chambers \cup {NoRoom},
         ConfirmCard(x, role, m, named)
  PROVE  IntentStep
<1>1. SubmissionTypeOK /\ RowsInv /\ RowsInv' /\ x \in Rows
  BY ConfirmCardKeepsRows DEF SubmissionInv, SubmissionTypeOK
<1>2. PICK y \in Rows :
         /\ y = [x EXCEPT !.message = m]
         /\ submissions' = (submissions \ {x}) \cup {y}
         /\ x.message = 0 /\ m \in Nat \ {0} /\ Unclaimed(m)
  BY <1>1, ConfirmCardFacts
<1>3. y.prop = x.prop /\ y.key = x.key /\ y.body = x.body /\ y.message = m
  BY <1>1, <1>2 DEF Rows
<1> DEFINE p == x.prop
           key == x.key
<1>4. p \in Proposals /\ key \in Keys
  BY <1>1 DEF Rows
<1>5. /\ \A q \in Proposals, j \in Keys :
           q # p \/ j # key => Under(q, j)' = Under(q, j)
      /\ x \in Under(p, key) /\ y \in Under(p, key)'
  BY <1>2, <1>3 DEF Under, RowsOf
<1>6. IntentsSent[p][key] = [step |-> "sealed", body |-> x.body]
  BY <1>1, <1>2, <1>4, <1>5, IntentsAre DEF IntentsAreRows, IntentOf
<1>7. IntentsSent'[p][key] = [step |-> "published", body |-> x.body, message |-> m]
  <2>1. IntentsSent'[p][key] = IntentOf(y)'
    BY <1>1, <1>4, <1>5, IntentsWillBe DEF IntentsAreRows
  <2> QED
    BY <1>2, <1>3, <2>1 DEF IntentOf
<1>8. IntentsSent' = [IntentsSent EXCEPT ![p][key] =
              [step |-> "published", body |-> x.body, message |-> m]]
  BY <1>1, <1>4, <1>5, <1>7, IntentChanged
<1>9. ASSUME NEW q \in Proposals, NEW k \in Keys,
             IntentsSent[q][k].step = "published",
             IntentsSent[q][k].message = m
      PROVE  FALSE
  <2>1. Under(q, k) # {}
    BY <1>1, <1>9, IntentsAre DEF IntentsAreRows
  <2>2. PICK z \in Under(q, k) : TRUE
    BY <2>1
  <2>3. IntentsSent[q][k] = IntentOf(z)
    BY <1>1, IntentsAre DEF IntentsAreRows
  <2>4. z.message = m /\ z \in submissions
    BY <1>9, <2>3 DEF IntentOf, Under, RowsOf
  <2> QED
    BY <1>2, <2>4 DEF Unclaimed
<1>10. Intents!PublishIntent(p, key)
  <2>1. ~ Intents!Certified(m)
    BY <1>9 DEF Intents!Certified
  <2> QED
    BY <1>4, <1>6, <1>7, <1>8, <2>1 DEF Intents!PublishIntent, Intents!Published
<1> QED
  BY <1>4, <1>10 DEF IntentStep

\* Every request is one step of the specification that knows neither chain nor
\* room, or none of its steps.
THEOREM HonoursCorrect == SubmissionSpec => HonoursIntents
<1>1. SubmissionInit => Intents!IntentInit
  <2> SUFFICES ASSUME SubmissionInit
               PROVE  IntentsSent = [p \in Proposals |-> [k \in Keys |->
                                      [step |-> "none"]]]
    BY DEF Intents!IntentInit, Intents!NoIntent
  <2>1. \A p \in Proposals, k \in Keys : Under(p, k) = {}
    BY DEF SubmissionInit, Under, RowsOf
  <2> QED
    BY <2>1 DEF IntentsSent, IntentUnder
<1>2. SubmissionInv /\ SubmissionInv' /\ [SubmissionNext]_submissionVars
        => IntentStep
  <2> SUFFICES ASSUME SubmissionInv, SubmissionInv',
                      [SubmissionNext]_submissionVars
               PROVE  IntentStep
    OBVIOUS
  <2>1. ASSUME submissions' = submissions  PROVE IntentStep
    <3>1. IntentsSent' = IntentsSent
      BY <2>1 DEF IntentsSent, IntentUnder, LastUnder, Under, RowsOf, IntentOf
    <3> QED
      BY <3>1 DEF IntentStep
  <2>2. CASE UNCHANGED submissionVars
    BY <2>1, <2>2 DEF submissionVars
  <2>3. CASE SubmissionNext
    <3>1. ASSUME NEW p \in Proposals, NEW role \in Clients,
                 NEW s \in DOMAIN cards[p], NEW tagged \in BOOLEAN,
                 NEW r \in Chambers, PostCard(p, role, s, tagged, r)
          PROVE  IntentStep
      BY <2>1, <3>1 DEF PostCard
    <3>2. ASSUME NEW r \in Chambers, NEW p \in Proposals \cup {NoProposal},
                 CreateRoom(r, p)
          PROVE  IntentStep
      BY <2>1, <3>2 DEF CreateRoom
    <3> QED
      BY <2>3, <3>1, <3>2, PrepareMaps, ConfirmMaps, ClientsAssumption
         DEF SubmissionNext
  <2> QED
    BY <2>2, <2>3
<1> QED
  BY <1>1, <1>2, SubmissionInvariant, PTL
     DEF SubmissionSpec, HonoursIntents, Intents!IntentSpec, IntentStep

=============================================================================
