--------------------------- MODULE ProposalLedger ---------------------------
(***************************************************************************)
(* The gateway's card ledger: gateway/routes/submission.py over            *)
(* shared/integrity.py.                                                    *)
(*                                                                         *)
(* Every proposal owns an append-only chain of sealed cards.  An agent     *)
(* PREPARES a card (the gateway seals it as the next link of the chain),   *)
(* POSTS it to the proposal's Council Chamber, and asks the gateway to     *)
(* CONFIRM the publication; only a confirmation advances the proposal.     *)
(* Any number of cards may be sealed and not yet confirmed, posts and      *)
(* confirmations arrive in any order, and any of them may never arrive.    *)
(*                                                                         *)
(* One action is one request handler.  The gateway runs one event loop and *)
(* these handlers do not await between their first read and their COMMIT.  *)
(* A request that is refused, or that repeats one already answered (same   *)
(* idempotency key and payload, same message id), changes nothing and is a *)
(* stuttering step.                                                        *)
(***************************************************************************)
EXTENDS Naturals, Sequences, FiniteSets

CONSTANTS
  Proposals,        \* the proposals the gateway knows or will know
  Nonces,           \* the approval nonces a StructuredApproval card can quote
  SubmittedTypes,   \* the card types clients submit through /prepare
  Quota             \* bound: cards of each type one proposal may collect

CardTypes == {"ProposalCard", "TriageDecision", "Assessment", "Verdict",
              "ResponsePlan", "StructuredApproval", "PolicyAuthorization",
              "CasperExecutionReceipt", "GovernanceSummary"}

States == {"ABSENT", "DETECTED", "TRIAGED", "SUPPRESSED", "ASSESSED",
           "REVIEWED", "CHALLENGED", "ESCALATED_HUMAN", "CLOSED_FALSE_ALARM",
           "PLANNED", "REJECTED", "APPROVED", "AUTHORIZED", "EXECUTED",
           "RESOLVED"}

ASSUME LedgerAssumption ==
  /\ SubmittedTypes \subseteq CardTypes
  /\ Quota \in [CardTypes -> Nat]
  /\ Nonces \cap {"auto", "human", "none"} = {}

\* The `decision` field of a card, "none" for the types that have none.
Outcomes(t) ==
  CASE t = "TriageDecision"     -> {"route", "suppress"}
    [] t = "Verdict"            -> {"CONFIRM", "CHALLENGE", "FALSE_ALARM",
                                    "NEEDS_HUMAN"}
    [] t = "StructuredApproval" -> {"APPROVED", "REJECTED", "FALSE_ALARM"}
    [] OTHER                    -> {"none"}

AllOutcomes == UNION {Outcomes(t) : t \in CardTypes}

\* The one other part of a card's body the properties tell apart: whether the
\* gateway's deterministic risk floor leaves a plan to policy or to a human,
\* and the nonce an approval quotes.
Refs(t) ==
  CASE t = "ResponsePlan"       -> {"auto", "human"}
    [] t = "StructuredApproval" -> Nonces
    [] OTHER                    -> {"none"}

AllRefs == Nonces \cup {"auto", "human", "none"}

Cards == {c \in [type : CardTypes, outcome : AllOutcomes, ref : AllRefs,
                 published : BOOLEAN] :
            c.outcome \in Outcomes(c.type) /\ c.ref \in Refs(c.type)}

BaseTransitions ==
  [ProposalCard           |-> "DETECTED",
   TriageDecision         |-> "TRIAGED",
   Assessment             |-> "ASSESSED",
   ResponsePlan           |-> "PLANNED",
   StructuredApproval     |-> "APPROVED",
   PolicyAuthorization    |-> "AUTHORIZED",
   CasperExecutionReceipt |-> "EXECUTED",
   GovernanceSummary      |-> "RESOLVED"]

\* The table's keys are pairs of a type and a decision; the two types that share
\* a decision send it to the same state.
OutcomeTransitions ==
  [CONFIRM     |-> "REVIEWED",
   CHALLENGE   |-> "CHALLENGED",
   FALSE_ALARM |-> "CLOSED_FALSE_ALARM",
   NEEDS_HUMAN |-> "ESCALATED_HUMAN",
   route       |-> "TRIAGED",
   suppress    |-> "SUPPRESSED",
   APPROVED    |-> "APPROVED",
   REJECTED    |-> "REJECTED"]

\* The state a confirmed card moves its proposal to.
Resolve(c) ==
  IF c.outcome \in DOMAIN OutcomeTransitions
  THEN OutcomeTransitions[c.outcome]
  ELSE BaseTransitions[c.type]

\* The states in which a card of a type may be prepared and confirmed.  A
\* ProposalCard has no prerequisite: it creates its proposal.
Prerequisite(t) ==
  CASE t = "TriageDecision"         -> {"DETECTED"}
    [] t = "Assessment"             -> {"TRIAGED", "CHALLENGED"}
    [] t = "Verdict"                -> {"ASSESSED"}
    [] t = "ResponsePlan"           -> {"REVIEWED", "REJECTED",
                                        "ESCALATED_HUMAN"}
    [] t = "StructuredApproval"     -> {"PLANNED"}
    [] t = "PolicyAuthorization"    -> {"PLANNED"}
    [] t = "CasperExecutionReceipt" -> {"APPROVED", "AUTHORIZED"}
    [] t = "GovernanceSummary"      -> {"EXECUTED"}
    [] OTHER                        -> States

-----------------------------------------------------------------------------

VARIABLES
  state,     \* proposals.state
  cards,     \* the cards table: the sealed chain of every proposal
  visible    \* <<p, s>>: card s of p has a message in a Council Chamber

ledgerVars == <<state, cards, visible>>

LedgerTypeOK ==
  /\ state \in [Proposals -> States]
  /\ cards \in [Proposals -> Seq(Cards)]
  /\ visible \subseteq (Proposals \X (Nat \ {0}))

LedgerInit ==
  /\ state = [p \in Proposals |-> "ABSENT"]
  /\ cards = [p \in Proposals |-> <<>>]
  /\ visible = {}

CountOf(p, t) == Cardinality({s \in DOMAIN cards[p] : cards[p][s].type = t})

NewCard(t, o, r) == [type |-> t, outcome |-> o, ref |-> r, published |-> FALSE]

\* Sealing links a card behind the last one of its proposal; its position is
\* its sequence_number.
Seal(p, t, o, r) ==
  /\ CountOf(p, t) < Quota[t]
  /\ cards' = [cards EXCEPT ![p] = Append(@, NewCard(t, o, r))]

\* Mutants: a plan may replace an approved one, a receipt may be retried.
Allowed_Replan(p, t) ==
  state[p] \in Prerequisite(t) \/ (t = "ResponsePlan" /\ state[p] = "APPROVED")
Allowed_ReceiptAgain(p, t) ==
  \/ state[p] \in Prerequisite(t)
  \/ t = "CasperExecutionReceipt" /\ state[p] = "EXECUTED"

\* Checked when a card is prepared and again when it is confirmed.
Allowed(p, t) == state[p] \in Prerequisite(t)

\* POST /prepare/{card_type}
Prepare(p, t, o, r) ==
  /\ t \in SubmittedTypes
  /\ Allowed(p, t)
  /\ Seal(p, t, o, r)
  /\ state' = [state EXCEPT ![p] = IF @ = "ABSENT" THEN "DETECTED" ELSE @]
  /\ UNCHANGED visible

\* POST /rooms/{room_id}/messages with the sealed card in it.
PostToRoom(p, s) ==
  /\ s \in DOMAIN cards[p]
  /\ cards[p][s].type \in SubmittedTypes
  /\ visible' = visible \cup {<<p, s>>}
  /\ UNCHANGED <<state, cards>>

\* Mutants: no staleness check; one that looks at cards of the same type only.
NewerConfirmed_Off(p, s) == FALSE
NewerConfirmed_SameType(p, s) ==
  \E t \in DOMAIN cards[p] : /\ t > s /\ cards[p][t].published
                             /\ cards[p][t].type = cards[p][s].type

NewerConfirmed(p, s) == \E t \in DOMAIN cards[p] : t > s /\ cards[p][t].published

\* Mutant: the decision taken for a state.
StateAfter_Decision(p, c) ==
  IF c.outcome = "none" THEN Resolve(c) ELSE c.outcome

\* A late ProposalCard is published for the audit trail and moves nothing.
StateAfter(p, c) ==
  IF c.type = "ProposalCard" /\ state[p] # "DETECTED" THEN state[p]
                                                      ELSE Resolve(c)

\* published_at of a sealed card, set or left alone.
Publish(p, s, done) == cards' = [cards EXCEPT ![p][s].published = done]

\* POST /confirm
Confirm(p, s) ==
  /\ s \in DOMAIN cards[p]
  /\ cards[p][s].type \in SubmittedTypes
  /\ ~ cards[p][s].published
  /\ <<p, s>> \in visible
  /\ Allowed(p, cards[p][s].type)
  /\ ~ NewerConfirmed(p, s)
  /\ Publish(p, s, TRUE)
  /\ state' = [state EXCEPT ![p] = StateAfter(p, cards[p][s])]
  /\ UNCHANGED visible

LedgerNext ==
  \E p \in Proposals :
    \/ \E t \in CardTypes : \E o \in Outcomes(t), r \in Refs(t) :
         Prepare(p, t, o, r)
    \/ \E s \in DOMAIN cards[p] : PostToRoom(p, s)
    \/ \E s \in DOMAIN cards[p] : Confirm(p, s)

LedgerSpec == LedgerInit /\ [][LedgerNext]_ledgerVars

-----------------------------------------------------------------------------
(***************************************************************************)
(* What the chain promises.                                                *)
(***************************************************************************)

\* A confirmed card that moves the state machine.
Drives(p, s) ==
  s \in DOMAIN cards[p] /\ cards[p][s].published
                        /\ cards[p][s].type # "ProposalCard"

LastDriver(p, s) ==
  Drives(p, s) /\ \A t \in DOMAIN cards[p] : Drives(p, t) => t <= s

\* Replaying the exported chain gives the stored state: a proposal is in the
\* state its highest confirmed card resolves to, and in DETECTED when no card
\* has moved it, whatever order cards were prepared, posted and confirmed in
\* (the staleness check and the ProposalCard guard of /confirm).
StateIsReplayOfChain ==
  \A p \in Proposals :
    /\ \A s \in DOMAIN cards[p] :
         LastDriver(p, s) => state[p] = Resolve(cards[p][s])
    /\ (\A s \in DOMAIN cards[p] : ~ Drives(p, s))
         => state[p] \in {"ABSENT", "DETECTED"}

\* The driver before s in the chain, or DETECTED, allows a card of its type.
LegalMove(p, s) ==
  \/ /\ \A t \in DOMAIN cards[p] : t < s => ~ Drives(p, t)
     /\ "DETECTED" \in Prerequisite(cards[p][s].type)
  \/ \E t \in DOMAIN cards[p] :
       /\ t < s /\ Drives(p, t)
       /\ \A u \in DOMAIN cards[p] : t < u /\ u < s => ~ Drives(p, u)
       /\ Resolve(cards[p][t]) \in Prerequisite(cards[p][s].type)

\* Every confirmed card is a legal move of the card confirmed before it in the
\* chain: an auditor who replays /export/evidence in sequence order never meets
\* a card whose prerequisite state the cards before it do not give.
ChainIsLegalPath ==
  \A p \in Proposals : \A s \in DOMAIN cards[p] :
    Drives(p, s) => LegalMove(p, s)

\* A proposal is executed at most once: no chain holds two confirmed
\* CasperExecutionReceipts, however many the operator prepared.
OneReceiptPerProposal ==
  \A p \in Proposals : \A s, t \in DOMAIN cards[p] :
    /\ Drives(p, s) /\ cards[p][s].type = "CasperExecutionReceipt"
    /\ Drives(p, t) /\ cards[p][t].type = "CasperExecutionReceipt"
    => s = t

\* Authority, once confirmed, is never reopened: behind a confirmed approval or
\* policy authorization only the receipt and the summary are ever confirmed, so
\* no verdict, assessment, plan or second decision slips in after it.
AuthorityIsNeverReopened ==
  \A p \in Proposals : \A s, t \in DOMAIN cards[p] :
    /\ Drives(p, s) /\ Resolve(cards[p][s]) \in {"APPROVED", "AUTHORIZED"}
    /\ Drives(p, t) /\ t > s
    => cards[p][t].type \in {"CasperExecutionReceipt", "GovernanceSummary"}

=============================================================================
