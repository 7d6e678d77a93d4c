----------------------- MODULE AuthorizationLifecycle -----------------------
(***************************************************************************)
(* How a plan on the ledger becomes the right to execute it, once:         *)
(* gateway/routes/nonce.py, authorization.py, approve_ui.py and            *)
(* shared/approval.py, on top of the card ledger.                          *)
(*                                                                         *)
(* The commander has a nonce created for the plan in force and its         *)
(* challenge posted.  A human, through the room or the approval page,      *)
(* spends the nonce on an approval, a revision or a false alarm; a plan    *)
(* that needs no human gets a policy authorization instead.  Either way    *)
(* the gateway seals a card, stores a PENDING authorization, posts the     *)
(* card to the Council Chamber and only then publishes the authorization,  *)
(* which the operator consumes before it executes.                         *)
(*                                                                         *)
(* A handler commits in several transactions, and the room post between    *)
(* them can fail; the parameter `reach` says how far it got:               *)
(*   "sealed"    the first transaction, then the post failed               *)
(*   "posted"    the message is in the room, the last transaction is lost  *)
(*               (the process died, or SQLite refused it)                  *)
(*   "advanced"  all of it.                                                *)
(* What the lost part leaves behind is the PENDING authorization a retry   *)
(* resumes.                                                                *)
(***************************************************************************)
EXTENDS ProposalLedger

CONSTANT
  FingerprintOf     \* the fingerprint of the signal behind each proposal

ASSUME LifecycleAssumption ==
  \* Approvals and policy authorizations come from the gateway's own routes.
  /\ SubmittedTypes \cap {"StructuredApproval", "PolicyAuthorization"} = {}
  /\ DOMAIN FingerprintOf = Proposals

VARIABLES
  nonce,     \* the nonces table, by proposal and nonce
  auths,     \* the authorizations table
  learned    \* fingerprints with an active suppression rule

authorityVars == <<nonce, auths, learned>>
vars == <<state, cards, visible, nonce, auths, learned>>

NonceStatus == {"free", "active", "consumed", "invalidated"}
NonceRows == [plan : Nat, status : NonceStatus, challenged : BOOLEAN,
              lapsed : BOOLEAN]

NonceRow(plan, status) == [plan |-> plan, status |-> status,
                           challenged |-> FALSE, lapsed |-> FALSE]

AuthKinds == {"human_approval", "policy"}
AuthStatus == {"PENDING", "PUBLISHED", "CONSUMED"}

\* `card` is the sequence number of the sealed card (card_hash), `plan` the
\* plan the hashes of the row belong to, `envelopes` the plan envelopes_json
\* was copied from.  A plan is named by its own sequence number.
AuthRows == [prop : Proposals, kind : AuthKinds, card : Nat, plan : Nat,
             envelopes : Nat, nonce : AllRefs, status : AuthStatus,
             lapsed : BOOLEAN]

TypeOK ==
  /\ LedgerTypeOK
  /\ nonce \in [Proposals -> [Nonces -> NonceRows]]
  /\ auths \subseteq AuthRows
  /\ learned \subseteq {FingerprintOf[p] : p \in Proposals}

Init ==
  /\ LedgerInit
  /\ nonce = [p \in Proposals |-> [n \in Nonces |-> NonceRow(0, "free")]]
  /\ auths = {}
  /\ learned = {}

-----------------------------------------------------------------------------
(***************************************************************************)
(* Reading the ledger.                                                     *)
(***************************************************************************)

IsPublishedPlan(p, s) ==
  /\ s \in DOMAIN cards[p]
  /\ cards[p][s].type = "ResponsePlan"
  /\ cards[p][s].published

\* ... ORDER BY sequence_number DESC LIMIT 1: the plan in force.
IsPlanInForce(p, s) ==
  /\ IsPublishedPlan(p, s)
  /\ \A t \in DOMAIN cards[p] : IsPublishedPlan(p, t) => t <= s

NextSeq(p) == Len(cards[p]) + 1

\* The sealed card of an authorization or a decision, published or not.
SealDecision(p, t, o, r, published) ==
  /\ CountOf(p, t) < Quota[t]
  /\ cards' = [cards EXCEPT ![p] =
                 Append(@, [NewCard(t, o, r) EXCEPT !.published = published])]

Granted(a) == a.status \in {"PUBLISHED", "CONSUMED"}

-----------------------------------------------------------------------------
(***************************************************************************)
(* Nonces.                                                                 *)
(***************************************************************************)

\* Mutant: consumed nonces are invalidated with the others.
CreateNonce_All(p, n, s) ==
  /\ nonce[p][n].status = "free"
  /\ IsPlanInForce(p, s)
  /\ nonce' = [nonce EXCEPT ![p] = [m \in Nonces |->
                 IF m = n THEN NonceRow(s, "active")
                 ELSE IF @[m].status # "free"
                      THEN [@[m] EXCEPT !.status = "invalidated"]
                      ELSE @[m]]]
  /\ UNCHANGED <<ledgerVars, auths, learned>>

\* Mutant: bound to any confirmed plan.
CreateNonce_AnyPlan(p, n, s) ==
  /\ nonce[p][n].status = "free"
  /\ IsPublishedPlan(p, s)
  /\ nonce' = [nonce EXCEPT ![p] = [m \in Nonces |->
                 IF m = n THEN NonceRow(s, "active")
                 ELSE IF @[m].status = "active"
                      THEN [@[m] EXCEPT !.status = "invalidated"]
                      ELSE @[m]]]
  /\ UNCHANGED <<ledgerVars, auths, learned>>

\* POST /nonce/create: needs a confirmed plan, and nothing of the state.
CreateNonce(p, n, s) ==
  /\ nonce[p][n].status = "free"
  /\ IsPlanInForce(p, s)
  /\ nonce' = [nonce EXCEPT ![p] = [m \in Nonces |->
                 IF m = n THEN NonceRow(s, "active")
                 ELSE IF @[m].status = "active"
                      THEN [@[m] EXCEPT !.status = "invalidated"]
                      ELSE @[m]]]
  /\ UNCHANGED <<ledgerVars, auths, learned>>

\* POST /nonce/challenge-posted, when the room takes the message.
PostChallenge(p, n) ==
  /\ nonce[p][n].status = "active" /\ ~ nonce[p][n].lapsed
  /\ nonce' = [nonce EXCEPT ![p][n].challenged = TRUE]
  /\ UNCHANGED <<ledgerVars, auths, learned>>

\* Fifteen minutes pass.
LapseNonce(p, n) ==
  /\ nonce[p][n].status = "active"
  /\ nonce' = [nonce EXCEPT ![p][n].lapsed = TRUE]
  /\ UNCHANGED <<ledgerVars, auths, learned>>

\* Mutant: no replay check.
NonceValid_Replay(p, n, plan) ==
  nonce[p][n].challenged /\ nonce[p][n].plan = plan /\ ~ nonce[p][n].lapsed

\* validate_nonce_only, with the challenge required to be visible.
NonceValid(p, n, plan) ==
  /\ nonce[p][n].status = "active"
  /\ nonce[p][n].challenged
  /\ nonce[p][n].plan = plan
  /\ ~ nonce[p][n].lapsed

-----------------------------------------------------------------------------
(***************************************************************************)
(* Publishing an authorization.                                            *)
(***************************************************************************)

\* Mutants: published once posted; the state not advanced, or given the status
\* of the row; published but never posted.
StatusAt_Posted(reach) == IF reach = "sealed" THEN "PENDING" ELSE "PUBLISHED"
StateAt_Stays(p, reach, target) == state[p]
StateAt_Status(p, reach, target) ==
  IF reach = "advanced" THEN "PUBLISHED" ELSE state[p]
RoomAt_Never(p, s, reach) == visible

\* The row, the state and the room after a first attempt that got to `reach`.
StatusAt(reach) == IF reach = "advanced" THEN "PUBLISHED" ELSE "PENDING"
StateAt(p, reach, target) == IF reach = "advanced" THEN target ELSE state[p]
RoomAt(p, s, reach) ==
  IF reach = "sealed" THEN visible ELSE visible \cup {<<p, s>>}

\* Seal the card, insert the row, post the card, advance the lifecycle.
Issue(p, kind, plan, envelopes, r, reach) ==
  LET type   == IF kind = "policy" THEN "PolicyAuthorization"
                                   ELSE "StructuredApproval"
      dec    == IF kind = "policy" THEN "none" ELSE "APPROVED"
      target == IF kind = "policy" THEN "AUTHORIZED" ELSE "APPROVED"
  IN
  /\ SealDecision(p, type, dec, r, reach = "advanced")
  /\ auths' = auths \cup
       {[prop |-> p, kind |-> kind, card |-> NextSeq(p), plan |-> plan,
         envelopes |-> envelopes, nonce |-> r, status |-> StatusAt(reach),
         lapsed |-> FALSE]}
  /\ visible' = RoomAt(p, NextSeq(p), reach)
  /\ state' = [state EXCEPT ![p] = StateAt(p, reach, target)]

\* A retry of a PENDING row: post the sealed card again, then advance.
Republish(a, reach) ==
  LET target == IF a.kind = "policy" THEN "AUTHORIZED" ELSE "APPROVED"
  IN
  /\ reach \in {"posted", "advanced"}
  /\ a.status = "PENDING"
  /\ state[a.prop] = "PLANNED"
  /\ ~ cards[a.prop][a.card].published
  /\ IsPlanInForce(a.prop, a.plan)
  /\ Publish(a.prop, a.card, reach = "advanced")
  /\ auths' = (auths \ {a}) \cup {[a EXCEPT !.status = StatusAt(reach)]}
  /\ visible' = RoomAt(a.prop, a.card, reach)
  /\ state' = [state EXCEPT ![a.prop] = StateAt(a.prop, reach, target)]
  /\ UNCHANGED <<nonce, learned>>

-----------------------------------------------------------------------------
(***************************************************************************)
(* The human path.                                                         *)
(***************************************************************************)

\* POST /nonce/consume, and "approve" on the approval page.  The room path
\* brings the plan hash of the challenge it answers, the page that of the plan
\* in force; the nonce must be bound to it.  The envelopes are those of the
\* plan in force.
ConsumeNonce(p, n, plan, s, reach) ==
  /\ state[p] = "PLANNED"
  /\ NonceValid(p, n, plan)
  /\ IsPlanInForce(p, s)
  /\ Issue(p, "human_approval", plan, s, n, reach)
  /\ nonce' = [nonce EXCEPT ![p][n].status = "consumed"]
  /\ UNCHANGED learned

\* The same two requests again, for a nonce that has its authorization.
ResumePending(a, reach) ==
  /\ a.kind = "human_approval"
  /\ nonce[a.prop][a.nonce].status = "consumed"
  /\ Republish(a, reach)

\* The page's other two decisions seal their card, burn the nonce and move the
\* proposal in one transaction; the room hears of it afterwards, if ever.
Overrule(p, n, s, outcome, target) ==
  /\ state[p] = "PLANNED"
  /\ IsPlanInForce(p, s)
  /\ NonceValid(p, n, s)
  /\ SealDecision(p, "StructuredApproval", outcome, n, FALSE)
  /\ nonce' = [nonce EXCEPT ![p][n].status = "invalidated"]
  /\ state' = [state EXCEPT ![p] = target]
  /\ UNCHANGED <<visible, auths>>

Revise(p, n, s) ==
  /\ Overrule(p, n, s, "REJECTED", "REJECTED")
  /\ UNCHANGED learned

FalseAlarm(p, n, s) ==
  /\ Overrule(p, n, s, "FALSE_ALARM", "CLOSED_FALSE_ALARM")
  /\ learned' = learned \cup {FingerprintOf[p]}

\* _publish_rejection_to_room: right after the decision, or in one of the
\* retries that sleep while other requests are served.  The post may succeed
\* and the update of the card behind it fail; it is not tried again.
NotifyDecision(p, s, reach) ==
  /\ reach \in {"posted", "advanced"}
  /\ s \in DOMAIN cards[p]
  /\ cards[p][s].type = "StructuredApproval"
  /\ cards[p][s].outcome \in {"REJECTED", "FALSE_ALARM"}
  /\ <<p, s>> \notin visible
  /\ Publish(p, s, reach = "advanced")
  /\ visible' = visible \cup {<<p, s>>}
  /\ UNCHANGED <<state, authorityVars>>

-----------------------------------------------------------------------------
(***************************************************************************)
(* The policy path.                                                        *)
(***************************************************************************)

\* POST /authorization/request, the first time for a plan.
RequestPolicy(p, s, reach) ==
  /\ ~ \E a \in auths : a.prop = p /\ a.kind = "policy" /\ a.plan = s
  /\ state[p] = "PLANNED"
  /\ IsPlanInForce(p, s)
  /\ cards[p][s].ref = "auto"
  /\ Issue(p, "policy", s, s, "none", reach)
  /\ UNCHANGED <<nonce, learned>>

\* The same request again: the sealed card is found by its idempotency key.
RetryPolicy(a, reach) ==
  /\ a.kind = "policy"
  /\ Republish(a, reach)

-----------------------------------------------------------------------------
(***************************************************************************)
(* Spending an authorization, and what time and restarts do to it.         *)
(***************************************************************************)

\* Mutant: the plan is not compared with the one in force.
ConsumeAuthorization_AnyPlan(a) ==
  /\ a.status = "PUBLISHED" /\ ~ a.lapsed
  /\ auths' = (auths \ {a}) \cup {[a EXCEPT !.status = "CONSUMED"]}
  /\ UNCHANGED <<ledgerVars, nonce, learned>>

\* POST /authorization/{id}/consume by the operator.
ConsumeAuthorization(a) ==
  /\ a.status = "PUBLISHED"
  /\ ~ a.lapsed
  /\ IsPlanInForce(a.prop, a.plan)
  /\ auths' = (auths \ {a}) \cup {[a EXCEPT !.status = "CONSUMED"]}
  /\ UNCHANGED <<ledgerVars, nonce, learned>>

\* Its expiry passes; of a consumed one it no longer matters.
LapseAuthorization(a) ==
  /\ a.status # "CONSUMED" /\ ~ a.lapsed
  /\ auths' = (auths \ {a}) \cup {[a EXCEPT !.lapsed = TRUE]}
  /\ UNCHANGED <<ledgerVars, nonce, learned>>

\* The gateway starts again and _migrate publishes every PENDING row of a
\* proposal that has a confirmed PolicyAuthorization card.
HasPolicyCard_Sealed(p) ==   \* mutant: any sealed one counts
  \E s \in DOMAIN cards[p] : cards[p][s].type = "PolicyAuthorization"

HasPublishedPolicyCard(p) ==
  \E s \in DOMAIN cards[p] : /\ cards[p][s].type = "PolicyAuthorization"
                             /\ cards[p][s].published

Restart ==
  /\ auths' = {IF a.status = "PENDING" /\ HasPublishedPolicyCard(a.prop)
               THEN [a EXCEPT !.status = "PUBLISHED"] ELSE a : a \in auths}
  /\ UNCHANGED <<ledgerVars, nonce, learned>>

-----------------------------------------------------------------------------

Reaches == {"sealed", "posted", "advanced"}

LedgerStep == LedgerNext /\ UNCHANGED authorityVars

HumanStep ==
  \E p \in Proposals, n \in Nonces : \E s \in DOMAIN cards[p] :
    \/ CreateNonce(p, n, s)
    \/ \E plan \in DOMAIN cards[p], reach \in Reaches :
         ConsumeNonce(p, n, plan, s, reach)
    \/ Revise(p, n, s)
    \/ FalseAlarm(p, n, s)

ClockStep ==
  \/ \E p \in Proposals, n \in Nonces : LapseNonce(p, n)
  \/ \E a \in auths : LapseAuthorization(a)

GatewayStep ==
  \/ \E p \in Proposals, n \in Nonces : PostChallenge(p, n)
  \/ \E p \in Proposals : \E s \in DOMAIN cards[p] :
       \E reach \in Reaches :
         \/ NotifyDecision(p, s, reach)
         \/ RequestPolicy(p, s, reach)
  \/ \E a \in auths, reach \in Reaches :
       \/ ResumePending(a, reach)
       \/ RetryPolicy(a, reach)
  \/ \E a \in auths : ConsumeAuthorization(a)

Next == LedgerStep \/ HumanStep \/ GatewayStep \/ ClockStep

\* One process lifetime of the gateway: _migrate has run before any row exists.
Spec == Init /\ [][Next]_vars

\* With restarts.
RestartSpec == Init /\ [][Next \/ Restart]_vars

-----------------------------------------------------------------------------
(***************************************************************************)
(* Safety.                                                                 *)
(***************************************************************************)

Settled == {"APPROVED", "AUTHORIZED", "EXECUTED", "RESOLVED"}

GrantsOf(p) == {a \in auths : a.prop = p /\ Granted(a)}

\* A proposal never holds two published authorizations, whatever mixture of
\* approvals, policy requests, retries and revisions it went through: only one
\* of all the PENDING rows it collected ever gets past
\* advance_authorization_lifecycle.
OneGrantPerProposal ==
  \A a, b \in auths :
    a.prop = b.prop /\ Granted(a) /\ Granted(b) => a = b

\* The state and the authorizations table tell one story: a proposal is
\* approved, authorized or beyond exactly when it has a published
\* authorization, of the kind its state names.
GrantExplainsState ==
  \A p \in Proposals :
    /\ GrantsOf(p) # {} <=> state[p] \in Settled
    /\ state[p] = "APPROVED" => \A a \in GrantsOf(p) : a.kind = "human_approval"
    /\ state[p] = "AUTHORIZED" => \A a \in GrantsOf(p) : a.kind = "policy"

\* What the operator gets for a consumed authorization are the envelopes of the
\* very plan it was issued for, that plan is the one in force and stays it, and
\* a policy authorization never covers a plan the risk floor left to a human.
\* An approval sealed with the hashes of one plan and the envelopes of the next
\* exists (see ApprovalIsForPlanInForce) but is never spent.
SpentPlanIsInForce ==
  \A a \in auths : a.status = "CONSUMED" =>
    /\ IsPlanInForce(a.prop, a.plan)
    /\ a.envelopes = a.plan
    /\ a.kind = "policy" => cards[a.prop][a.plan].ref = "auto"

\* A nonce backs one human decision: no two approval, revision or false-alarm
\* cards of a proposal quote the same one, and each was sealed while its
\* challenge was visible in the Council Chamber.
OneDecisionPerNonce ==
  \A p \in Proposals : \A s \in DOMAIN cards[p] :
    cards[p][s].type = "StructuredApproval" =>
      /\ nonce[p][cards[p][s].ref].challenged
      /\ \A t \in DOMAIN cards[p] :
           /\ cards[p][t].type = "StructuredApproval"
           /\ cards[p][t].ref = cards[p][s].ref
           => s = t

\* No authorization is published before its card is: a grant has a published
\* card whose message is in the Council Chamber, where the operator reads it.
GrantIsVisible ==
  \A a \in auths : Granted(a) =>
    /\ a.card \in DOMAIN cards[a.prop]
    /\ cards[a.prop][a.card].published
    /\ <<a.prop, a.card>> \in visible

\* "Authorization is PENDING - retry is safe": as long as the proposal waits in
\* PLANNED for the same plan, no crash, failed post, other decision or newer
\* nonce leaves a PENDING row that its retry would refuse.
PendingCanBeRetried ==
  \A a \in auths :
    /\ a.status = "PENDING"
    /\ state[a.prop] = "PLANNED" /\ IsPlanInForce(a.prop, a.plan)
    => /\ a.card \in DOMAIN cards[a.prop]
       /\ ~ cards[a.prop][a.card].published
       /\ a.kind = "human_approval" => nonce[a.prop][a.nonce].status = "consumed"

\* Once an authorization is published no other plan comes into force: neither a
\* plan prepared earlier and confirmed late nor a later one.
GrantFreezesPlan ==
  [][\A p \in Proposals : GrantsOf(p) # {} =>
       \A s \in DOMAIN cards[p] : IsPlanInForce(p, s)' <=> IsPlanInForce(p, s)]_vars

-----------------------------------------------------------------------------
(***************************************************************************)
(* The promise behind it: ExecutionAuthority.                              *)
(***************************************************************************)

\* The plan in force, 0 before the first is confirmed.
PlanInForce(p) ==
  IF \E s \in DOMAIN cards[p] : IsPlanInForce(p, s)
  THEN CHOOSE s \in DOMAIN cards[p] : IsPlanInForce(p, s)
  ELSE 0

\* The card of the published authorization, 0 while there is none.
GrantCard(p) ==
  IF GrantsOf(p) = {} THEN 0 ELSE (CHOOSE a \in GrantsOf(p) : TRUE).card

SpendingsOf(p) ==
  {[card |-> a.card, authorised |-> a.plan, executed |-> a.envelopes] :
     a \in {b \in GrantsOf(p) : b.status = "CONSUMED"}}

Authority == INSTANCE ExecutionAuthority
  WITH inForce <- [p \in Proposals |-> PlanInForce(p)],
       grant   <- [p \in Proposals |-> GrantCard(p)],
       spent   <- [p \in Proposals |-> SpendingsOf(p)]

\* The gateway implements ExecutionAuthority: over any mixture of requests,
\* lost posts, retries and late confirmations it hands the operator at most one
\* set of envelopes, those of the plan that was authorised and is in force.
ExecutesWhatWasGranted == Authority!AuthSpec

-----------------------------------------------------------------------------
(***************************************************************************)
(* What the documentation says and the code does not do.                   *)
(***************************************************************************)

\* "the nonce must match the current plan/action hashes" (nonce.py): a proposal
\* is APPROVED only by an approval of its plan in force.  The code compares the
\* nonce with the hashes the request brings, and /nonce/create gives out a
\* nonce for a plan that has just been rejected.
ApprovalIsForPlanInForce ==
  \A p \in Proposals : state[p] = "APPROVED" =>
    \A a \in GrantsOf(p) : IsPlanInForce(p, a.plan)

\* "This catches ALL stale-card scenarios including ... Old ResponsePlan
\* approval after plan revision" (submission.py): a plan that comes into force
\* was sealed after every revision a human has asked for.  The code compares
\* with confirmed cards only, and a revision is applied before its card is.
NewPlanAnswersRevision ==
  [][\A p \in Proposals : \A s \in DOMAIN cards[p] :
       (cards[p][s].type = "ResponsePlan" /\ ~ cards[p][s].published
          /\ cards'[p][s].published)
       => ~ \E t \in DOMAIN cards[p] :
              t > s /\ cards[p][t].outcome = "REJECTED"]_vars

=============================================================================
