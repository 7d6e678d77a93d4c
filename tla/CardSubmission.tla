--------------------------- MODULE CardSubmission ---------------------------
(***************************************************************************)
(* The submission protocol under the ledger: gateway/routes/submission.py, *)
(* seal_card of shared/integrity.py, the Council Chambers of               *)
(* gateway/routes/rooms.py and the clients of shared/submission_client.py. *)
(*                                                                         *)
(* A client sends a request body under an idempotency key; the gateway     *)
(* seals at most one card under a key and answers a repetition of the same *)
(* body with the card it has.  The card is published by a message of a     *)
(* Council Chamber, and a client confirms it by naming that message and    *)
(* the room: the gateway checks that the message is in that room, as whom  *)
(* it was posted and which card it carries, and that no other card was     *)
(* confirmed with it.  The room has to be the one stored with the          *)
(* proposal; while none is stored, the confirmation's room is taken and    *)
(* stored, whatever room it is.                                            *)
(*                                                                         *)
(* Clients are free: they repeat requests, reuse keys, open rooms, post    *)
(* what they like where they like, under whatever role they state, and     *)
(* claim any message and room.  A refused request changes nothing.         *)
(***************************************************************************)
EXTENDS ProposalLedger

CONSTANTS
  Keys,          \* idempotency keys
  Takes,         \* wordings that tell two bodies with the same decision apart
  Clients,       \* the roles whose clients take part
  Chambers,      \* identifiers of Council Chambers
  NoRoom,        \* in the place of one: none is stored, or none is named
  NoProposal,    \* a room may be opened for no proposal
  MaxMessages    \* bound: messages in the Council Chambers

ASSUME SubmissionAssumption ==
  /\ "StructuredApproval" \notin SubmittedTypes
  /\ MaxMessages \in Nat
  /\ Takes # {}
  /\ NoRoom \notin Chambers /\ NoProposal \notin Proposals

Levels == {"low", "high"}

\* What a client sends: the decision, the impact an Assessment finds or the
\* risk a ResponsePlan claims, and the wording.
Bodies == {b \in [type : CardTypes, outcome : AllOutcomes,
                  level : Levels \cup {"none"}, take : Takes] :
             /\ b.outcome \in Outcomes(b.type)
             /\ IF b.type \in {"Assessment", "ResponsePlan"}
                THEN b.level \in Levels ELSE b.level = "none"}

Author ==
  [ProposalCard           |-> "recorder",
   TriageDecision         |-> "triage",
   Assessment             |-> "diagnosis",
   Verdict                |-> "safety_reviewer",
   ResponsePlan           |-> "commander",
   CasperExecutionReceipt |-> "operator"]

Roles == {Author[t] : t \in DOMAIN Author} \cup {"gateway"}

ASSUME ClientsAssumption == Clients \subseteq Roles

\* The key of a request gives its role, the role the types it may submit.
CanSubmit(role, t) ==
  role = "gateway" \/ (t \in DOMAIN Author /\ Author[t] = role)

VARIABLES
  submissions,   \* the request behind each submitted card
  messages,      \* proposal_room_messages, in order
  rooms,         \* proposal_rooms: the rooms there are and what for
  chamber        \* the room stored with each proposal (proposals.room_id)

roomVars == <<rooms, chamber>>
submissionVars == <<ledgerVars, submissions, messages, roomVars>>

\* `message` is room_message_id: the message the card was confirmed with, 0
\* until then.
Rows == [prop : Proposals, card : Nat, key : Keys, body : Bodies,
         role : Roles, message : Nat]

\* `cards` are the cards of `prop` whose hash the verification finds in the
\* message, `role` the sender_role that the request stated.
Messages == [room : Chambers, prop : Proposals, role : Roles, cards : SUBSET Nat]

SubmissionTypeOK ==
  /\ LedgerTypeOK
  /\ submissions \subseteq Rows
  /\ messages \in Seq(Messages)
  /\ rooms \subseteq [id : Chambers, prop : Proposals \cup {NoProposal}]
  /\ chamber \in [Proposals -> Chambers \cup {NoRoom}]

SubmissionInit ==
  /\ LedgerInit
  /\ submissions = {}
  /\ messages = <<>>
  /\ rooms = {}
  /\ chamber = [p \in Proposals |-> NoRoom]

-----------------------------------------------------------------------------
(***************************************************************************)
(* POST /prepare/{card_type}                                               *)
(***************************************************************************)

RowsOf(p) == {x \in submissions : x.prop = p}

\* The card already sealed under a key of a proposal.
Under(p, key) == {x \in RowsOf(p) : x.key = key}

\* The latest sealed Assessment, confirmed or not: what the floor reads.
LatestAssessment(p, x) ==
  /\ x \in RowsOf(p) /\ x.body.type = "Assessment"
  /\ \A y \in RowsOf(p) : y.body.type = "Assessment" => y.card <= x.card

\* Mutant: the client's risk is final.
RiskFloor_Advisory(p, body) ==
  IF body.type # "ResponsePlan" THEN "none"
  ELSE IF body.level = "high" THEN "human" ELSE "auto"

\* A plan needs a human if its client says so or the Assessment does.
RiskFloor(p, body) ==
  IF body.type # "ResponsePlan" THEN "none"
  ELSE IF \/ body.level = "high"
          \/ \E x \in RowsOf(p) : LatestAssessment(p, x) /\ x.body.level = "high"
       THEN "human" ELSE "auto"

\* Mutant: only the same body under the same key is recognised.
Unused_SameBody(p, key, body) == \A x \in Under(p, key) : x.body # body

\* Same key and body: the sealed card is returned.  Same key and another body
\* or type: 409.
Unused(p, key, body) == Under(p, key) = {}

PrepareCard(p, role, key, body) ==
  /\ CanSubmit(role, body.type)
  /\ Unused(p, key, body)
  /\ Prepare(p, body.type, body.outcome, RiskFloor(p, body))
  /\ submissions' = submissions \cup
       {[prop |-> p, card |-> Len(cards[p]) + 1, key |-> key, body |-> body,
         role |-> role, message |-> 0]}
  /\ UNCHANGED <<messages, roomVars>>

-----------------------------------------------------------------------------
(***************************************************************************)
(* POST /rooms, and POST /rooms/{room_id}/messages with a sealed card.     *)
(***************************************************************************)

\* A proposal has one room of its own.  It is stored with the proposal where the
\* proposal has a row, in the place of whatever room a confirmation stored.
CreateRoom(r, p) ==
  /\ \A q \in rooms : q.id # r
  /\ p \in Proposals => \A q \in rooms : q.prop # p
  /\ rooms' = rooms \cup {[id |-> r, prop |-> p]}
  /\ chamber' = [q \in Proposals |->
                   IF q = p /\ state[q] # "ABSENT" THEN r ELSE chamber[q]]
  /\ UNCHANGED <<ledgerVars, submissions, messages>>

\* With card_hash in its metadata a message carries that card only; without, a
\* card's hash is searched in the text, and the text of a sealed card quotes the
\* hash of the card before it in the chain.
Carried(s, tagged) == IF tagged THEN {s} ELSE {s} \cup ({s - 1} \ {0})

\* The card of p goes into any room there is.
PostCard(p, role, s, tagged, r) ==
  /\ s \in DOMAIN cards[p]
  /\ \E q \in rooms : q.id = r
  /\ Len(messages) < MaxMessages
  /\ messages' = Append(messages,
                   [room |-> r, prop |-> p, role |-> role,
                    cards |-> Carried(s, tagged)])
  /\ visible' = visible \cup ({p} \X Carried(s, tagged))
  /\ UNCHANGED <<state, cards, submissions, roomVars>>

-----------------------------------------------------------------------------
(***************************************************************************)
(* POST /confirm                                                           *)
(***************************************************************************)

\* A message is about one proposal, that of the card hashes it shows.
Carries(m, x) == messages[m].prop = x.prop /\ x.card \in messages[m].cards

\* Mutant: a message is looked up by its identifier alone.
Certifies_AnyRoom(m, x, r) ==
  Carries(m, x) /\ (x.role = "gateway" \/ messages[m].role = x.role)

\* _verify_room_publication: the claimed message is in room r, was posted as the
\* role that prepared the card, and carries the card.
Certifies(m, x, r) ==
  /\ messages[m].room = r
  /\ Carries(m, x)
  /\ x.role = "gateway" \/ messages[m].role = x.role

Unclaimed(m) == \A x \in submissions : x.message # m

\* stored_room_id or room_id.
ExpectedRoom(p, named) == IF chamber[p] # NoRoom THEN chamber[p] ELSE named

\* A room that is named is stored.
ConfirmCard(x, role, m, named) ==
  /\ role \in {x.role, "gateway"}
  /\ chamber[x.prop] # NoRoom /\ named # NoRoom => named = chamber[x.prop]
  /\ ExpectedRoom(x.prop, named) # NoRoom
  /\ Certifies(m, x, ExpectedRoom(x.prop, named))
  /\ Unclaimed(m)
  /\ Confirm(x.prop, x.card)
  /\ submissions' = (submissions \ {x}) \cup {[x EXCEPT !.message = m]}
  /\ chamber' = [chamber EXCEPT ![x.prop] = IF named = NoRoom THEN @ ELSE named]
  /\ UNCHANGED <<messages, rooms>>

-----------------------------------------------------------------------------

SubmissionNext ==
  \/ \E p \in Proposals, role \in Clients :
       \/ \E key \in Keys, body \in Bodies : PrepareCard(p, role, key, body)
       \/ \E s \in DOMAIN cards[p], tagged \in BOOLEAN, r \in Chambers :
            PostCard(p, role, s, tagged, r)
  \/ \E r \in Chambers, p \in Proposals \cup {NoProposal} : CreateRoom(r, p)
  \/ \E x \in submissions, role \in Clients, m \in DOMAIN messages,
        named \in Chambers \cup {NoRoom} :
       ConfirmCard(x, role, m, named)

SubmissionSpec == SubmissionInit /\ [][SubmissionNext]_submissionVars

-----------------------------------------------------------------------------

IntentOf(x) ==
  IF x.message = 0 THEN [step |-> "sealed", body |-> x.body]
  ELSE [step |-> "published", body |-> x.body, message |-> x.message]

LastUnder(p, k) ==
  CHOOSE x \in Under(p, k) : \A y \in Under(p, k) : y.card <= x.card

IntentUnder(p, k) ==
  IF Under(p, k) = {} THEN [step |-> "none"] ELSE IntentOf(LastUnder(p, k))

IntentsSent == [p \in Proposals |-> [k \in Keys |-> IntentUnder(p, k)]]

Intents == INSTANCE CardIntent WITH intent <- IntentsSent

\* "This makes redelivery safe: same message -> same sealed card (or 409)" and
\* "One room message may certify exactly one sealed card": however clients
\* repeat, reorder and cross their requests, the body first sent under a key is
\* the only one ever sealed under it, it is published once, by a message that
\* publishes nothing else, and neither is taken back.
HonoursIntents == Intents!IntentSpec

\* A confirmed card stands in a room: its row names a message that shows its
\* hash, posted as the role that prepared it, and only that row carries the
\* confirmation.
ConfirmedCardHasMessage ==
  \A p \in Proposals : \A s \in DOMAIN cards[p] :
    cards[p][s].published =>
      \E x \in RowsOf(p) :
        /\ x.card = s /\ CanSubmit(x.role, cards[p][s].type)
        /\ x.message \in DOMAIN messages /\ Carries(x.message, x)
        /\ x.role = "gateway" \/ messages[x.message].role = x.role

ConfirmedRows(p) == {x \in RowsOf(p) : x.message # 0}

OwnRoom(p, r) == [id |-> r, prop |-> p] \in rooms

\* Which room that is, the first confirmation decides where the proposal has
\* none (it may be another proposal's).  From then on the confirmed cards stand
\* in that one room, in any order of posts, confirmations and new rooms: only
\* POST /rooms, once, moves the proposal to a room of its own, and then the cards
\* before it stand in the one and all later ones in the other.
ConfirmedCardsShareRoom ==
  \A p \in Proposals : \A x, y \in ConfirmedRows(p) :
    LET rx == messages[x.message].room
        ry == messages[y.message].room
    IN  /\ chamber[p] # NoRoom
        /\ rx # chamber[p] => OwnRoom(p, chamber[p])
        /\ rx # ry /\ x.card < y.card => rx # chamber[p] /\ ry = chamber[p]

ConfirmedCardIsInRoom == ConfirmedCardHasMessage /\ ConfirmedCardsShareRoom

\* A plan the policy may authorize stays one: from its sealing on no Assessment
\* of a high impact comes behind the floor it was given, although Assessments,
\* plans and their confirmations arrive in any order (TOCTOU between the floor
\* and the confirmation of the plan).
FloorStands ==
  \A p \in Proposals : \A s \in DOMAIN cards[p] :
    cards[p][s].type = "ResponsePlan" /\ cards[p][s].ref = "auto" =>
      \A x \in RowsOf(p) : LatestAssessment(p, x) => x.body.level = "low"

=============================================================================
