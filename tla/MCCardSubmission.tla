-------------------------- MODULE MCCardSubmission --------------------------
(***************************************************************************)
(* Three worlds for the submission protocol, one of which a behaviour      *)
(* takes.                                                                  *)
(* "clients": three clients that do whatever the protocol lets them, with  *)
(* two ProposalCards and a TriageDecision, so that one message can be      *)
(* claimed for several cards and one key sent with several bodies.         *)
(* "floor": agents that post their own cards, each under a fresh key, and  *)
(* take one proposal over two Assessments to a plan.                       *)
(* "rooms": two proposals, whose cards go to any of two rooms, opened      *)
(* before or after for one of them or for none.                            *)
(***************************************************************************)
EXTENDS CardSubmission, TLC

CONSTANTS ClientKeys, k1, k2, k3, k4, k5, k6, p1, p2, r1, r2

VARIABLE world

MCVars == <<submissionVars, world>>

MCSubmitted == CardTypes \ {"StructuredApproval"}
MCQuota ==
  [t \in CardTypes |-> IF t \in {"ProposalCard", "Assessment"} THEN 2
                       ELSE IF t \in {"TriageDecision", "Verdict", "ResponsePlan"}
                       THEN 1 ELSE 0]
MCSymmetry == Permutations(ClientKeys) \cup Permutations({r1, r2})

\* The room of p1 in the worlds that are not about rooms.
OpenRoom == state[p1] # "ABSENT" /\ CreateRoom(r1, p1)

ClientBodies == {b \in Bodies : b.type \in {"ProposalCard", "TriageDecision"}}

\* SubmissionNext with keys, bodies and messages of this world.
ClientsNext ==
  \/ \E role \in Clients :
       \/ \E key \in ClientKeys, body \in ClientBodies :
            PrepareCard(p1, role, key, body)
       \/ \E s \in DOMAIN cards[p1], tagged \in BOOLEAN :
            Len(messages) < 3 /\ PostCard(p1, role, s, tagged, r1)
  \/ OpenRoom
  \/ \E x \in submissions, role \in Clients, m \in DOMAIN messages :
       ConfirmCard(x, role, m, r1)

FloorKeys == <<k1, k2, k3, k4, k5, k6>>

Posted(x) == \E m \in DOMAIN messages : Carries(m, x)

\* Up to the triage in one order, then in every order.
FloorNext ==
  \/ \E body \in Bodies :
       /\ body.type \in DOMAIN Author
       /\ body.type = "ProposalCard" => cards[p1] = <<>>
       /\ body.type = "TriageDecision" => body.outcome = "route"
       /\ Cardinality(submissions) < Len(FloorKeys)
       /\ PrepareCard(p1, Author[body.type],
                      FloorKeys[Cardinality(submissions) + 1], body)
  \/ \E x \in submissions :
       /\ x.body.type \in {"ProposalCard", "TriageDecision"}
            => ~ Posted(x)
       /\ PostCard(p1, x.role, x.card, TRUE, r1)
  \/ OpenRoom
  \/ \E x \in submissions, m \in DOMAIN messages : ConfirmCard(x, x.role, m, NoRoom)

\* A signal of p1 with its triage or a second signal, and a signal of p2.
RoomBodies == {b \in Bodies : b.type \in {"ProposalCard", "TriageDecision"}
                              /\ b.outcome \in {"none", "route"}}

RoomsNext ==
  \/ \E p \in Proposals, body \in RoomBodies :
       /\ Len(cards[p]) < (IF p = p1 THEN 2 ELSE 1)
       /\ PrepareCard(p, Author[body.type], FloorKeys[Len(cards[p]) + 1], body)
  \/ \E r \in Chambers, p \in Proposals \cup {NoProposal} : CreateRoom(r, p)
  \/ \E x \in submissions, r \in Chambers :
       Len(messages) < 3 /\ PostCard(x.prop, x.role, x.card, TRUE, r)
  \/ \E x \in submissions, m \in DOMAIN messages, named \in Chambers \cup {NoRoom} :
       ConfirmCard(x, x.role, m, named)

MCInit == SubmissionInit /\ world \in {"clients", "floor", "rooms"}

MCNext ==
  /\ \/ world = "clients" /\ ClientsNext
     \/ world = "floor" /\ FloorNext
     \/ world = "rooms" /\ RoomsNext
  /\ UNCHANGED world

MCSpec == MCInit /\ [][MCNext]_MCVars
=============================================================================
