----------------------------- MODULE CardIntent -----------------------------
(***************************************************************************)
(* What submission promises an agent, without chain or room: the request   *)
(* body sent under an idempotency key becomes one card, the card is        *)
(* published once, and the message that certifies it certifies nothing     *)
(* else.  CardSubmission implements it.                                    *)
(***************************************************************************)
EXTENDS Naturals

CONSTANTS Proposals, Keys, Bodies

VARIABLE intent    \* what became of the request under each key

NoIntent == [step |-> "none"]

\* A body sealed under its key, and the same once published by a message.
Sealed(body) == [step |-> "sealed", body |-> body]
Published(body, message) ==
  [step |-> "published", body |-> body, message |-> message]

IntentInit == intent = [p \in Proposals |-> [k \in Keys |-> NoIntent]]

SealIntent(p, k) ==
  /\ intent[p][k] = NoIntent
  /\ intent'[p][k].step = "sealed"
  /\ \E body \in Bodies \cap {intent'[p][k].body} :
       intent' = [intent EXCEPT ![p][k] = Sealed(body)]

Certified(message) ==
  \E q \in Proposals, k \in Keys :
    intent[q][k].step = "published" /\ intent[q][k].message = message

PublishIntent(p, k) ==
  /\ intent[p][k].step = "sealed"
  /\ intent'[p][k].step = "published"
  /\ \E message \in {intent'[p][k].message} :
       /\ ~ Certified(message)
       /\ intent' = [intent EXCEPT ![p][k] = Published(@.body, message)]

IntentSpec ==
  IntentInit /\ [][\E p \in Proposals, k \in Keys :
                     SealIntent(p, k) \/ PublishIntent(p, k)]_intent

=============================================================================
