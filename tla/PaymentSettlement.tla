-------------------------- MODULE PaymentSettlement --------------------------
(***************************************************************************)
(* The paid governance report (gateway/app.py): the gateway settles a      *)
(* payment proof in one of three ways (shared/x402_payments.py), each with *)
(* a bounded number of attempts.                                           *)
(*                                                                         *)
(*   direct       it looks the transfer up at CSPR.live;                   *)
(*   provider     it redeems the proof at x402_provider/app.py, whose      *)
(*                handler looks the transfer up, with attempts of its own; *)
(*   facilitator  it has an external service verify and settle the proof.  *)
(*                                                                         *)
(* An indexer shows a transfer only after some delay.  The delay is counted *)
(* in the questions that come too early.                                   *)
(***************************************************************************)
EXTENDS Naturals

CONSTANTS
  Payments,        \* deploys presented as proofs
  Good,            \* those in which the check finds payee and amount
  Requests,        \* requests for a report
  Attempts,        \* X402_MAX_ATTEMPTS
  MaxLag,          \* questions about a transfer that come too early
  ProviderLag,     \* X402_PROVIDER_SIMULATE_LAG_ATTEMPTS
  MaxLostRequests  \* bound: lost requests and answers, and timeouts

\* _extract_transfer_proof_status looks for the payee among all values of all the
\* transfers of a deploy, and for an amount that is enough among all their
\* amounts, the one without the other: Good is what passes that check, and of a
\* deploy of several transfers it does not say that the payee got the amount.
ASSUME PaymentAssumption ==
  /\ Good \subseteq Payments
  /\ Attempts \in Nat \ {0}
  /\ {MaxLag, ProviderLag, MaxLostRequests} \subseteq Nat

VARIABLES
  route,    \* the settlement driver that is configured
  early,    \* how many more questions about each transfer come too early
  held,     \* _LAG_ATTEMPTS: how often the provider held each proof back
  request,  \* each request's payment, stage and attempts
  answer,   \* the status the gateway gives
  lostRequests

paymentVars == <<route, early, held, request, answer, lostRequests>>

Stages == {"new", "asking", "lookup", "settling", "over"}

PaymentTypeOK ==
  /\ route \in {"direct", "provider", "facilitator"}
  /\ early \in [Payments -> 0 .. MaxLag]
  /\ held \in [Payments -> 0 .. ProviderLag]
  /\ \A r \in Requests :
       /\ request[r].stage \in Stages
       /\ request[r].payment \in Payments
       /\ {request[r].attempt, request[r].lookup} \subseteq 1 .. Attempts
  /\ answer \in [Requests -> {"none", "settled", "pending", "rejected", "stranded"}]
  /\ lostRequests \in 0 .. MaxLostRequests

PaymentInit ==
  /\ route \in {"direct", "provider", "facilitator"}
  /\ early \in [Payments -> 0 .. MaxLag]
  /\ held = [p \in Payments |-> 0]
  /\ request \in [Requests -> [stage : {"new"}, payment : Payments,
                               attempt : {1}, lookup : {1}]]
  /\ answer = [r \in Requests |-> "none"]
  /\ lostRequests = 0

-----------------------------------------------------------------------------

To(r, stage) == request' = [request EXCEPT ![r].stage = stage]

Answer(r, status) ==
  /\ answer' = [answer EXCEPT ![r] = status]
  /\ To(r, "over")

\* After a failed attempt there is another one.
Again(n) == n < Attempts

\* An attempt of the gateway failed.
Retry(r) ==
  IF Again(request[r].attempt)
  THEN /\ request' = [request EXCEPT ![r].stage = "asking", ![r].attempt = @ + 1]
       /\ UNCHANGED answer
  ELSE Answer(r, "stranded")

\* The provider answers 402 or 425: tried again like any failure.
Refused(r) == Retry(r)

Lost == lostRequests < MaxLostRequests /\ lostRequests' = lostRequests + 1

Asked(r) == early' = [early EXCEPT ![request[r].payment] = IF @ = 0 THEN 0 ELSE @ - 1]

\* GET /x402/governance-report with a proof.
Present(r) ==
  /\ request[r].stage = "new"
  /\ To(r, IF route = "direct" THEN "lookup" ELSE "asking")
  /\ UNCHANGED <<route, early, held, answer, lostRequests>>

-----------------------------------------------------------------------------
(***************************************************************************)
(* verify_casper_transfer_payment_with_retry, run by the gateway itself or *)
(* by the provider's handler.                                              *)
(***************************************************************************)

\* What it finds goes into the gateway's answer, or is the provider's.
Found(r, status) ==
  \/ route = "direct" /\ Answer(r, status)
  \/ /\ route = "provider"
     /\ IF status = "settled" THEN Answer(r, status) ELSE Refused(r)

\* Not to be found on the last attempt, or not processed yet.
LookAgain(r, last) ==
  IF Again(request[r].lookup)
  THEN request' = [request EXCEPT ![r].lookup = @ + 1] /\ UNCHANGED answer
  ELSE Found(r, last)

\* Mutant: a transfer that is not processed yet is as good as one that is.
Shown_Pending(p) == TRUE

Shown(p) == early[p] = 0

\* GET /deploys/{hash} at CSPR.live.
LookUp(r) ==
  LET p == request[r].payment IN
  /\ request[r].stage = "lookup"
  /\ \/ /\ Shown(p)
        /\ Found(r, IF p \in Good THEN "settled" ELSE "rejected")
     \/ ~ Shown(p) /\ \E last \in {"stranded", "pending"} : LookAgain(r, last)
  /\ Asked(r)
  /\ UNCHANGED <<route, held, lostRequests>>

LookUpFails(r) ==
  /\ request[r].stage = "lookup" /\ Lost
  /\ LookAgain(r, "stranded")
  /\ UNCHANGED <<route, early, held>>

-----------------------------------------------------------------------------
(***************************************************************************)
(* redeem_provider_x402_with_retry and the provider's handler.             *)
(***************************************************************************)

Redeem(r) ==
  LET p == request[r].payment IN
  /\ route = "provider" /\ request[r].stage = "asking"
  /\ IF held[p] < ProviderLag
     THEN /\ held' = [held EXCEPT ![p] = @ + 1]
          /\ Refused(r)
     ELSE /\ request' = [request EXCEPT ![r].stage = "lookup", ![r].lookup = 1]
          /\ UNCHANGED <<held, answer>>
  /\ UNCHANGED <<route, early, lostRequests>>

\* No answer, or not within the 20 seconds the gateway waits: the provider may
\* look the transfer up for longer.
RedeemFails(r) ==
  /\ route = "provider" /\ request[r].stage \in {"asking", "lookup"} /\ Lost
  /\ Retry(r)
  /\ UNCHANGED <<route, early, held>>

-----------------------------------------------------------------------------
(***************************************************************************)
(* The facilitator's verify and settle.                                    *)
(***************************************************************************)

Verify(r) ==
  LET p == request[r].payment IN
  /\ route = "facilitator" /\ request[r].stage = "asking"
  /\ \/ ~ Shown(p) /\ Retry(r)
     \/ Shown(p) /\ p \notin Good /\ Answer(r, "rejected")
     \/ Shown(p) /\ p \in Good /\ To(r, "settling") /\ UNCHANGED answer
  /\ Asked(r)
  /\ UNCHANGED <<route, held, lostRequests>>

Settle(r) ==
  /\ request[r].stage = "settling"
  /\ Answer(r, "settled")
  /\ UNCHANGED <<route, early, held, lostRequests>>

\* Either request fails: both are made again.
FacilitatorFails(r) ==
  /\ route = "facilitator" /\ request[r].stage \in {"asking", "settling"} /\ Lost
  /\ Retry(r)
  /\ UNCHANGED <<route, early, held>>

-----------------------------------------------------------------------------

Handling(r) ==
  \/ LookUp(r) \/ LookUpFails(r)
  \/ Redeem(r) \/ RedeemFails(r)
  \/ Verify(r) \/ Settle(r) \/ FacilitatorFails(r)

PaymentNext == \E r \in Requests : Present(r) \/ Handling(r)

PaymentSpec == PaymentInit /\ [][PaymentNext]_paymentVars

\* Every request of the gateway ends, with an answer or a timeout.
FairPaymentSpec == PaymentSpec /\ \A r \in Requests : WF_paymentVars(Handling(r))

-----------------------------------------------------------------------------

\* How late the transfer shows up is bounded by the attempts, the losses and
\* the provider's own delay included.
Patience ==
  /\ MaxLag + lostRequests < Attempts
  /\ route = "provider" => ProviderLag + lostRequests < Attempts

\* A report is paid with a deploy that is on the chain and passes the check; and "a
\* valid on-chain payment is not stranded just because the provider indexer
\* lags": a good payment that shows up within the attempts is settled.
PaymentIsJudged ==
  \A r \in Requests :
    LET p == request[r].payment IN
    /\ answer[r] = "settled" => p \in Good /\ early[p] = 0
    /\ p \in Good /\ Patience => answer[r] \in {"none", "settled"}

\* "a bounded window": every request is answered, a refused one too.
EveryRequestIsAnswered ==
  \A r \in Requests : request[r].stage \in {"asking", "lookup"} ~> answer[r] # "none"

=============================================================================
