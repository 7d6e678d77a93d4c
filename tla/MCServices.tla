----------------------------- MODULE MCServices -----------------------------
(***************************************************************************)
(* Services and the V3 contract for TLC.  As the components share no       *)
(* state, it is enough to see each of them alone: a behaviour is one of    *)
(* one of them, the others keep their initial state.                       *)
(***************************************************************************)
EXTENDS Services, MCOdraReceipt, MCGovernanceReceiptV3

CONSTANTS s1, s2, s3, q1, fa, fb

VARIABLE component

\* Three alike signals and an urgent one of another kind.
MCPrintOf == [x \in Signals |-> IF x = q1 THEN fb ELSE fa]

othersThanRate ==
  <<llmVars, suppressionVars, paymentVars, demoVars, deployVars,
    odraVars, vars>>
othersThanLlm ==
  <<rateVars, suppressionVars, paymentVars, demoVars, deployVars,
    odraVars, vars>>
othersThanSuppression ==
  <<rateVars, llmVars, paymentVars, demoVars, deployVars,
    odraVars, vars>>
othersThanPayment ==
  <<rateVars, llmVars, suppressionVars, demoVars, deployVars,
    odraVars, vars>>
othersThanDemo ==
  <<rateVars, llmVars, suppressionVars, paymentVars, deployVars,
    odraVars, vars>>
othersThanDeploy ==
  <<rateVars, llmVars, suppressionVars, paymentVars, demoVars,
    odraVars, vars>>
othersThanOdra ==
  <<rateVars, llmVars, suppressionVars, paymentVars, demoVars,
    deployVars, vars>>
othersThanV3 ==
  <<rateVars, llmVars, suppressionVars, paymentVars, demoVars,
    deployVars, odraVars>>

MCVars == <<component, rateVars, othersThanRate>>

\* One of the initial states of PaymentSettlement, for the other components.
OnePayment ==
  /\ route = "direct"
  /\ early = [x \in Payments |-> 0]
  /\ \A r \in Requests : request[r].payment = CHOOSE x \in Good : TRUE

MCInit ==
  /\ component \in {"rate", "llm", "suppression", "payment", "demo", "deploy", "odra",
                   "v3"}
  /\ RateInit /\ LlmInit /\ SuppressionInit /\ PaymentInit /\ DemoInit
  /\ DeployInit /\ OdraInit /\ Init
  /\ component # "payment" => OnePayment

MCNext ==
  /\ \/ component = "rate" /\ RateNext /\ UNCHANGED othersThanRate
     \/ component = "llm" /\ LlmNext /\ UNCHANGED othersThanLlm
     \/ component = "suppression" /\ SuppressionNext /\ UNCHANGED othersThanSuppression
     \/ component = "payment" /\ PaymentNext /\ UNCHANGED othersThanPayment
     \/ component = "demo" /\ DemoNext /\ UNCHANGED othersThanDemo
     \/ component = "deploy" /\ DeployNext /\ UNCHANGED othersThanDeploy
     \/ component = "odra" /\ OdraNext /\ UNCHANGED othersThanOdra
     \/ component = "v3" /\ Next /\ UNCHANGED othersThanV3
  /\ UNCHANGED component

\* The fairness of the components; nothing of theirs is enabled in a component
\* that never leaves its initial state.
MCSpec ==
  /\ MCInit /\ [][MCNext]_MCVars
  /\ \A r \in Requests : WF_paymentVars(Handling(r))
  /\ WF_demoVars(Working)
  /\ \A d \in Deploys : WF_deployVars(Poll(d))
=============================================================================
