------------------------ MODULE MCOperatorExecution ------------------------
(***************************************************************************)
(* One proposal, one plan, one nonce: a policy authorization and a human   *)
(* approval compete, each can be posted more than once, and the operator   *)
(* that reads them dies and loses requests.                                *)
(***************************************************************************)
EXTENDS OperatorExecution

MCSubmitted == CardTypes \ {"StructuredApproval", "PolicyAuthorization"}
MCQuota == [t \in CardTypes |-> IF t = "GovernanceSummary" THEN 0 ELSE 1]
MCFingerprintOf == [p \in Proposals |-> "fp"]
=============================================================================
