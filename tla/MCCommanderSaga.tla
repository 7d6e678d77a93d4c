--------------------------- MODULE MCCommanderSaga ---------------------------
(***************************************************************************)
(* One proposal that its human sends back twice at most.                   *)
(***************************************************************************)
EXTENDS CommanderSaga

MCSubmitted == CardTypes \ {"StructuredApproval", "PolicyAuthorization"}
MCQuota ==
  [t \in CardTypes |->
     CASE t \in {"ResponsePlan", "StructuredApproval"} -> Cardinality(Nonces)
       [] t = "GovernanceSummary" -> 0
       [] OTHER -> 1]
MCFingerprintOf == [p \in Proposals |-> "fp"]
=============================================================================
