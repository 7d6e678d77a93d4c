---------------------- MODULE MCAuthorizationLifecycle ----------------------
(***************************************************************************)
(* One proposal with at most one card of every upstream type; the quotas   *)
(* bound the plans, decisions and policy authorizations.                   *)
(***************************************************************************)
EXTENDS AuthorizationLifecycle, TLC

MCSubmitted == CardTypes \ {"StructuredApproval", "PolicyAuthorization"}

\* Two plans, two human decisions and a policy authorization of one proposal.
MCQuota == [t \in CardTypes |->
              IF t \in {"ResponsePlan", "StructuredApproval"} THEN 2
              ELSE IF t = "GovernanceSummary" THEN 0 ELSE 1]

\* Nonces are random strings: nothing orders or compares them but equality.
MCNonceSymmetry == Permutations(Nonces)

MCFingerprintOf == [p \in Proposals |-> "fp"]
=============================================================================
