------------------------------ MODULE Services ------------------------------
(***************************************************************************)
(* The components beside the council side by side.  They share no state,   *)
(* and each goes its own way while the others do.                          *)
(***************************************************************************)
EXTENDS RateLimit, LlmBudget, Suppression, PaymentSettlement, DemoSession,
        CasperDeploy, OdraReceipt

ServicesSpec ==
  /\ RateSpec /\ LlmSpec /\ SuppressionSpec /\ PaymentSpec /\ DemoSpec
  /\ DeploySpec /\ OdraSpec

\* The variables of the seven components have their types: no request, death or
\* midnight brings a window, meter, rule table, payment, session, deploy or
\* contract to a value its code has no case for.
ServicesTypeOK ==
  /\ RateTypeOK /\ LlmTypeOK /\ SuppressionTypeOK /\ PaymentTypeOK
  /\ DemoTypeOK /\ DeployTypeOK /\ OdraTypeOK

\* What was begun ends: a request for a report is answered, the lock of a
\* demonstration session released, a call that polls for finality answered.
NothingHangs == EveryRequestIsAnswered /\ LockIsReleased /\ EveryCallEnds
=============================================================================
