-------------------------- MODULE MCProposalLedger --------------------------
(***************************************************************************)
(* The ledger with a holder of the gateway's own key: every card type goes *)
(* through /prepare and /confirm.  A behaviour takes one of two quotas,    *)
(* which together take every loop of the state machine once with stale     *)
(* cards about: MCPlanQuota the revision of a plan, MCReviewQuota the      *)
(* challenged assessment, the late ProposalCard and the second receipt.    *)
(***************************************************************************)
EXTENDS ProposalLedger

VARIABLE quota

MCVars == <<ledgerVars, quota>>

MCPlanQuota == [t \in CardTypes |->
                  IF t \in {"ResponsePlan", "StructuredApproval"} THEN 2
                  ELSE 1]

MCReviewQuota == [t \in CardTypes |->
                    IF t \in {"ProposalCard", "Assessment", "Verdict",
                              "CasperExecutionReceipt"} THEN 2
                    ELSE IF t \in {"StructuredApproval", "GovernanceSummary"}
                         THEN 0 ELSE 1]

\* Neither quota asks for more.
MCQuota == [t \in CardTypes |-> 2]

MCAllTypes == CardTypes

CardsOf(p, t) == {s \in DOMAIN cards[p] : cards[p][s].type = t}

WithinQuota ==
  \A p \in Proposals, t \in CardTypes : Cardinality(CardsOf(p, t)) <= quota[t]

MCInit == LedgerInit /\ quota \in {MCPlanQuota, MCReviewQuota}

MCNext == LedgerNext /\ UNCHANGED quota /\ WithinQuota'

MCSpec == MCInit /\ [][MCNext]_MCVars
=============================================================================
