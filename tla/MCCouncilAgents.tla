--------------------------- MODULE MCCouncilAgents ---------------------------
(***************************************************************************)
(* One proposal and its three agents.  Four attempts of a prepare become   *)
(* two, and one for triage; two challenges become one.                     *)
(***************************************************************************)
EXTENDS CouncilAgents

MCSubmitted == CardTypes \ {"StructuredApproval"}
MCQuota ==
  [t \in CardTypes |->
     CASE t \in {"ProposalCard", "TriageDecision"} -> 1
       [] t \in {"Assessment", "Verdict"} -> 3
       [] OTHER -> 0]
MCKeys == {KeyOf(r, m) : r \in Agents \cup {"recorder"}, m \in 0 .. MaxMessages}
MCTakes == (0 .. MaxMessages) \X (0 .. MaxCrashes)
MCAttempts == [r \in Agents |-> IF r = "triage" THEN 1 ELSE 2]
MCClients == Agents \cup {"recorder"}
MCImpacts == {"low"}
=============================================================================
