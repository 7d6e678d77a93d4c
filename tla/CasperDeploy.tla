---------------------------- MODULE CasperDeploy ----------------------------
(***************************************************************************)
(* Putting a signed deploy on Casper and telling what became of it:        *)
(* submit_governance_receipt, submit_odra_call_deploy and                  *)
(* await_casper_finality of shared/casper_executor.py, and the gateway's   *)
(* relay of a wallet's deploy (gateway/app.py).                            *)
(*                                                                         *)
(* A deploy is assembled and sent to a node.  When the node answers that   *)
(* it took it, its fate is polled through four queries of the node, each   *)
(* over an index that may lag, for a bounded number of rounds.  A request  *)
(* may be lost before or after the node has seen it.  The node, the chain  *)
(* and the contract are external: a contract may revert any call.          *)
(***************************************************************************)
EXTENDS Naturals

CONSTANTS
  Deploys,  \* signed deploys; a call that is repeated signs another one
  Relayed,  \* those a wallet signed: the gateway relays them
  Views,    \* the four queries of await_casper_finality, in order
  Rounds    \* CASPER_FINALITY_MAX_ATTEMPTS

ASSUME DeployAssumption ==
  /\ Relayed \subseteq Deploys
  /\ Views \in Nat \ {0} /\ Rounds \in Nat \ {0}

VARIABLES
  chain,    \* what the chain did with each deploy
  indexed,  \* the views in which the node shows a deploy's execution
  call      \* the call that submits each

deployVars == <<chain, indexed, call>>

Fates == {"unsent", "pending", "success", "failure", "expired"}
Executed == {"success", "failure"}

Ready == [phase |-> "ready", attempt |-> 0, view |-> 0]
Polling(k, v) == [phase |-> "polling", attempt |-> k, view |-> v]
Done(status, finality, k) ==
  [phase |-> "done", attempt |-> k, status |-> status, finality |-> finality]

Reports ==
  {Done("failed", "none", 0)}
    \cup {Done("success", "pending", k) : k \in {Rounds}}
    \cup {Done(s, "success", k) : s \in {"success"}, k \in 1 .. Rounds}
    \cup {Done(s, "failure", k) : s \in {"failed", "success"}, k \in 1 .. Rounds}

DeployTypeOK ==
  /\ chain \in [Deploys -> Fates]
  /\ indexed \in [Deploys -> SUBSET (1 .. Views)]
  /\ call \in [Deploys -> {Ready} \cup Reports
                 \cup {Polling(k, v) : k \in 1 .. Rounds, v \in 1 .. Views}]

DeployInit ==
  /\ chain = [d \in Deploys |-> "unsent"]
  /\ indexed = [d \in Deploys |-> {}]
  /\ call = [d \in Deploys |-> Ready]

-----------------------------------------------------------------------------
(***************************************************************************)
(* The chain.                                                              *)
(***************************************************************************)

\* A deploy is included in a block, and the contract runs or reverts.
Execute(d) ==
  /\ chain[d] = "pending"
  /\ \E fate \in Executed : chain' = [chain EXCEPT ![d] = fate]
  /\ UNCHANGED <<indexed, call>>

\* Its thirty minutes are over.
Expire(d) ==
  /\ chain[d] = "pending"
  /\ chain' = [chain EXCEPT ![d] = "expired"]
  /\ UNCHANGED <<indexed, call>>

Index(d, v) ==
  /\ chain[d] \in Executed /\ v \notin indexed[d]
  /\ indexed' = [indexed EXCEPT ![d] = @ \cup {v}]
  /\ UNCHANGED <<chain, call>>

-----------------------------------------------------------------------------
(***************************************************************************)
(* Submitting.                                                             *)
(***************************************************************************)

Conclude(d, report) == call' = [call EXCEPT ![d] = report]

\* No key, a malformed contract hash, a deploy that cannot be assembled or one
\* the node rejects.
Rejected(d) ==
  /\ call[d] = Ready
  /\ Conclude(d, Done("failed", "none", 0))
  /\ UNCHANGED <<chain, indexed>>

Sent(d) ==
  /\ call[d] = Ready
  /\ chain' = [chain EXCEPT ![d] = "pending"]
  /\ Conclude(d, Polling(1, 1))
  /\ UNCHANGED indexed

\* No answer to account_put_deploy: failed, whether the node has it or not.
NoAnswer(d) ==
  /\ call[d] = Ready
  /\ chain' = [chain EXCEPT ![d] = "pending"]
  /\ Conclude(d, Done("failed", "none", 0))
  /\ UNCHANGED indexed

-----------------------------------------------------------------------------
(***************************************************************************)
(* Polling.                                                                *)
(***************************************************************************)

\* _extract_finality_status of an answer that has an execution result.
Finality(d) == chain[d]

\* The relay reports what the broadcast did and leaves finality to the reader.
StatusOf(d, finality) ==
  IF finality = "failure" /\ d \notin Relayed THEN "failed" ELSE "success"

\* An execution result in any view ends the polling.
Seen(d) ==
  /\ call[d].phase = "polling"
  /\ call[d].view \in indexed[d]
  /\ Conclude(d, Done(StatusOf(d, Finality(d)), Finality(d), call[d].attempt))
  /\ UNCHANGED <<chain, indexed>>

\* Mutant: the window ends in a failure.
AfterWindow_Failed(k) == Done("failed", "none", k)

AfterWindow(k) == Done("success", "pending", k)

NextRound(k) == IF k < Rounds THEN Polling(k + 1, 1) ELSE AfterWindow(k)

\* Pending, unknown to this view, an error or no answer at all: the next view
\* is asked, and after the last one the next round begins.
Unseen(d) ==
  /\ call[d].phase = "polling"
  /\ LET k == call[d].attempt
         v == call[d].view
     IN Conclude(d, IF v < Views THEN Polling(k, v + 1) ELSE NextRound(k))
  /\ UNCHANGED <<chain, indexed>>

Poll(d) == Seen(d) \/ Unseen(d)

DeployNext ==
  \E d \in Deploys :
    \/ Rejected(d) \/ Sent(d) \/ NoAnswer(d)
    \/ Poll(d)
    \/ Execute(d) \/ Expire(d)
    \/ \E v \in 1 .. Views : Index(d, v)

DeploySpec == DeployInit /\ [][DeployNext]_deployVars

\* Every query has a timeout.
FairDeploySpec == DeploySpec /\ \A d \in Deploys : WF_deployVars(Poll(d))

-----------------------------------------------------------------------------

\* "This prevents Concordia from marking a valid broadcast as failed only
\* because one node indexer has not populated one transport view yet": a deploy
\* the node has answered for is reported failed only if it failed on chain; what
\* a call is told of finality is what the chain did, whichever views lag,
\* whichever queries are lost and however much later the deploy was executed;
\* and a call of the agents is told of a failure as a failure, never as a
\* success whose proof follows.
FinalityIsTrue ==
  \A d \in Deploys :
    call[d].phase = "done" =>
      /\ call[d].attempt > 0 /\ call[d].status = "failed" => chain[d] = "failure"
      /\ call[d].finality \in Executed =>
           /\ chain[d] = call[d].finality
           /\ d \notin Relayed /\ chain[d] = "failure" => call[d].status = "failed"

\* Every call comes to an end, even when the node never shows the deploy.
EveryCallEnds ==
  \A d \in Deploys : call[d].phase = "polling" ~> call[d].phase = "done"
=============================================================================
