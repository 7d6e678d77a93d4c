------------------------ MODULE MCGovernanceReceiptV3 ------------------------
(***************************************************************************)
(* Two proposals; envelopes that are right, over-generous, rounded, not    *)
(* derived, for the other proposal or for an action another one has; and   *)
(* installations with every kind of collision.                             *)
(***************************************************************************)
EXTENDS GovernanceReceiptV3

CONSTANTS o, a1, a2, a3, a4, a5, P1, P2

Native(p, decision, requested, approved, treasury, amount, n) ==
  [proposal_id |-> p, action_kind |-> "native", decision_code |-> decision,
   requested_allocation_bps |-> requested, approved_allocation_bps |-> approved,
   treasury |-> treasury, amount |-> amount, action_nonce |-> n,
   derived |-> TRUE, standard |-> TRUE]

Payment(p, value, n) ==
  [Native(p, 1, 0, 0, 0, value, n) EXCEPT !.action_kind = "x402"]

MCEnvelopes ==
  {Native(P1, 1, 5000, 5000, 7, 3, 1),    \* approved as asked, rounded down
   Native(P2, 2, 10000, 5000, 7, 3, 1),   \* the same action, by a reduction
   Native(P1, 2, 2500, 10000, 7, 7, 2),   \* a "reduction" above the request
   Payment(P2, 4, 3),
   [Payment(P1, 4, 4) EXCEPT !.derived = FALSE]}

MCInstallations ==
  {i \in [owner : {o}, proposer : {a1, o}, finalizer : {a2, a1, a3, Zero},
          signer_a : {a3, a2}, signer_b : {a4, a3}, signer_c : {a5, a4},
          threshold : 1 .. 4] : TRUE}

=============================================================================
