----------------------------- MODULE OdraReceipt -----------------------------
(***************************************************************************)
(* The GovernanceReceipt contract of contracts/odra-governance-receipt,    *)
(* which the canonical proof of the repository uses and V3 supersedes.     *)
(* Whoever calls configure_quorum first names the signers.  A call that    *)
(* reverts changes nothing.  propose is propose_envelope, approve          *)
(* approve_envelope.                                                       *)
(***************************************************************************)
EXTENDS Naturals, FiniteSets

CONSTANTS
  Callers,      \* the accounts that may call
  Proposals,
  Roots,        \* envelope hashes
  Contents,     \* what a receipt may say
  RootOf,       \* the root of the envelope that says the same
  NoEnvelope, NoReceipt

ASSUME OdraAssumption ==
  /\ IsFiniteSet(Callers)
  /\ RootOf \in [Contents -> Roots]
  /\ NoEnvelope \notin Roots /\ NoReceipt \notin Contents

VARIABLES
  signers,      \* signers: the accounts set to true
  threshold,    \* quorum_threshold; 0 until the quorum is configured
  proposed,     \* proposed_envelopes
  counts,       \* approval_counts
  markers,      \* approvals: the pairs set to true
  receipts

odraVars == <<signers, threshold, proposed, counts, markers, receipts>>

OdraTypeOK ==
  /\ signers \subseteq Callers
  /\ threshold \in 0 .. 3
  /\ proposed \in [Proposals -> Roots \cup {NoEnvelope}]
  /\ counts \in [Proposals -> Nat]
  /\ markers \subseteq Proposals \X Callers
  /\ receipts \in [Proposals -> Contents \cup {NoReceipt}]

OdraInit ==
  /\ signers = {} /\ threshold = 0
  /\ proposed = [p \in Proposals |-> NoEnvelope]
  /\ counts = [p \in Proposals |-> 0]
  /\ markers = {}
  /\ receipts = [p \in Proposals |-> NoReceipt]

Configured == threshold > 0

configure_quorum(a, b, c, t) ==
  /\ ~ Configured
  /\ t \in 1 .. 3
  /\ signers' = {a, b, c} /\ threshold' = t
  /\ UNCHANGED <<proposed, counts, markers, receipts>>

propose(caller, p, e) ==
  /\ Configured /\ caller \in signers
  /\ proposed[p] = NoEnvelope
  /\ proposed' = [proposed EXCEPT ![p] = e]
  /\ counts' = [counts EXCEPT ![p] = 0]
  /\ UNCHANGED <<signers, threshold, markers, receipts>>

\* Mutant: whoever calls approves.
approve_Anyone(caller, p) ==
  /\ Configured
  /\ proposed[p] # NoEnvelope
  /\ <<p, caller>> \notin markers
  /\ markers' = markers \cup {<<p, caller>>}
  /\ counts' = [counts EXCEPT ![p] = @ + 1]
  /\ UNCHANGED <<signers, threshold, proposed, receipts>>

approve(caller, p) ==
  /\ Configured /\ caller \in signers
  /\ proposed[p] # NoEnvelope
  /\ <<p, caller>> \notin markers
  /\ markers' = markers \cup {<<p, caller>>}
  /\ counts' = [counts EXCEPT ![p] = @ + 1]
  /\ UNCHANGED <<signers, threshold, proposed, receipts>>

QuorumMet(p) == threshold > 0 /\ counts[p] >= threshold

\* Whoever calls, and whatever the receipt says: nothing compares it with the
\* root that was approved, and a second one replaces the first.
store_governance_receipt(p, content) ==
  /\ Configured
  /\ proposed[p] # NoEnvelope
  /\ QuorumMet(p)
  /\ receipts' = [receipts EXCEPT ![p] = content]
  /\ UNCHANGED <<signers, threshold, proposed, counts, markers>>

OdraNext ==
  \/ \E a, b, c \in Callers, t \in 0 .. 4 : configure_quorum(a, b, c, t)
  \/ \E caller \in Callers, p \in Proposals :
       \/ \E e \in Roots : propose(caller, p, e)
       \/ approve(caller, p)
  \/ \E p \in Proposals, content \in Contents : store_governance_receipt(p, content)

OdraSpec == OdraInit /\ [][OdraNext]_odraVars

-----------------------------------------------------------------------------

ApprovedBy(p) == {a \in Callers : <<p, a>> \in markers}

\* The counter the quorum is read from counts the distinct accounts that
\* approved the proposal's envelope, all of them signers.
CountIsApprovers ==
  \A p \in Proposals :
    /\ counts[p] = Cardinality(ApprovedBy(p))
    /\ ApprovedBy(p) \subseteq signers
    /\ ApprovedBy(p) # {} => proposed[p] # NoEnvelope

\* require_quorum: a proposal has a receipt only if it has an envelope that at
\* least the threshold of distinct signers approved, whoever calls what in which
\* order and however the three signers coincide.  That the receipt says what the
\* envelope said is not among it.
ReceiptHasQuorum ==
  \A p \in Proposals :
    receipts[p] # NoReceipt =>
      /\ proposed[p] # NoEnvelope
      /\ threshold > 0
      /\ Cardinality(ApprovedBy(p) \cap signers) >= threshold

\* "every final receipt must reference a proposed envelope approved by at least
\* `threshold` distinct signers" (lib.rs:196-197).  The code does not see to it.
ReceiptReferencesEnvelope ==
  \A p \in Proposals :
    receipts[p] # NoReceipt => RootOf[receipts[p]] = proposed[p]

\* What was approved stays what it was: neither the quorum nor an envelope
\* changes once set, and a receipt is replaced but never withdrawn.
ApprovedIsFixed ==
  [][/\ threshold > 0 => threshold' = threshold /\ signers' = signers
     /\ \A p \in Proposals :
          /\ proposed[p] # NoEnvelope => proposed'[p] = proposed[p]
          /\ receipts[p] # NoReceipt => receipts'[p] # NoReceipt]_odraVars

=============================================================================
