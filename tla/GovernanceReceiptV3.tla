------------------------- MODULE GovernanceReceiptV3 -------------------------
(***************************************************************************)
(* The governance receipt contract on Casper                               *)
(* (contracts/odra-governance-receipt-v3).                                 *)
(*                                                                         *)
(* After its installation fixed five distinct accounts, a proposer commits *)
(* one envelope hash per proposal, three signers approve that hash, and    *)
(* with a quorum a finalizer presents the full envelope, which authorises  *)
(* its action.  A call that reverts changes nothing, so only calls that    *)
(* succeed are steps; the chain runs one call at a time, in any order and  *)
(* from any account.  A contract calling is refused everywhere.            *)
(*                                                                         *)
(* A hash is the value it is the hash of.                                  *)
(***************************************************************************)
EXTENDS Naturals, FiniteSets

CONSTANTS
  Accounts,        \* the accounts that may call
  Zero,            \* the all-zero account hash
  ProposalIds,     \* well-formed proposal ids
  None,            \* an absent entry of a mapping
  Envelopes,       \* bound: the envelopes anybody commits or presents
  Installations    \* bound: the installations anybody attempts

Kinds == {"native", "x402"}
BasisPoints == 0 .. 10000

\* `amount` is amount_motes or the payment's value, `derived` says that the
\* action and transfer ids it carries are the ones the contract derives.  The
\* fields the contract only compares with constants are one field, `standard`.
EnvelopeContents ==
  [proposal_id : ProposalIds, action_kind : Kinds, decision_code : 0 .. 4,
   requested_allocation_bps : BasisPoints,
   approved_allocation_bps : BasisPoints,
   treasury : Nat, amount : Nat, action_nonce : Nat, derived : BOOLEAN,
   standard : BOOLEAN]

InstallationArgs ==
  [owner : Accounts, proposer : Accounts \cup {Zero},
   finalizer : Accounts \cup {Zero}, signer_a : Accounts \cup {Zero},
   signer_b : Accounts \cup {Zero}, signer_c : Accounts \cup {Zero},
   threshold : 0 .. 255]

ASSUME ReceiptAssumption ==
  /\ Envelopes \subseteq EnvelopeContents
  /\ Installations \subseteq InstallationArgs
  /\ Zero \notin Accounts
  /\ None \notin Envelopes \cup Installations

VARIABLES
  roles,              \* the five accounts and the threshold, None before init
  proposed_envelopes, \* the committed hash of each proposal
  approval_counts,
  approvals,          \* <<proposal, hash, signer>>
  finalized_envelopes,
  authorized_actions

vars == <<roles, proposed_envelopes, approval_counts, approvals,
          finalized_envelopes, authorized_actions>>

\* derive_action_id: the kind, the nonce and the core of the action; neither the
\* proposal nor the allocation is part of it.
ActionId(e) == <<e.action_kind, e.action_nonce, e.treasury, e.amount, e.standard>>

TypeOK ==
  /\ roles \in Installations \cup {None}
  /\ proposed_envelopes \in [ProposalIds -> Envelopes \cup {None}]
  /\ approval_counts \in [ProposalIds -> 0 .. 3]
  /\ approvals \subseteq (ProposalIds \X Envelopes \X Accounts)
  /\ finalized_envelopes \in [ProposalIds -> Envelopes \cup {None}]
  /\ authorized_actions \subseteq {ActionId(e) : e \in Envelopes}

Init ==
  /\ roles = None
  /\ proposed_envelopes = [p \in ProposalIds |-> None]
  /\ approval_counts = [p \in ProposalIds |-> 0]
  /\ approvals = {}
  /\ finalized_envelopes = [p \in ProposalIds |-> None]
  /\ authorized_actions = {}

Signers(i) == {i.signer_a, i.signer_b, i.signer_c}

\* Mutant: a signer may also finalize.
SeparateRoles_Finalizer(i) ==
  /\ Zero \notin {i.proposer, i.finalizer} \cup Signers(i)
  /\ i.owner \notin {i.proposer, i.finalizer} \cup Signers(i)
  /\ i.proposer \notin {i.finalizer} \cup Signers(i)

SeparateRoles(i) ==
  /\ Zero \notin {i.proposer, i.finalizer} \cup Signers(i)
  /\ i.owner \notin {i.proposer, i.finalizer} \cup Signers(i)
  /\ i.proposer # i.finalizer
  /\ {i.proposer, i.finalizer} \cap Signers(i) = {}

install(i) ==
  /\ roles = None
  /\ SeparateRoles(i)
  /\ i.signer_a # i.signer_b /\ i.signer_a # i.signer_c /\ i.signer_b # i.signer_c
  /\ i.threshold \in {2, 3}
  /\ roles' = i
  /\ UNCHANGED <<proposed_envelopes, approval_counts, approvals,
                 finalized_envelopes, authorized_actions>>

\* The proposer, whoever the installation named, commits an envelope hash.
propose_envelope(p, e) ==
  /\ roles # None
  /\ proposed_envelopes[p] = None
  /\ proposed_envelopes' = [proposed_envelopes EXCEPT ![p] = e]
  /\ approval_counts' = [approval_counts EXCEPT ![p] = 0]
  /\ UNCHANGED <<roles, approvals, finalized_envelopes, authorized_actions>>

\* Mutant: a finalized proposal collects approvals.
approve_envelope_Late(c, p, e) ==
  /\ roles # None /\ c \in Signers(roles)
  /\ proposed_envelopes[p] = e
  /\ <<p, e, c>> \notin approvals
  /\ approvals' = approvals \cup {<<p, e, c>>}
  /\ approval_counts' = [approval_counts EXCEPT ![p] = @ + 1]
  /\ UNCHANGED <<roles, proposed_envelopes, finalized_envelopes,
                 authorized_actions>>

\* A signer approves the committed hash.
approve_envelope(c, p, e) ==
  /\ roles # None /\ c \in Signers(roles)
  /\ proposed_envelopes[p] = e
  /\ finalized_envelopes[p] = None
  /\ <<p, e, c>> \notin approvals
  /\ approvals' = approvals \cup {<<p, e, c>>}
  /\ approval_counts' = [approval_counts EXCEPT ![p] = @ + 1]
  /\ UNCHANGED <<roles, proposed_envelopes, finalized_envelopes,
                 authorized_actions>>

quorum_met(p) == approval_counts[p] >= roles.threshold

\* Mutant: an approval with reductions is not compared with the request.
NativeSemantics_AnyReduction(e) ==
  /\ e.decision_code \in {1, 2} /\ e.approved_allocation_bps > 0
  /\ e.decision_code = 1 =>
       e.approved_allocation_bps = e.requested_allocation_bps
  /\ e.standard /\ e.amount > 0 /\ e.treasury > 0
  /\ e.amount = (e.treasury * e.approved_allocation_bps) \div 10000

\* The header's and the body's validate_semantics.  Approval is 1, approval with
\* a reduction 2.
NativeSemantics(e) ==
  /\ \/ /\ e.decision_code = 1
        /\ e.approved_allocation_bps = e.requested_allocation_bps
     \/ /\ e.decision_code = 2
        /\ e.approved_allocation_bps < e.requested_allocation_bps
  /\ e.approved_allocation_bps > 0
  /\ e.standard /\ e.amount > 0 /\ e.treasury > 0
  /\ e.amount = (e.treasury * e.approved_allocation_bps) \div 10000

X402Semantics(e) ==
  /\ e.decision_code = 1
  /\ e.requested_allocation_bps = 0 /\ e.approved_allocation_bps = 0
  /\ e.standard /\ e.amount > 0

\* Mutant: an action may be authorised under a second proposal.
finish_finalization_Replay(p, e) ==
  /\ finalized_envelopes' = [finalized_envelopes EXCEPT ![p] = e]
  /\ authorized_actions' = authorized_actions \cup {ActionId(e)}
  /\ UNCHANGED <<roles, proposed_envelopes, approval_counts, approvals>>

finish_finalization(p, e) ==
  /\ ActionId(e) \notin authorized_actions
  /\ finalized_envelopes' = [finalized_envelopes EXCEPT ![p] = e]
  /\ authorized_actions' = authorized_actions \cup {ActionId(e)}
  /\ UNCHANGED <<roles, proposed_envelopes, approval_counts, approvals>>

\* What both entry points check before the semantics: preconditions, derived
\* ids, committed hash.
Presentable(p, e) ==
  /\ roles # None
  /\ proposed_envelopes[p] # None
  /\ finalized_envelopes[p] = None
  /\ quorum_met(p)
  /\ e.proposal_id = p
  /\ e.derived
  /\ proposed_envelopes[p] = e

finalize_native_transfer(p, e) ==
  /\ Presentable(p, e)
  /\ e.action_kind = "native"
  /\ NativeSemantics(e)
  /\ finish_finalization(p, e)

finalize_official_x402(p, e) ==
  /\ Presentable(p, e)
  /\ e.action_kind = "x402"
  /\ X402Semantics(e)
  /\ finish_finalization(p, e)

Next ==
  \/ \E i \in Installations : install(i)
  \/ \E p \in ProposalIds, e \in Envelopes :
       \/ propose_envelope(p, e)
       \/ \E c \in Accounts : approve_envelope(c, p, e)
       \/ finalize_native_transfer(p, e)
       \/ finalize_official_x402(p, e)

Spec == Init /\ [][Next]_vars

-----------------------------------------------------------------------------

Approvers(p, e) == {c \in Accounts : <<p, e, c>> \in approvals}

\* The counter the quorum is read from is the number of signers who approved
\* the committed hash, so no order of calls makes one signer count twice or
\* carries an approval from one hash to another.
CountIsApprovals ==
  \A p \in ProposalIds :
    approval_counts[p] = Cardinality(Approvers(p, proposed_envelopes[p]))

\* A final receipt is the envelope committed for its own proposal, approved by
\* at least the threshold of accounts, none of which could have proposed or
\* finalized it or installed the contract.
FinalizedByQuorum ==
  \A p \in ProposalIds : finalized_envelopes[p] # None =>
    LET e == finalized_envelopes[p] IN
    /\ e = proposed_envelopes[p] /\ e.proposal_id = p
    /\ Cardinality(Approvers(p, e)) >= 2
    /\ Cardinality(Approvers(p, e)) >= roles.threshold
    /\ {roles.owner, roles.proposer, roles.finalizer} \cap Approvers(p, e) = {}

\* An action is authorised under one proposal only, and only by a receipt.
ActionAuthorizedOnce ==
  /\ \A p, q \in ProposalIds :
       /\ finalized_envelopes[p] # None /\ finalized_envelopes[q] # None
       /\ ActionId(finalized_envelopes[p]) = ActionId(finalized_envelopes[q])
       => p = q
  /\ \A a \in authorized_actions : \E p \in ProposalIds :
       finalized_envelopes[p] # None /\ a = ActionId(finalized_envelopes[p])

\* No final receipt moves more of the treasury than was asked for, rounding
\* included.
TransferWithinRequest ==
  \A p \in ProposalIds :
    LET e == finalized_envelopes[p] IN
    e # None /\ e.action_kind = "native" =>
      e.amount * 10000 <= e.treasury * e.requested_allocation_bps

\* A commitment is never replaced, and a final receipt is final: neither its
\* envelope nor the approvals it stands on change.
ReceiptIsFinal ==
  [][\A p \in ProposalIds :
       /\ proposed_envelopes[p] # None
            => proposed_envelopes'[p] = proposed_envelopes[p]
       /\ finalized_envelopes[p] # None
            => /\ finalized_envelopes'[p] = finalized_envelopes[p]
               /\ approval_counts'[p] = approval_counts[p]]_vars

=============================================================================
