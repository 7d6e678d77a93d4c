----------------------- MODULE GovernanceReceiptProofs -----------------------
(***************************************************************************)
(* Proofs about the receipt contract, for any accounts, proposals,         *)
(* envelopes and attempted installations.                                  *)
(***************************************************************************)
EXTENDS GovernanceReceiptV3, FiniteSetTheorems, TLAPS

\* What the installation leaves behind.
Installed ==
  roles # None => /\ roles \in Installations
                  /\ SeparateRoles(roles) /\ roles.threshold \in {2, 3}

\* Only the signers approve, and only the committed hash.
ApprovalsBacked ==
  \A p \in ProposalIds, e \in Envelopes, c \in Accounts :
    <<p, e, c>> \in approvals =>
      roles # None /\ c \in Signers(roles) /\ proposed_envelopes[p] = e

FinalBacked ==
  \A p \in ProposalIds : finalized_envelopes[p] # None =>
    /\ finalized_envelopes[p] = proposed_envelopes[p]
    /\ finalized_envelopes[p].proposal_id = p
    /\ roles # None
    /\ approval_counts[p] >= roles.threshold
    /\ finalized_envelopes[p].action_kind = "native"
         => NativeSemantics(finalized_envelopes[p])
    /\ ActionId(finalized_envelopes[p]) \in authorized_actions

IInv ==
  /\ TypeOK
  /\ Installed
  /\ ApprovalsBacked
  /\ CountIsApprovals
  /\ FinalBacked
  /\ ActionAuthorizedOnce

-----------------------------------------------------------------------------

\* The counter cannot pass three.
LEMMA ThreeSigners ==
  ASSUME NEW a, NEW b, NEW c, NEW S \in SUBSET {a, b, c}
  PROVE  IsFiniteSet(S) /\ Cardinality(S) \in 0 .. 3
<1>1. IsFiniteSet({a}) /\ Cardinality({a}) = 1
  BY FS_Singleton
<1>2. {a} \cup {b} = {a, b} /\ {a, b} \cup {c} = {a, b, c}
  OBVIOUS
<1>3. IsFiniteSet({a, b}) /\ Cardinality({a, b}) \in {1, 2}
  BY <1>1, <1>2, FS_AddElement
<1>4. IsFiniteSet({a, b, c}) /\ Cardinality({a, b, c}) \in {1, 2, 3}
  BY <1>2, <1>3, FS_AddElement
<1>5. IsFiniteSet(S) /\ Cardinality(S) <= Cardinality({a, b, c})
  BY <1>4, FS_Subset
<1>6. Cardinality(S) \in Nat
  BY <1>5, FS_CardinalityType
<1> QED
  BY <1>4, <1>5, <1>6

\* The accounts that approved a hash are signers.
LEMMA ApproversAreSigners ==
  ASSUME ApprovalsBacked, NEW p \in ProposalIds, NEW e \in Envelopes
  PROVE  /\ IsFiniteSet(Approvers(p, e))
         /\ Cardinality(Approvers(p, e)) \in 0 .. 3
         /\ roles # None => Approvers(p, e) \subseteq Signers(roles)
<1>1. Approvers(p, e) \subseteq Signers(roles)
  BY DEF ApprovalsBacked, Approvers
<1> QED
  BY <1>1, ThreeSigners DEF Signers

LEMMA StartsRight == Init => IInv
<1> SUFFICES ASSUME Init PROVE IInv
  OBVIOUS
<1>1. CountIsApprovals
  <2>1. \A p \in ProposalIds : Approvers(p, proposed_envelopes[p]) = {}
    BY DEF Init, Approvers
  <2> QED
    BY <2>1, FS_EmptySet DEF Init, CountIsApprovals
<1> QED
  BY <1>1 DEF Init, IInv, TypeOK, Installed, ApprovalsBacked, FinalBacked,
              ActionAuthorizedOnce

\* Nobody has approved anything before the installation.
LEMMA InstallStep ==
  ASSUME IInv, NEW i \in Installations, install(i)
  PROVE  IInv'
<1>1. /\ roles = None /\ roles' = i /\ i # None
      /\ SeparateRoles(i) /\ i.threshold \in {2, 3}
      /\ UNCHANGED <<proposed_envelopes, approval_counts, approvals,
                     finalized_envelopes, authorized_actions>>
  BY ReceiptAssumption DEF install
<1>2. TypeOK' /\ Installed'
  BY <1>1 DEF IInv, TypeOK, Installed
<1>3. ApprovalsBacked'
  BY <1>1 DEF IInv, ApprovalsBacked
<1>4. CountIsApprovals'
  BY <1>1 DEF IInv, CountIsApprovals, Approvers
<1>5. FinalBacked' /\ ActionAuthorizedOnce'
  BY <1>1 DEF IInv, FinalBacked, ActionAuthorizedOnce
<1> QED
  BY <1>2, <1>3, <1>4, <1>5 DEF IInv

LEMMA ProposeStep ==
  ASSUME IInv, NEW p \in ProposalIds, NEW e \in Envelopes,
         propose_envelope(p, e)
  PROVE  IInv'
<1>1. /\ roles # None /\ proposed_envelopes[p] = None
      /\ proposed_envelopes' = [proposed_envelopes EXCEPT ![p] = e]
      /\ approval_counts' = [approval_counts EXCEPT ![p] = 0]
      /\ UNCHANGED <<roles, approvals, finalized_envelopes, authorized_actions>>
  BY DEF propose_envelope
<1>2. /\ proposed_envelopes'[p] = e /\ approval_counts'[p] = 0
      /\ \A q \in ProposalIds : q # p =>
           /\ proposed_envelopes'[q] = proposed_envelopes[q]
           /\ approval_counts'[q] = approval_counts[q]
  BY <1>1 DEF IInv, TypeOK
<1>3. TypeOK' /\ Installed'
  BY <1>1 DEF IInv, TypeOK, Installed
<1>4. \A d \in Envelopes, c \in Accounts : <<p, d, c>> \notin approvals
  BY <1>1, ReceiptAssumption DEF IInv, ApprovalsBacked
<1>5. ApprovalsBacked'
  BY <1>1, <1>2, <1>4 DEF IInv, ApprovalsBacked
<1>6. CountIsApprovals'
  <2>1. Approvers(p, e)' = {}
    BY <1>1, <1>4 DEF Approvers
  <2>2. approval_counts'[p] = Cardinality(Approvers(p, proposed_envelopes[p])')
    BY <1>2, <2>1, FS_EmptySet DEF Approvers
  <2>3. \A q \in ProposalIds : q # p =>
          Approvers(q, proposed_envelopes[q])' = Approvers(q, proposed_envelopes[q])
    BY <1>1, <1>2 DEF Approvers
  <2> QED
    BY <1>2, <2>2, <2>3 DEF IInv, CountIsApprovals
<1>7. finalized_envelopes[p] = None
  BY <1>1 DEF IInv, FinalBacked
<1>8. FinalBacked' /\ ActionAuthorizedOnce'
  BY <1>1, <1>2, <1>7 DEF IInv, FinalBacked, ActionAuthorizedOnce
<1> QED
  BY <1>3, <1>5, <1>6, <1>8 DEF IInv

LEMMA ApproveStep ==
  ASSUME IInv, NEW p \in ProposalIds, NEW e \in Envelopes, NEW c \in Accounts,
         approve_envelope(c, p, e)
  PROVE  IInv'
<1>1. /\ roles # None /\ c \in Signers(roles)
      /\ proposed_envelopes[p] = e /\ finalized_envelopes[p] = None
      /\ <<p, e, c>> \notin approvals
      /\ approvals' = approvals \cup {<<p, e, c>>}
      /\ approval_counts' = [approval_counts EXCEPT ![p] = @ + 1]
      /\ UNCHANGED <<roles, proposed_envelopes, finalized_envelopes,
                     authorized_actions>>
  BY DEF approve_envelope
<1>2. /\ approval_counts'[p] = approval_counts[p] + 1
      /\ \A q \in ProposalIds : q # p => approval_counts'[q] = approval_counts[q]
  BY <1>1 DEF IInv, TypeOK
<1>3. ApprovalsBacked'
  BY <1>1 DEF IInv, ApprovalsBacked
<1>4. /\ Approvers(p, e)' = Approvers(p, e) \cup {c}
      /\ c \notin Approvers(p, e)
      /\ \A q \in ProposalIds : q # p =>
           \A d : Approvers(q, d)' = Approvers(q, d)
  BY <1>1 DEF Approvers
<1>5. IsFiniteSet(Approvers(p, e))
  BY ApproversAreSigners DEF IInv
<1>6. approval_counts'[p] = Cardinality(Approvers(p, e)')
  <2>1. approval_counts[p] = Cardinality(Approvers(p, e))
    BY <1>1 DEF IInv, CountIsApprovals
  <2>2. Cardinality(Approvers(p, e) \cup {c}) = Cardinality(Approvers(p, e)) + 1
    BY <1>4, <1>5, FS_AddElement
  <2> QED
    BY <1>2, <1>4, <2>1, <2>2
<1>7. Cardinality(Approvers(p, e)') \in 0 .. 3
  <2>1. Approvers(p, e)' \subseteq Signers(roles)
    BY <1>1, <1>4 DEF IInv, ApprovalsBacked, Approvers
  <2> QED
    BY <2>1, ThreeSigners DEF Signers
<1>8. CountIsApprovals'
  BY <1>1, <1>2, <1>4, <1>6 DEF IInv, CountIsApprovals
<1>9. TypeOK' /\ Installed'
  BY <1>1, <1>2, <1>6, <1>7 DEF IInv, TypeOK, Installed
<1>10. FinalBacked' /\ ActionAuthorizedOnce'
  BY <1>1, <1>2 DEF IInv, FinalBacked, ActionAuthorizedOnce
<1> QED
  BY <1>3, <1>8, <1>9, <1>10 DEF IInv

\* Both entry points.
LEMMA FinalizeStep ==
  ASSUME IInv, NEW p \in ProposalIds, NEW e \in Envelopes,
         finalize_native_transfer(p, e) \/ finalize_official_x402(p, e)
  PROVE  IInv'
<1>1. /\ roles # None /\ proposed_envelopes[p] = e
      /\ finalized_envelopes[p] = None
      /\ approval_counts[p] >= roles.threshold
      /\ e.proposal_id = p
      /\ e.action_kind = "native" => NativeSemantics(e)
      /\ ActionId(e) \notin authorized_actions
      /\ finalized_envelopes' = [finalized_envelopes EXCEPT ![p] = e]
      /\ authorized_actions' = authorized_actions \cup {ActionId(e)}
      /\ UNCHANGED <<roles, proposed_envelopes, approval_counts, approvals>>
  BY DEF finalize_native_transfer, finalize_official_x402, Presentable,
         quorum_met, finish_finalization
<1>2. /\ finalized_envelopes'[p] = e
      /\ \A q \in ProposalIds : q # p =>
           finalized_envelopes'[q] = finalized_envelopes[q]
  BY <1>1 DEF IInv, TypeOK
<1>3. TypeOK' /\ Installed' /\ ApprovalsBacked'
  BY <1>1 DEF IInv, TypeOK, Installed, ApprovalsBacked
<1>4. CountIsApprovals'
  BY <1>1 DEF IInv, CountIsApprovals, Approvers
<1>5. FinalBacked'
  BY <1>1, <1>2 DEF IInv, FinalBacked
<1>6. ActionAuthorizedOnce'
  <2>1. e # None
    BY ReceiptAssumption
  <2>2. ASSUME NEW q \in ProposalIds, NEW r \in ProposalIds,
               finalized_envelopes'[q] # None, finalized_envelopes'[r] # None,
               ActionId(finalized_envelopes'[q]) = ActionId(finalized_envelopes'[r])
        PROVE  q = r
    <3>1. CASE q # p /\ r # p
      BY <1>2, <2>2, <3>1 DEF IInv, ActionAuthorizedOnce
    <3>2. \A s \in ProposalIds : s # p /\ finalized_envelopes[s] # None =>
            ActionId(finalized_envelopes[s]) # ActionId(e)
      BY <1>1 DEF IInv, FinalBacked
    <3> QED
      BY <1>2, <2>2, <3>1, <3>2
  <2>3. ASSUME NEW a \in authorized_actions'
        PROVE  \E q \in ProposalIds :
                 /\ finalized_envelopes'[q] # None
                 /\ a = ActionId(finalized_envelopes'[q])
    <3>1. CASE a = ActionId(e)
      BY <1>2, <2>1, <3>1
    <3>2. CASE a \in authorized_actions
      <4>1. PICK q \in ProposalIds : /\ finalized_envelopes[q] # None
                                     /\ a = ActionId(finalized_envelopes[q])
        BY <3>2 DEF IInv, ActionAuthorizedOnce
      <4> QED
        BY <1>1, <1>2, <4>1
    <3> QED
      BY <1>1, <3>1, <3>2
  <2> QED
    BY <2>2, <2>3 DEF ActionAuthorizedOnce, ActionId
<1> QED
  BY <1>3, <1>4, <1>5, <1>6 DEF IInv

LEMMA ReceiptStep ==
  ASSUME IInv, [Next]_vars
  PROVE  IInv'
<1>1. CASE Next
  BY <1>1, InstallStep, ProposeStep, ApproveStep, FinalizeStep DEF Next
<1>2. CASE UNCHANGED vars
  <2>1. UNCHANGED <<roles, proposed_envelopes, approval_counts, approvals,
                    finalized_envelopes, authorized_actions>>
    BY <1>2 DEF vars
  <2>2. CountIsApprovals'
    BY <2>1 DEF IInv, CountIsApprovals, Approvers
  <2> QED
    BY <2>1, <2>2 DEF IInv, TypeOK, Installed, ApprovalsBacked, FinalBacked,
                      ActionAuthorizedOnce
<1> QED
  BY <1>1, <1>2

-----------------------------------------------------------------------------

\* No sequence of calls leaves the contract's storage ill typed; the counter of
\* approvals never passes three.
THEOREM ReceiptTypeCorrect == Spec => []TypeOK
<1>1. IInv => TypeOK
  BY DEF IInv
<1> QED
  BY <1>1, StartsRight, ReceiptStep, PTL DEF Spec

\* The counter the quorum is read from counts distinct signers.
THEOREM CountCorrect == Spec => []CountIsApprovals
<1>1. IInv => CountIsApprovals
  BY DEF IInv
<1> QED
  BY <1>1, StartsRight, ReceiptStep, PTL DEF Spec

\* A final receipt has its quorum of approvals of that very envelope, by
\* accounts that hold no other role.
THEOREM QuorumCorrect == Spec => []FinalizedByQuorum
<1>1. IInv => FinalizedByQuorum
  <2> SUFFICES ASSUME IInv, NEW p \in ProposalIds, NEW e,
                      e = finalized_envelopes[p], e # None
               PROVE  /\ e = proposed_envelopes[p] /\ e.proposal_id = p
                      /\ Cardinality(Approvers(p, e)) >= 2
                      /\ Cardinality(Approvers(p, e)) >= roles.threshold
                      /\ {roles.owner, roles.proposer, roles.finalizer}
                           \cap Approvers(p, e) = {}
    BY DEF FinalizedByQuorum
  <2>1. /\ e = proposed_envelopes[p] /\ e.proposal_id = p /\ roles # None
        /\ approval_counts[p] >= roles.threshold
        /\ e \in Envelopes
    BY DEF IInv, FinalBacked, TypeOK
  <2>2. Cardinality(Approvers(p, e)) = approval_counts[p]
    BY <2>1 DEF IInv, CountIsApprovals
  <2>3. SeparateRoles(roles) /\ roles.threshold \in {2, 3}
    BY <2>1 DEF IInv, Installed
  <2>4. approval_counts[p] \in 0 .. 3
    BY DEF IInv, TypeOK
  <2>5. Approvers(p, e) \subseteq Signers(roles)
    BY <2>1, ApproversAreSigners DEF IInv
  <2>6. {roles.owner, roles.proposer, roles.finalizer} \cap Signers(roles) = {}
    BY <2>3 DEF SeparateRoles
  <2> QED
    BY <2>1, <2>2, <2>3, <2>4, <2>5, <2>6
<1> QED
  BY <1>1, StartsRight, ReceiptStep, PTL DEF Spec

\* No action is authorised under two proposals.
THEOREM ActionOnceCorrect == Spec => []ActionAuthorizedOnce
<1>1. IInv => ActionAuthorizedOnce
  BY DEF IInv
<1> QED
  BY <1>1, StartsRight, ReceiptStep, PTL DEF Spec

\* No final receipt moves more than was requested.
THEOREM WithinRequestCorrect == Spec => []TransferWithinRequest
<1>1. ASSUME NEW t \in Nat, NEW a \in Nat, NEW r \in Nat, a <= r
      PROVE  ((t * a) \div 10000) * 10000 <= t * r
  <2>1. t * a <= t * r
    BY <1>1
  <2>2. t * a \in Nat
    OBVIOUS
  <2>3. \A x \in Nat : (x \div 10000) * 10000 <= x
    OBVIOUS
  <2>4. ((t * a) \div 10000) * 10000 <= t * a
    BY <2>2, <2>3
  <2>5. t * r \in Nat /\ ((t * a) \div 10000) * 10000 \in Nat
    BY <2>2
  <2> QED
    BY <2>1, <2>2, <2>4, <2>5
<1>2. IInv => TransferWithinRequest
  <2> SUFFICES ASSUME IInv, NEW p \in ProposalIds, NEW e,
                      e = finalized_envelopes[p], e # None,
                      e.action_kind = "native"
               PROVE  e.amount * 10000 <= e.treasury * e.requested_allocation_bps
    BY DEF TransferWithinRequest
  <2>1. NativeSemantics(e) /\ e \in EnvelopeContents
    BY ReceiptAssumption DEF IInv, FinalBacked, TypeOK
  <2>0. \A x \in BasisPoints : x \in Nat
    BY DEF BasisPoints
  <2>2. /\ e.approved_allocation_bps \in Nat
        /\ e.requested_allocation_bps \in Nat
        /\ e.treasury \in Nat
    BY <2>0, <2>1 DEF EnvelopeContents
  <2>3. e.amount = (e.treasury * e.approved_allocation_bps) \div 10000
    BY <2>1 DEF NativeSemantics
  <2>4. \/ e.approved_allocation_bps = e.requested_allocation_bps
        \/ e.approved_allocation_bps < e.requested_allocation_bps
    BY <2>1 DEF NativeSemantics
  <2>5. e.approved_allocation_bps <= e.requested_allocation_bps
    BY <2>2, <2>4
  <2> QED
    BY <1>1, <2>2, <2>3, <2>5
<1> QED
  BY <1>2, StartsRight, ReceiptStep, PTL DEF Spec

\* What was committed stays committed, and what is final stays as it was.
THEOREM FinalCorrect == Spec => ReceiptIsFinal
<1> DEFINE Kept ==
      \A p \in ProposalIds :
        /\ proposed_envelopes[p] # None
             => proposed_envelopes'[p] = proposed_envelopes[p]
        /\ finalized_envelopes[p] # None
             => /\ finalized_envelopes'[p] = finalized_envelopes[p]
                /\ approval_counts'[p] = approval_counts[p]
<1>1. IInv /\ [Next]_vars => [Kept]_vars
  <2> SUFFICES ASSUME IInv, Next  PROVE Kept
    OBVIOUS
  <2>1. CASE \E i \in Installations : install(i)
    BY <2>1 DEF install
  <2>2. ASSUME NEW q \in ProposalIds, NEW e \in Envelopes,
               propose_envelope(q, e)
        PROVE  Kept
    BY <2>2 DEF propose_envelope, IInv, TypeOK, FinalBacked
  <2>3. ASSUME NEW q \in ProposalIds, NEW e \in Envelopes, NEW c \in Accounts,
               approve_envelope(c, q, e)
        PROVE  Kept
    BY <2>3 DEF approve_envelope, IInv, TypeOK
  <2>4. ASSUME NEW q \in ProposalIds, NEW e \in Envelopes,
               \/ finalize_native_transfer(q, e)
               \/ finalize_official_x402(q, e)
        PROVE  Kept
    BY <2>4 DEF finalize_native_transfer, finalize_official_x402, Presentable,
                finish_finalization, IInv, TypeOK
  <2> QED
    BY <2>1, <2>2, <2>3, <2>4 DEF Next
<1> QED
  BY <1>1, StartsRight, ReceiptStep, PTL DEF Spec, ReceiptIsFinal

=============================================================================
