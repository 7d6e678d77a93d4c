------------------------- MODULE ExecutionAuthority -------------------------
(***************************************************************************)
(* What the gateway promises the treasury, without cards, nonces or rooms: *)
(* plans replace one another until a grant is made, the grant freezes the  *)
(* plan, and the grant is spent at most once, on the very plan it was made *)
(* for.  AuthorizationLifecycle implements it.                             *)
(***************************************************************************)
EXTENDS Naturals

CONSTANT Proposals

VARIABLES
  inForce,   \* the plan in force of each proposal, 0 before the first
  grant,     \* the card that carries its authority, 0 while there is none
  spent      \* what was handed to the operator for execution

authVars == <<inForce, grant, spent>>

\* A spent grant names its card, the plan that was authorised and the plan
\* whose envelopes were handed out.
Spendings == [card : Nat, authorised : Nat, executed : Nat]

AuthTypeOK ==
  /\ inForce \in [Proposals -> Nat]
  /\ grant \in [Proposals -> Nat]
  /\ spent \in [Proposals -> SUBSET Spendings]

AuthInit ==
  /\ inForce = [p \in Proposals |-> 0]
  /\ grant = [p \in Proposals |-> 0]
  /\ spent = [p \in Proposals |-> {}]

\* A newer plan comes into force, while nothing is granted.
Adopt(p) ==
  /\ grant[p] = 0
  /\ inForce'[p] > inForce[p]
  /\ inForce' = [inForce EXCEPT ![p] = inForce'[p]]
  /\ UNCHANGED <<grant, spent>>

\* A human or the policy grants.
Grant(p) ==
  /\ grant[p] = 0 /\ inForce[p] # 0
  /\ grant'[p] > inForce[p]
  /\ grant' = [grant EXCEPT ![p] = grant'[p]]
  /\ UNCHANGED <<inForce, spent>>

\* The operator spends the grant, once.
Spend(p) ==
  /\ grant[p] # 0 /\ spent[p] = {}
  /\ spent' = [spent EXCEPT ![p] =
                 {[card |-> grant[p], authorised |-> inForce[p],
                   executed |-> inForce[p]]}]
  /\ UNCHANGED <<inForce, grant>>

AuthNext == \E p \in Proposals : Adopt(p) \/ Grant(p) \/ Spend(p)

AuthSpec == AuthInit /\ [][AuthNext]_authVars
=============================================================================
