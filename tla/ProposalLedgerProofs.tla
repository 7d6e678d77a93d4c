------------------------ MODULE ProposalLedgerProofs ------------------------
(***************************************************************************)
(* Proofs about the card ledger, for any proposals, any quota and any set  *)
(* of submitted card types.                                                *)
(***************************************************************************)
EXTENDS ProposalLedger, SequenceTheorems, TLAPS

-----------------------------------------------------------------------------
(***************************************************************************)
(* The values the ledger is made of.                                       *)
(***************************************************************************)

\* A card is well typed however it is put together.
LEMMA NewCardType ==
  ASSUME NEW t \in CardTypes, NEW o \in Outcomes(t), NEW r \in Refs(t)
  PROVE  NewCard(t, o, r) \in Cards
<1>1. o \in AllOutcomes
  BY DEF AllOutcomes
<1>2. r \in AllRefs
  BY DEF Refs, AllRefs, CardTypes
<1> QED
  BY <1>1, <1>2 DEF NewCard, Cards

\* _resolve_state always finds a state, and never the absence of one.
LEMMA ResolveType ==
  ASSUME NEW c \in Cards
  PROVE  /\ Resolve(c) \in States \ {"ABSENT"}
         /\ c.type = "ProposalCard" => Resolve(c) = "DETECTED"
<1> USE DEF Cards, Outcomes, CardTypes, OutcomeTransitions, BaseTransitions,
            States, Resolve
<1>1. CASE c.outcome = "none"
  <2>1. c.type \in DOMAIN BaseTransitions
    BY <1>1
  <2> QED
    BY <1>1, <2>1
<1>2. CASE c.outcome # "none"
  <2>1. c.outcome \in DOMAIN OutcomeTransitions /\ c.type # "ProposalCard"
    BY <1>2
  <2> QED
    BY <2>1
<1> QED
  BY <1>1, <1>2

-----------------------------------------------------------------------------
(***************************************************************************)
(* The two ways a chain changes.                                           *)
(***************************************************************************)

\* Sealing appends one card and leaves every other card and chain alone.
LEMMA SealFacts ==
  ASSUME LedgerTypeOK, NEW p \in Proposals, NEW c \in Cards,
         cards' = [cards EXCEPT ![p] = Append(@, c)]
  PROVE  /\ cards' \in [Proposals -> Seq(Cards)]
         /\ \A q \in Proposals : q # p => cards'[q] = cards[q]
         /\ DOMAIN cards'[p] = (DOMAIN cards[p]) \cup {Len(cards[p]) + 1}
         /\ Len(cards[p]) + 1 \notin DOMAIN cards[p]
         /\ \A s \in DOMAIN cards[p] : cards'[p][s] = cards[p][s]
         /\ cards'[p][Len(cards[p]) + 1] = c
         /\ DOMAIN cards[p] \subseteq Nat \ {0}
         /\ \A s \in DOMAIN cards[p] : s < Len(cards[p]) + 1
<1> DEFINE C == cards[p]
<1>1. C \in Seq(Cards)
  BY DEF LedgerTypeOK
<1>2. cards'[p] = Append(C, c)
  BY DEF LedgerTypeOK
<1>3. \A q \in Proposals : q # p => cards'[q] = cards[q]
  BY DEF LedgerTypeOK
<1>4. Append(C, c) \in Seq(Cards)
  BY <1>1
<1>5. cards' \in [Proposals -> Seq(Cards)]
  BY <1>2, <1>4 DEF LedgerTypeOK
<1> HIDE DEF C
<1>6. /\ DOMAIN Append(C, c) = (DOMAIN C) \cup {Len(C) + 1}
      /\ Len(C) + 1 \notin DOMAIN C
      /\ \A s \in DOMAIN C : Append(C, c)[s] = C[s]
      /\ Append(C, c)[Len(C) + 1] = c
      /\ DOMAIN C \subseteq Nat \ {0}
      /\ \A s \in DOMAIN C : s < Len(C) + 1
  BY <1>1
<1> QED
  BY <1>2, <1>3, <1>5, <1>6 DEF C

\* What a chain holds is a card.
LEMMA ChainHoldsCards ==
  ASSUME LedgerTypeOK, NEW p \in Proposals, NEW s \in DOMAIN cards[p]
  PROVE  cards[p][s] \in Cards
<1>1. cards[p] \in Seq(Cards)
  BY DEF LedgerTypeOK
<1> QED
  BY <1>1

\* Publishing a card changes its flag and nothing else.
LEMMA PublishFacts ==
  ASSUME LedgerTypeOK, NEW p \in Proposals, NEW s \in DOMAIN cards[p],
         NEW b \in BOOLEAN,
         Publish(p, s, b)
  PROVE  /\ cards' \in [Proposals -> Seq(Cards)]
         /\ \A q \in Proposals : q # p => cards'[q] = cards[q]
         /\ \A q \in Proposals : DOMAIN cards'[q] = DOMAIN cards[q]
         /\ DOMAIN cards[p] \subseteq Nat \ {0}
         /\ \A t \in DOMAIN cards[p] : t # s => cards'[p][t] = cards[p][t]
         /\ cards'[p][s] = [cards[p][s] EXCEPT !.published = b]
         /\ cards[p][s] \in Cards
         /\ cards'[p][s].published = b
         /\ cards'[p][s].type = cards[p][s].type
         /\ cards'[p][s].outcome = cards[p][s].outcome
         /\ cards'[p][s].ref = cards[p][s].ref
<1> DEFINE C == cards[p]
           c == [C[s] EXCEPT !.published = b]
<1>1. C \in Seq(Cards)
  BY DEF LedgerTypeOK
<1>2. C[s] \in Cards
  BY <1>1
<1>3. c \in Cards /\ c.type = C[s].type /\ c.outcome = C[s].outcome
        /\ c.ref = C[s].ref /\ c.published = b
  BY <1>2 DEF Cards
<1>4. cards'[p] = [C EXCEPT ![s] = c]
  BY DEF LedgerTypeOK, Publish
<1>5. \A q \in Proposals : q # p => cards'[q] = cards[q]
  BY DEF LedgerTypeOK, Publish
<1>a. c \in Cards /\ s \in 1 .. Len(C)
  BY <1>1, <1>3
<1>b. cards' = [q \in Proposals |-> cards'[q]]
  BY DEF LedgerTypeOK, Publish
<1> HIDE DEF c, C
<1>6. [C EXCEPT ![s] = c] \in Seq(Cards)
  BY <1>1, <1>a, ExceptSeq
<1>7. cards' \in [Proposals -> Seq(Cards)]
  <2>1. \A q \in Proposals : cards'[q] \in Seq(Cards)
    BY <1>4, <1>5, <1>6 DEF LedgerTypeOK
  <2> QED
    BY <1>b, <2>1
<1>8. /\ DOMAIN [C EXCEPT ![s] = c] = DOMAIN C
      /\ [C EXCEPT ![s] = c][s] = c
      /\ \A t \in DOMAIN C : t # s => [C EXCEPT ![s] = c][t] = C[t]
      /\ DOMAIN C \subseteq Nat \ {0}
  BY <1>1 DEF C
<1> QED
  BY <1>2, <1>3, <1>4, <1>5, <1>7, <1>8 DEF C, c

-----------------------------------------------------------------------------
(***************************************************************************)
(* Type correctness.                                                       *)
(***************************************************************************)

LEMMA PrepareType ==
  ASSUME LedgerTypeOK, NEW p \in Proposals, NEW t \in CardTypes,
         NEW o \in Outcomes(t), NEW r \in Refs(t), Prepare(p, t, o, r)
  PROVE  LedgerTypeOK'
<1>1. NewCard(t, o, r) \in Cards
  BY NewCardType
<1>2. cards' = [cards EXCEPT ![p] = Append(@, NewCard(t, o, r))]
  BY DEF Prepare, Seal
<1>3. cards' \in [Proposals -> Seq(Cards)]
  BY <1>1, <1>2, SealFacts
<1>4. state' \in [Proposals -> States]
  BY DEF LedgerTypeOK, Prepare, States
<1> QED
  BY <1>3, <1>4 DEF LedgerTypeOK, Prepare

LEMMA ConfirmType ==
  ASSUME LedgerTypeOK, NEW p \in Proposals, NEW s \in DOMAIN cards[p],
         Confirm(p, s)
  PROVE  LedgerTypeOK'
<1>1. Publish(p, s, TRUE)
  BY DEF Confirm
<1>2. cards' \in [Proposals -> Seq(Cards)] /\ cards[p][s] \in Cards
  BY <1>1, PublishFacts
<1>3. StateAfter(p, cards[p][s]) \in States
  BY <1>2, ResolveType DEF StateAfter, LedgerTypeOK
<1>4. state' \in [Proposals -> States]
  BY <1>3 DEF LedgerTypeOK, Confirm
<1> QED
  BY <1>2, <1>4 DEF LedgerTypeOK, Confirm

LEMMA PostType ==
  ASSUME LedgerTypeOK, NEW p \in Proposals, NEW s \in DOMAIN cards[p],
         PostToRoom(p, s)
  PROVE  LedgerTypeOK'
<1>1. cards[p] \in Seq(Cards)
  BY DEF LedgerTypeOK
<1>2. s \in Nat \ {0}
  BY <1>1
<1> QED
  BY <1>2 DEF LedgerTypeOK, PostToRoom

\* Every request keeps the ledger well typed: a decision a card can carry is
\* one _resolve_state maps, so the proposals table never holds a state outside
\* the state machine.
THEOREM LedgerTypeCorrect == LedgerSpec => []LedgerTypeOK
<1>1. LedgerInit => LedgerTypeOK
  BY DEF LedgerInit, LedgerTypeOK, States
<1>2. LedgerTypeOK /\ [LedgerNext]_ledgerVars => LedgerTypeOK'
  <2> SUFFICES ASSUME LedgerTypeOK, [LedgerNext]_ledgerVars
               PROVE  LedgerTypeOK'
    OBVIOUS
  <2>1. CASE LedgerNext
    BY <2>1, PrepareType, ConfirmType, PostType DEF LedgerNext
  <2>2. CASE UNCHANGED ledgerVars
    BY <2>2 DEF ledgerVars, LedgerTypeOK
  <2> QED
    BY <2>1, <2>2
<1> QED
  BY <1>1, <1>2, PTL DEF LedgerSpec

-----------------------------------------------------------------------------
(***************************************************************************)
(* The chain explains the state.                                           *)
(***************************************************************************)

\* StateIsReplayOfChain says what the last driver does if there is one; that
\* there is one as soon as anything moved the proposal makes it inductive.
Replayed(p) ==
  \/ \E s \in DOMAIN cards[p] :
       LastDriver(p, s) /\ state[p] = Resolve(cards[p][s])
  \/ /\ \A s \in DOMAIN cards[p] : ~ Drives(p, s)
     /\ state[p] \in {"ABSENT", "DETECTED"}

ReplayInv == \A p \in Proposals : Replayed(p)

\* Only what happens to a proposal's own chain and state can disturb it.
LEMMA ReplayedUnchanged ==
  ASSUME NEW p \in Proposals, Replayed(p), state'[p] = state[p],
         cards'[p] = cards[p]
  PROVE  Replayed(p)'
  BY DEF Replayed, LastDriver, Drives

\* Sealing a card publishes nothing.
LEMMA PrepareReplayed ==
  ASSUME LedgerTypeOK, ReplayInv, NEW p \in Proposals, NEW t \in CardTypes,
         NEW o \in Outcomes(t), NEW r \in Refs(t), Prepare(p, t, o, r)
  PROVE  ReplayInv'
<1> DEFINE c == NewCard(t, o, r)
           n == Len(cards[p]) + 1
<1>1. c \in Cards /\ c.published = FALSE
  BY NewCardType DEF NewCard
<1>2. cards' = [cards EXCEPT ![p] = Append(@, c)]
  BY DEF Prepare, Seal
<1> HIDE DEF c
<1>3. /\ \A q \in Proposals : q # p => cards'[q] = cards[q]
      /\ DOMAIN cards'[p] = (DOMAIN cards[p]) \cup {n}
      /\ n \notin DOMAIN cards[p]
      /\ \A s \in DOMAIN cards[p] : cards'[p][s] = cards[p][s]
      /\ cards'[p][n] = c
  BY <1>1, <1>2, SealFacts
<1> HIDE DEF n
<1>4. ASSUME NEW q \in Proposals, q # p  PROVE Replayed(q)'
  <2>1. state'[q] = state[q]
    BY <1>4 DEF LedgerTypeOK, Prepare
  <2> QED
    BY <1>3, <1>4, <2>1, ReplayedUnchanged DEF ReplayInv
<1>5. Replayed(p)'
  <2>1. \A s \in DOMAIN cards'[p] :
          Drives(p, s)' <=> s \in DOMAIN cards[p] /\ Drives(p, s)
    BY <1>1, <1>3 DEF Drives
  <2>2. Replayed(p)
    BY DEF ReplayInv
  <2>3. CASE \E s \in DOMAIN cards[p] :
               LastDriver(p, s) /\ state[p] = Resolve(cards[p][s])
    <3>1. PICK s \in DOMAIN cards[p] :
                 LastDriver(p, s) /\ state[p] = Resolve(cards[p][s])
      BY <2>3
    <3>2. cards[p][s] \in Cards
      BY ChainHoldsCards
    <3>3. state'[p] = state[p]
      BY <3>1, <3>2, ResolveType DEF LedgerTypeOK, Prepare
    <3>4. LastDriver(p, s)'
      BY <1>3, <2>1, <3>1 DEF LastDriver
    <3> QED
      BY <1>3, <3>1, <3>3, <3>4 DEF Replayed
  <2>4. CASE /\ \A s \in DOMAIN cards[p] : ~ Drives(p, s)
             /\ state[p] \in {"ABSENT", "DETECTED"}
    <3>1. state'[p] \in {"ABSENT", "DETECTED"}
      BY <2>4 DEF LedgerTypeOK, Prepare
    <3> QED
      BY <2>1, <2>4, <3>1 DEF Replayed
  <2> QED
    BY <2>2, <2>3, <2>4 DEF Replayed
<1> QED
  BY <1>4, <1>5 DEF ReplayInv

\* The staleness check makes a confirmed card the last of the chain, the guard
\* on late ProposalCards keeps them out of the replay.
LEMMA ConfirmReplayed ==
  ASSUME LedgerTypeOK, ReplayInv, NEW p \in Proposals,
         NEW s \in DOMAIN cards[p], Confirm(p, s)
  PROVE  ReplayInv'
<1>1. Publish(p, s, TRUE)
  BY DEF Confirm
<1>2. /\ \A q \in Proposals : q # p => cards'[q] = cards[q]
      /\ DOMAIN cards'[p] = DOMAIN cards[p]
      /\ DOMAIN cards[p] \subseteq Nat \ {0}
      /\ \A t \in DOMAIN cards[p] : t # s => cards'[p][t] = cards[p][t]
      /\ cards[p][s] \in Cards
      /\ cards'[p][s].published
      /\ cards'[p][s].type = cards[p][s].type
      /\ cards'[p][s].outcome = cards[p][s].outcome
  BY <1>1, PublishFacts
<1>3. ASSUME NEW q \in Proposals, q # p  PROVE Replayed(q)'
  <2>1. state'[q] = state[q]
    BY <1>3 DEF LedgerTypeOK, Confirm
  <2> QED
    BY <1>2, <1>3, <2>1, ReplayedUnchanged DEF ReplayInv
<1>4. Replayed(p)'
  <2>1. state'[p] = StateAfter(p, cards[p][s])
    BY DEF LedgerTypeOK, Confirm
  <2>2. CASE cards[p][s].type # "ProposalCard"
    <3>1. state'[p] = Resolve(cards'[p][s])
      BY <1>2, <2>1, <2>2 DEF StateAfter, Resolve
    <3>2. Drives(p, s)'
      BY <1>2, <2>2 DEF Drives
    <3>3. ASSUME NEW t \in DOMAIN cards'[p], Drives(p, t)'  PROVE t <= s
      BY <1>2, <3>3 DEF Drives, Confirm, NewerConfirmed
    <3> QED
      BY <1>2, <3>1, <3>2, <3>3 DEF Replayed, LastDriver
  <2>3. CASE cards[p][s].type = "ProposalCard"
    <3>1. \A t \in DOMAIN cards[p] : Drives(p, t)' <=> Drives(p, t)
      BY <1>2, <2>3 DEF Drives
    <3>2. \A t \in DOMAIN cards[p] : LastDriver(p, t)' <=> LastDriver(p, t)
      BY <1>2, <3>1 DEF LastDriver
    <3>3. state'[p] = state[p]
      BY <1>2, <2>1, <2>3, ResolveType DEF StateAfter
    <3>4. \A t \in DOMAIN cards[p] : Drives(p, t) => cards'[p][t] = cards[p][t]
      BY <1>2, <2>3 DEF Drives
    <3> QED
      BY <1>2, <3>1, <3>2, <3>3, <3>4 DEF ReplayInv, Replayed, LastDriver
  <2> QED
    BY <2>2, <2>3
<1> QED
  BY <1>3, <1>4 DEF ReplayInv

LEMMA ReplayStep ==
  ASSUME LedgerTypeOK, ReplayInv, [LedgerNext]_ledgerVars
  PROVE  ReplayInv'
<1>1. ASSUME NEW p \in Proposals, NEW s \in DOMAIN cards[p], PostToRoom(p, s)
      PROVE  ReplayInv'
  BY <1>1, ReplayedUnchanged DEF PostToRoom, ReplayInv
<1>2. CASE LedgerNext
  BY <1>1, <1>2, PrepareReplayed, ConfirmReplayed DEF LedgerNext
<1>3. CASE UNCHANGED ledgerVars
  BY <1>3, ReplayedUnchanged DEF ledgerVars, ReplayInv
<1> QED
  BY <1>2, <1>3

LEMMA ReplayInvImplies ==
  ASSUME LedgerTypeOK, ReplayInv
  PROVE  StateIsReplayOfChain
<1> SUFFICES ASSUME NEW p \in Proposals
             PROVE  /\ \A s \in DOMAIN cards[p] :
                          LastDriver(p, s) => state[p] = Resolve(cards[p][s])
                    /\ (\A s \in DOMAIN cards[p] : ~ Drives(p, s))
                         => state[p] \in {"ABSENT", "DETECTED"}
  BY DEF StateIsReplayOfChain
<1>1. Replayed(p) /\ DOMAIN cards[p] \subseteq Nat
  BY DEF ReplayInv, LedgerTypeOK
<1>2. \A s, t \in DOMAIN cards[p] : LastDriver(p, s) /\ LastDriver(p, t) => s = t
  BY <1>1 DEF LastDriver
<1> QED
  BY <1>1, <1>2 DEF Replayed, LastDriver

\* Whatever is prepared, posted and confirmed, in whatever order, replaying the
\* confirmed chain of a proposal gives its stored state.
THEOREM ReplayCorrect == LedgerSpec => []StateIsReplayOfChain
<1>1. LedgerInit => ReplayInv
  BY DEF LedgerInit, ReplayInv, Replayed
<1>2. LedgerTypeOK /\ ReplayInv /\ [LedgerNext]_ledgerVars => ReplayInv'
  BY ReplayStep
<1> QED
  BY <1>1, <1>2, LedgerTypeCorrect, ReplayInvImplies, PTL DEF LedgerSpec

-----------------------------------------------------------------------------
(***************************************************************************)
(* Every confirmed card is a legal move.                                   *)
(***************************************************************************)

\* What a step does to the drivers of a chain: nothing, or it adds one behind
\* all the others in a state that allows it.
SameDrivers(p) ==
  /\ DOMAIN cards[p] \subseteq DOMAIN cards'[p]
  /\ \A s \in DOMAIN cards'[p] :
       Drives(p, s)' <=> s \in DOMAIN cards[p] /\ Drives(p, s)
  /\ \A s \in DOMAIN cards[p] : Drives(p, s) => cards'[p][s] = cards[p][s]

AddsDriver(p, s) ==
  /\ s \in DOMAIN cards[p] /\ DOMAIN cards'[p] = DOMAIN cards[p]
  /\ ~ Drives(p, s) /\ Drives(p, s)' /\ cards'[p][s].type # "ProposalCard"
  /\ cards'[p][s].type = cards[p][s].type
  /\ \A t \in DOMAIN cards[p] : t # s => cards'[p][t] = cards[p][t]
  /\ \A t \in DOMAIN cards[p] : Drives(p, t) => t < s
  /\ state[p] \in Prerequisite(cards[p][s].type)
  /\ state'[p] = Resolve(cards'[p][s])

LEMMA DriversStep ==
  ASSUME LedgerTypeOK, [LedgerNext]_ledgerVars, NEW p \in Proposals
  PROVE  \/ SameDrivers(p) /\ state'[p] = state[p]
         \/ SameDrivers(p) /\ state[p] = "ABSENT" /\ state'[p] = "DETECTED"
         \/ \E s \in DOMAIN cards[p] : AddsDriver(p, s)
<1>1. ASSUME cards'[p] = cards[p]  PROVE SameDrivers(p)
  BY <1>1 DEF SameDrivers, Drives
<1>2. ASSUME NEW q \in Proposals, NEW t \in CardTypes, NEW o \in Outcomes(t),
             NEW r \in Refs(t), Prepare(q, t, o, r)
      PROVE  /\ SameDrivers(p)
             /\ \/ state'[p] = state[p]
                \/ state[p] = "ABSENT" /\ state'[p] = "DETECTED"
  <2> DEFINE c == NewCard(t, o, r)
  <2>1. c \in Cards /\ c.published = FALSE
    BY NewCardType DEF NewCard
  <2>2. cards' = [cards EXCEPT ![q] = Append(@, c)]
    BY <1>2 DEF Prepare, Seal
  <2>3. \/ state'[p] = state[p]
        \/ state[p] = "ABSENT" /\ state'[p] = "DETECTED"
    BY <1>2 DEF Prepare, LedgerTypeOK
  <2> HIDE DEF c
  <2>4. CASE q = p
    BY <2>1, <2>2, <2>3, <2>4, SealFacts DEF SameDrivers, Drives
  <2>5. CASE q # p
    BY <1>1, <2>1, <2>2, <2>3, <2>5, SealFacts
  <2> QED
    BY <2>4, <2>5
<1>3. ASSUME NEW q \in Proposals, NEW s \in DOMAIN cards[q], Confirm(q, s)
      PROVE  \/ SameDrivers(p) /\ state'[p] = state[p]
             \/ \E t \in DOMAIN cards[p] : AddsDriver(p, t)
  <2>1. Publish(q, s, TRUE)
    BY <1>3 DEF Confirm
  <2>2. /\ \A x \in Proposals : x # q => cards'[x] = cards[x]
        /\ DOMAIN cards'[q] = DOMAIN cards[q]
        /\ DOMAIN cards[q] \subseteq Nat \ {0}
        /\ \A t \in DOMAIN cards[q] : t # s => cards'[q][t] = cards[q][t]
        /\ cards[q][s] \in Cards
        /\ cards'[q][s].published
        /\ cards'[q][s].type = cards[q][s].type
        /\ cards'[q][s].outcome = cards[q][s].outcome
    BY <2>1, PublishFacts
  <2>3. state'[q] = StateAfter(q, cards[q][s])
    BY <1>3 DEF LedgerTypeOK, Confirm
  <2>4. CASE q # p
    <3>1. state'[p] = state[p]
      BY <1>3, <2>4 DEF LedgerTypeOK, Confirm
    <3> QED
      BY <1>1, <2>2, <2>4, <3>1
  <2>5. CASE q = p /\ cards[q][s].type = "ProposalCard"
    <3>1. state'[p] = state[p]
      BY <2>2, <2>3, <2>5, ResolveType DEF StateAfter
    <3>2. SameDrivers(p)
      BY <2>2, <2>5 DEF SameDrivers, Drives
    <3> QED
      BY <3>1, <3>2
  <2>6. CASE q = p /\ cards[q][s].type # "ProposalCard"
    <3>1. state'[p] = Resolve(cards'[p][s])
      BY <2>2, <2>3, <2>6 DEF StateAfter, Resolve
    <3>2. /\ ~ Drives(p, s) /\ Drives(p, s)'
          /\ state[p] \in Prerequisite(cards[p][s].type)
      BY <1>3, <2>2, <2>6 DEF Drives, Confirm, Allowed
    <3>3. ASSUME NEW t \in DOMAIN cards[p], Drives(p, t)  PROVE t < s
      BY <1>3, <2>2, <2>6, <3>2, <3>3 DEF Drives, Confirm, NewerConfirmed
    <3>4. AddsDriver(p, s)
      BY <2>2, <2>6, <3>1, <3>2, <3>3 DEF AddsDriver
    <3> QED
      BY <2>6, <3>4
  <2> QED
    BY <2>4, <2>5, <2>6
<1>4. ASSUME NEW q \in Proposals, NEW s \in DOMAIN cards[q], PostToRoom(q, s)
      PROVE  SameDrivers(p) /\ state'[p] = state[p]
  BY <1>1, <1>4 DEF PostToRoom
<1>5. CASE UNCHANGED ledgerVars
  BY <1>1, <1>5 DEF ledgerVars
<1> QED
  BY <1>2, <1>3, <1>4, <1>5 DEF LedgerNext

\* Drivers before s and what they resolve to are all a legal move depends on.
LEMMA LegalMovesStep ==
  ASSUME LedgerTypeOK, LedgerTypeOK', ReplayInv, ChainIsLegalPath,
         [LedgerNext]_ledgerVars
  PROVE  ChainIsLegalPath'
<1> SUFFICES ASSUME NEW p \in Proposals, NEW s \in DOMAIN cards'[p],
                    Drives(p, s)'
             PROVE  LegalMove(p, s)'
  BY DEF ChainIsLegalPath, LegalMove
<1>0. DOMAIN cards[p] \subseteq Nat /\ DOMAIN cards'[p] \subseteq Nat
  BY DEF LedgerTypeOK
<1>1. CASE SameDrivers(p)
  <2>1. s \in DOMAIN cards[p] /\ Drives(p, s) /\ LegalMove(p, s)
    BY <1>1 DEF SameDrivers, ChainIsLegalPath, LegalMove
  <2> QED
    BY <1>0, <1>1, <2>1 DEF SameDrivers, LegalMove
<1>2. ASSUME NEW n \in DOMAIN cards[p], AddsDriver(p, n)
      PROVE  LegalMove(p, s)'
  <2>0. \A t \in DOMAIN cards[p] : Drives(p, t)' <=> Drives(p, t) \/ t = n
    BY <1>2 DEF AddsDriver, Drives
  <2>1. CASE s # n
    <3>1. s \in DOMAIN cards[p] /\ Drives(p, s) /\ LegalMove(p, s) /\ s < n
      BY <1>2, <2>0, <2>1 DEF AddsDriver, ChainIsLegalPath, LegalMove
    <3> QED
      BY <1>0, <1>2, <2>0, <3>1 DEF AddsDriver, LegalMove
  <2>2. CASE s = n
    <3>1. Replayed(p)
      BY DEF ReplayInv
    <3>2. "ABSENT" \notin Prerequisite(cards'[p][n].type)
      BY <1>2, ChainHoldsCards DEF AddsDriver, Prerequisite, Cards, CardTypes
    <3>3. CASE \E t \in DOMAIN cards[p] :
                 LastDriver(p, t) /\ state[p] = Resolve(cards[p][t])
      BY <1>0, <1>2, <2>0, <2>2, <3>3 DEF AddsDriver, LegalMove, LastDriver
    <3>4. CASE /\ \A t \in DOMAIN cards[p] : ~ Drives(p, t)
               /\ state[p] \in {"ABSENT", "DETECTED"}
      BY <1>0, <1>2, <2>0, <2>2, <3>2, <3>4 DEF AddsDriver, LegalMove
    <3> QED
      BY <3>1, <3>3, <3>4 DEF Replayed
  <2> QED
    BY <2>1, <2>2
<1> QED
  BY <1>1, <1>2, DriversStep

\* An auditor who replays an exported chain never meets a confirmed card whose
\* prerequisite the cards before it do not give, for any interleaving of
\* prepare, post and confirm and any number of stale cards.
THEOREM LegalPathCorrect == LedgerSpec => []ChainIsLegalPath
<1>1. LedgerInit => ChainIsLegalPath /\ ReplayInv
  BY DEF LedgerInit, ChainIsLegalPath, ReplayInv, Replayed
<1>2. LedgerTypeOK /\ ReplayInv /\ [LedgerNext]_ledgerVars => ReplayInv'
  BY ReplayStep
<1>3. LedgerTypeOK /\ LedgerTypeOK' /\ ReplayInv /\ ChainIsLegalPath
        /\ [LedgerNext]_ledgerVars => ChainIsLegalPath'
  BY LegalMovesStep
<1> QED
  BY <1>1, <1>2, <1>3, LedgerTypeCorrect, PTL DEF LedgerSpec

-----------------------------------------------------------------------------
(***************************************************************************)
(* Authority is spent once and never reopened.                             *)
(***************************************************************************)

Authorised == {"APPROVED", "AUTHORIZED"}
Executed == {"EXECUTED", "RESOLVED"}

\* The state remembers what the chain holds, which is what makes the two
\* properties inductive: behind an authority the proposal stays among four
\* states, behind a receipt among two.
SettledInv ==
  \A p \in Proposals : \A s \in DOMAIN cards[p] : Drives(p, s) =>
    /\ Resolve(cards[p][s]) \in Authorised
         => state[p] \in Authorised \cup Executed
    /\ cards[p][s].type = "CasperExecutionReceipt" => state[p] \in Executed

OnceInv == SettledInv /\ OneReceiptPerProposal /\ AuthorityIsNeverReopened

\* From an authorised state the state machine only goes on.
LEMMA SettledMoves ==
  ASSUME NEW c \in Cards, c.type # "ProposalCard"
  PROVE  /\ \A x \in Authorised :
               x \in Prerequisite(c.type) => c.type = "CasperExecutionReceipt"
         /\ \A x \in Executed :
               x \in Prerequisite(c.type) => c.type = "GovernanceSummary"
         /\ c.type = "CasperExecutionReceipt" => Resolve(c) = "EXECUTED"
         /\ c.type = "GovernanceSummary" => Resolve(c) = "RESOLVED"
<1> USE DEF Cards, CardTypes, Authorised, Executed
<1>1. c.type \in CardTypes \ {"ProposalCard"}
  OBVIOUS
<1>2. /\ \A x \in Authorised :
            x \in Prerequisite(c.type) => c.type = "CasperExecutionReceipt"
      /\ \A x \in Executed :
            x \in Prerequisite(c.type) => c.type = "GovernanceSummary"
  BY <1>1 DEF Prerequisite
<1>3. c.type \in {"CasperExecutionReceipt", "GovernanceSummary"}
        => c.outcome = "none"
  BY DEF Outcomes
<1>4. "none" \notin DOMAIN OutcomeTransitions
  BY DEF OutcomeTransitions
<1> QED
  BY <1>2, <1>3, <1>4 DEF Resolve, BaseTransitions

LEMMA OnceStep ==
  ASSUME LedgerTypeOK, LedgerTypeOK', OnceInv, [LedgerNext]_ledgerVars
  PROVE  OnceInv'
<1>1. ASSUME NEW p \in Proposals, SameDrivers(p), NEW s \in DOMAIN cards'[p],
             Drives(p, s)'
      PROVE  /\ s \in DOMAIN cards[p] /\ Drives(p, s)
             /\ cards'[p][s] = cards[p][s]
  BY <1>1 DEF SameDrivers
<1>2. ASSUME NEW p \in Proposals, NEW n \in DOMAIN cards[p], AddsDriver(p, n),
             NEW s \in DOMAIN cards'[p], Drives(p, s)', s # n
      PROVE  /\ s \in DOMAIN cards[p] /\ Drives(p, s)
             /\ cards'[p][s] = cards[p][s] /\ s < n
  BY <1>2 DEF AddsDriver, Drives
<1>3. ASSUME NEW p \in Proposals, NEW n \in DOMAIN cards[p], AddsDriver(p, n)
      PROVE  /\ cards'[p][n] \in Cards
             /\ state[p] \in Authorised
                  => /\ cards'[p][n].type = "CasperExecutionReceipt"
                     /\ state'[p] = "EXECUTED"
             /\ state[p] \in Executed
                  => /\ cards'[p][n].type = "GovernanceSummary"
                     /\ state'[p] = "RESOLVED"
             /\ cards'[p][n].type = "CasperExecutionReceipt"
                  => state'[p] = "EXECUTED"
             /\ state'[p] = Resolve(cards'[p][n])
  <2>1. cards'[p][n] \in Cards
    <3>1. cards'[p] \in Seq(Cards) /\ n \in DOMAIN cards'[p]
      BY <1>3 DEF AddsDriver, LedgerTypeOK
    <3> QED
      BY <3>1
  <2> QED
    BY <1>3, <2>1, SettledMoves DEF AddsDriver
<1>4. SettledInv'
  <2> SUFFICES ASSUME NEW p \in Proposals, NEW s \in DOMAIN cards'[p],
                      Drives(p, s)'
               PROVE  /\ Resolve(cards'[p][s]) \in Authorised
                           => state'[p] \in Authorised \cup Executed
                      /\ cards'[p][s].type = "CasperExecutionReceipt"
                           => state'[p] \in Executed
    BY DEF SettledInv
  <2>1. CASE SameDrivers(p)
    <3>1. CASE state'[p] = state[p]
      BY <1>1, <2>1, <3>1 DEF OnceInv, SettledInv
    <3>2. CASE state[p] = "ABSENT"
      BY <1>1, <2>1, <3>2 DEF OnceInv, SettledInv, Authorised, Executed
    <3> QED
      BY <2>1, <3>1, <3>2, DriversStep DEF SameDrivers, AddsDriver
  <2>2. ASSUME NEW n \in DOMAIN cards[p], AddsDriver(p, n)
        PROVE  /\ Resolve(cards'[p][s]) \in Authorised
                    => state'[p] \in Authorised \cup Executed
               /\ cards'[p][s].type = "CasperExecutionReceipt"
                    => state'[p] \in Executed
    <3>1. CASE s = n
      BY <1>3, <2>2, <3>1 DEF Authorised, Executed
    <3>2. CASE s # n
      BY <1>2, <1>3, <2>2, <3>2 DEF OnceInv, SettledInv, Authorised, Executed
    <3> QED
      BY <3>1, <3>2
  <2> QED
    BY <2>1, <2>2, DriversStep
<1>5. OneReceiptPerProposal'
  <2> SUFFICES ASSUME NEW p \in Proposals,
                      NEW s \in DOMAIN cards'[p], NEW t \in DOMAIN cards'[p],
                      Drives(p, s)', cards'[p][s].type = "CasperExecutionReceipt",
                      Drives(p, t)', cards'[p][t].type = "CasperExecutionReceipt"
               PROVE  s = t
    BY DEF OneReceiptPerProposal
  <2>1. CASE SameDrivers(p)
    BY <1>1, <2>1 DEF OnceInv, OneReceiptPerProposal
  <2>2. ASSUME NEW n \in DOMAIN cards[p], AddsDriver(p, n), s # t
        PROVE  FALSE
    <3>1. PICK x \in {s, t} : x # n
      BY <2>2
    <3>2. state[p] \in Executed
      BY <1>2, <2>2, <3>1 DEF OnceInv, SettledInv
    <3>3. cards'[p][n].type # "CasperExecutionReceipt"
      BY <1>3, <2>2, <3>2
    <3> QED
      BY <1>2, <2>2, <3>3 DEF OnceInv, OneReceiptPerProposal
  <2> QED
    BY <2>1, <2>2, DriversStep
<1>6. AuthorityIsNeverReopened'
  <2> SUFFICES ASSUME NEW p \in Proposals,
                      NEW s \in DOMAIN cards'[p], NEW t \in DOMAIN cards'[p],
                      Drives(p, s)', Resolve(cards'[p][s]) \in Authorised,
                      Drives(p, t)', t > s
               PROVE  cards'[p][t].type \in {"CasperExecutionReceipt",
                                              "GovernanceSummary"}
    BY DEF AuthorityIsNeverReopened, Authorised
  <2>0. s \in Nat /\ t \in Nat
    BY DEF LedgerTypeOK
  <2>1. CASE SameDrivers(p)
    BY <1>1, <2>1 DEF OnceInv, AuthorityIsNeverReopened, Authorised
  <2>2. ASSUME NEW n \in DOMAIN cards[p], AddsDriver(p, n)
        PROVE  cards'[p][t].type \in {"CasperExecutionReceipt",
                                      "GovernanceSummary"}
    <3>1. s # n
      BY <1>2, <2>0, <2>2
    <3>2. CASE t = n
      BY <1>2, <1>3, <2>2, <3>1, <3>2 DEF OnceInv, SettledInv
    <3>3. CASE t # n
      BY <1>2, <2>2, <3>1, <3>3
         DEF OnceInv, AuthorityIsNeverReopened, Authorised
    <3> QED
      BY <3>2, <3>3
  <2> QED
    BY <2>1, <2>2, DriversStep
<1> QED
  BY <1>4, <1>5, <1>6 DEF OnceInv

\* What makes the chain inductive holds in every reachable state.
LEMMA OnceInvariant == LedgerSpec => []OnceInv
<1>1. LedgerInit => OnceInv
  BY DEF LedgerInit, OnceInv, SettledInv, OneReceiptPerProposal,
         AuthorityIsNeverReopened
<1>2. LedgerTypeOK /\ LedgerTypeOK' /\ OnceInv /\ [LedgerNext]_ledgerVars
        => OnceInv'
  BY OnceStep
<1> QED
  BY <1>1, <1>2, LedgerTypeCorrect, PTL DEF LedgerSpec

\* However many receipts the operator prepares and whenever it confirms them,
\* a chain holds one confirmed CasperExecutionReceipt at most.
THEOREM OnceCorrect == LedgerSpec => []OneReceiptPerProposal
<1>1. OnceInv => OneReceiptPerProposal
  BY DEF OnceInv
<1> QED
  BY <1>1, OnceInvariant, PTL

\* Behind a confirmed authority nothing but the receipt and the summary is
\* confirmed, in whatever order cards were sealed and posted.
THEOREM NeverReopenedCorrect == LedgerSpec => []AuthorityIsNeverReopened
<1>1. OnceInv => AuthorityIsNeverReopened
  BY DEF OnceInv
<1> QED
  BY <1>1, OnceInvariant, PTL

=============================================================================
