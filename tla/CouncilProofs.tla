---------------------------- MODULE CouncilProofs ----------------------------
(***************************************************************************)
(* Proofs about the agents of the council as clients of the submission     *)
(* protocol, for any number of proposals, messages, deaths and lost        *)
(* requests.                                                               *)
(*                                                                         *)
(* The argument has four layers.  What an agent works on fits the row of   *)
(* the card it made (WorkInv).  A challenge the reviewer has confirmed is  *)
(* one its life remembers, one a death forgot or one whose answer was lost *)
(* (CountInv).  A message shows a card of its sender, an agent's card has  *)
(* the message it answers for a key, and the diagnosis is asked for again  *)
(* only when a verdict closed the last one (RoomInv, JobsSourced).  So the *)
(* diagnosis leaves no Assessment open behind it: the one it seals next is *)
(* either keyed by the first message that routed the proposal or follows a *)
(* confirmed verdict, and the reviewer, whose guard sees that verdict,     *)
(* cannot be working on an older one (LoopInv).                            *)
(***************************************************************************)
EXTENDS CouncilAgents, SubmissionProofs, FiniteSetTheorems

-----------------------------------------------------------------------------
(***************************************************************************)
(* The council: what its agents know and do is well-formed.                *)
(***************************************************************************)

\* The type of card each member of the council makes.
Made == [recorder |-> "ProposalCard", triage |-> "TriageDecision",
         diagnosis |-> "Assessment", safety_reviewer |-> "Verdict"]

ContextOK(c) ==
  /\ c = [known |-> c.known, submitted |-> c.submitted,
          revision |-> c.revision, challenges |-> c.challenges]
  /\ c.known \in BOOLEAN /\ c.submitted \in BOOLEAN /\ c.challenges \in Nat

\* The revisions of a life of the diagnosis are fewer than the messages it read.
MemoryOK ==
  /\ memory = [r \in Agents |-> [p \in Proposals |-> memory[r][p]]]
  /\ \A r \in Agents, p \in Proposals : ContextOK(memory[r][p])
  /\ \A p \in Proposals :
       memory["diagnosis"][p].revision \in 0 .. offset["diagnosis"][p]

OffsetOK ==
  /\ offset \in [Agents -> [Proposals -> Nat]]
  /\ \A r \in Agents, p \in Proposals : offset[r][p] <= Len(messages)
  /\ Len(messages) <= MaxMessages

\* The card of a job is the one sealed under its key with its body.
Backed(r, j) ==
  \E x \in RowsOf(j.prop) :
    x.card = j.card /\ x.key = KeyOf(r, j.source) /\ x.body = j.body /\ x.role = r

TaskOK(r, j) ==
  /\ j = [phase |-> j.phase, prop |-> j.prop, source |-> j.source,
          body |-> j.body, attempts |-> j.attempts, card |-> j.card,
          message |-> j.message]
  /\ j.phase \in {"preparing", "posting", "confirming"}
  /\ j.prop \in Proposals /\ j.source \in RoomOf(j.prop)
  /\ j.body \in Bodies /\ j.body.type = Made[r]
  /\ j.phase # "preparing" => Backed(r, j)
  /\ j.phase = "confirming" => j.message \in DOMAIN messages

JobOK(r, j) == j = NoJob \/ TaskOK(r, j)

JobsOK ==
  /\ job = [r \in Agents |-> job[r]]
  /\ \A r \in Agents : JobOK(r, job[r])

CountersOK ==
  /\ members \subseteq Proposals \X Roles
  /\ gaveUp \subseteq Proposals /\ unguarded \subseteq Proposals
  /\ crashes \in 0 .. MaxCrashes /\ losses \in 0 .. MaxLosses

\* The key of a row names the member of the council that asked for the card.
KeyedRow(x) ==
  \E r \in Agents \cup {"recorder"}, m \in 0 .. MaxMessages :
    x.key = KeyOf(r, m) /\ x.role = r

RowsKeyed == \A x \in submissions : KeyedRow(x)

AgentsInv == MemoryOK /\ OffsetOK /\ JobsOK /\ CountersOK /\ RowsKeyed

WorkInv == SubmissionInv /\ AgentsInv

\* A row and what it has become.
Became(x, y) ==
  /\ y.prop = x.prop /\ y.card = x.card /\ y.key = x.key
  /\ y.body = x.body /\ y.role = x.role
  /\ x.message # 0 => y.message = x.message

OldRow(y) == \E x \in submissions : Became(x, y)

\* A card is posted in some room, or confirmed with it: which one the council's
\* work does not depend on.
Posts(p, role, s, tagged) == \E r \in Chambers : PostCard(p, role, s, tagged, r)

Confirms(x, role, m) ==
  \E named \in Chambers \cup {NoRoom} : ConfirmCard(x, role, m, named)

\* Neither cards nor messages change.
NoRequest == UNCHANGED <<state, cards, visible, submissions, messages>>

\* What no step takes back: sealed and confirmed cards, messages.
Grew ==
  /\ \A x \in submissions : \E y \in submissions' : Became(x, y)
  /\ \A m \in DOMAIN messages :
       m \in DOMAIN messages' /\ messages'[m] = messages[m]
  /\ Len(messages) <= Len(messages')
  /\ \A p \in Proposals : \A s \in DOMAIN cards[p] :
       /\ s \in DOMAIN cards'[p]
       /\ cards'[p][s].type = cards[p][s].type
       /\ cards'[p][s].outcome = cards[p][s].outcome
       /\ cards[p][s].published => cards'[p][s].published

\* Every agent goes on with its job or drops it.
Continued ==
  \A r \in Agents :
    \/ job'[r] = job[r] \/ job'[r] = NoJob
    \/ /\ job[r].phase # "idle"
       /\ job'[r].phase # "idle" /\ job'[r].prop = job[r].prop
       /\ job'[r].source = job[r].source /\ job'[r].body = job[r].body

-----------------------------------------------------------------------------

LEMMA RolesAre ==
  /\ Agents \subseteq Roles /\ "recorder" \in Roles /\ "commander" \in Roles
  /\ \A r \in Agents : CanSubmit(r, Made[r])
<1>1. \A t \in DOMAIN Author : Author[t] \in Roles
  BY DEF Roles
<1>2. /\ Author["ProposalCard"] = "recorder"
      /\ Author["TriageDecision"] = "triage"
      /\ Author["Assessment"] = "diagnosis"
      /\ Author["Verdict"] = "safety_reviewer"
      /\ Author["ResponsePlan"] = "commander"
      /\ {"ProposalCard", "TriageDecision", "Assessment", "Verdict",
          "ResponsePlan"} \subseteq DOMAIN Author
  BY DEF Author
<1> QED
  BY <1>1, <1>2 DEF Agents, CanSubmit, Made

LEMMA KeysAre ==
  ASSUME NEW r \in Agents \cup {"recorder"}, NEW m \in 0 .. MaxMessages
  PROVE  KeyOf(r, m) \in Keys
BY CouncilAssumption

LEMMA WordingsAre ==
  ASSUME CountersOK, NEW w \in Wordings, NEW n \in 0 .. MaxMessages
  PROVE  <<n, w>> \in Takes
<1>1. w \in 0 .. MaxCrashes
  BY CouncilAssumption DEF CountersOK, Wordings
<1> QED
  BY <1>1, CouncilAssumption

LEMMA BodyIs ==
  ASSUME CountersOK, NEW t \in CardTypes, NEW o \in Outcomes(t), NEW l,
         NEW n \in 0 .. MaxMessages, NEW w \in Wordings,
         IF t \in {"Assessment", "ResponsePlan"} THEN l \in Levels ELSE l = "none"
  PROVE  Body(t, o, l, n, w) \in Bodies /\ Body(t, o, l, n, w).type = t
<1>1. <<n, w>> \in Takes
  BY WordingsAre
<1>2. o \in AllOutcomes /\ l \in Levels \cup {"none"}
  BY DEF AllOutcomes
<1> QED
  BY <1>1, <1>2 DEF Body, Bodies

LEMMA DecisionsAre ==
  ASSUME NEW c
  PROVE  Decisions(c) \subseteq Outcomes("Verdict")
<1>1. ASSUME NEW f, NEW o \in Outcomes("Verdict")
      PROVE  Enforced(c, f, o) \in Outcomes("Verdict")
  BY <1>1 DEF Enforced, Outcomes
<1>2. \A f : LocalDecision(c, f) \in Outcomes("Verdict")
  BY DEF LocalDecision, Outcomes
<1> QED
  BY <1>1, <1>2 DEF Decisions

\* What an agent makes of a message is a body it may submit.
LEMMA BodiesFit ==
  ASSUME CountersOK, NEW r \in Agents, NEW c,
         r = "diagnosis" => c.revision \in 0 .. MaxMessages,
         NEW body \in BodiesOf(r, c)
  PROVE  body \in Bodies /\ body.type = Made[r]
<1>0. 0 \in 0 .. MaxMessages
  BY SubmissionAssumption
<1>1. CASE r = "triage"
  <2>1. PICK o \in Outcomes("TriageDecision"), w \in Wordings :
          body = Body("TriageDecision", o, "none", 0, w)
    BY <1>1 DEF BodiesOf
  <2> QED
    BY <1>0, <1>1, <2>1, BodyIs DEF Made, CardTypes
<1>2. CASE r = "diagnosis"
  <2>1. PICK l \in Impacts, w \in Wordings :
          body = Body("Assessment", "none", l, c.revision, w)
    BY <1>2 DEF BodiesOf
  <2>2. l \in Levels /\ "none" \in Outcomes("Assessment")
    BY CouncilAssumption DEF Outcomes
  <2> QED
    BY <1>2, <2>1, <2>2, BodyIs DEF Made, CardTypes
<1>3. CASE r = "safety_reviewer"
  <2>1. PICK o \in Decisions(c), w \in Wordings :
          body = Body("Verdict", o, "none", 0, w)
    BY <1>3 DEF BodiesOf
  <2>2. o \in Outcomes("Verdict")
    BY DecisionsAre
  <2> QED
    BY <1>0, <1>3, <2>1, <2>2, BodyIs DEF Made, CardTypes
<1> QED
  BY <1>1, <1>2, <1>3 DEF Agents

LEMMA SignalIs ==
  CountersOK => Signal \in Bodies /\ Signal.type = "ProposalCard"
<1> SUFFICES ASSUME CountersOK
             PROVE  Signal \in Bodies /\ Signal.type = "ProposalCard"
  OBVIOUS
<1>1. 0 \in Wordings /\ 0 \in 0 .. MaxMessages
  BY SubmissionAssumption DEF Wordings, CountersOK
<1>2. Signal = Body("ProposalCard", "none", "none", 0, 0)
  BY DEF Signal, Body
<1>3. "none" \in Outcomes("ProposalCard")
  BY DEF Outcomes
<1> QED
  BY <1>1, <1>2, <1>3, BodyIs DEF CardTypes

-----------------------------------------------------------------------------
(***************************************************************************)
(* Requests only add.                                                      *)
(***************************************************************************)

LEMMA PrepareGrows ==
  ASSUME SubmissionTypeOK, NEW p \in Proposals, NEW role \in Roles,
         NEW key \in Keys, NEW body \in Bodies, PrepareCard(p, role, key, body)
  PROVE  Grew
<1>1. PICK b : /\ submissions' = submissions \cup {b}
               /\ \A q \in Proposals : \A s \in DOMAIN cards[q] :
                    s \in DOMAIN cards'[q] /\ cards'[q][s] = cards[q][s]
  BY PrepareCardFacts
<1>2. messages' = messages
  BY DEF PrepareCard
<1>3. Len(messages) \in Nat
  BY DEF SubmissionTypeOK
<1>4. \A x \in submissions : x \in submissions' /\ Became(x, x)
  BY <1>1 DEF Became
<1> QED
  BY <1>1, <1>2, <1>3, <1>4 DEF Grew

\* A message is about p, by role, and shows these cards.
Tells(m, p, role, shown) ==
  messages[m].prop = p /\ messages[m].role = role /\ messages[m].cards = shown

LEMMA PostGrows ==
  ASSUME SubmissionTypeOK, RowsInv, NEW p \in Proposals, NEW role \in Roles,
         NEW s, NEW tagged \in BOOLEAN, Posts(p, role, s, tagged)
  PROVE  /\ Grew
         /\ Len(messages') = Len(messages) + 1 /\ Len(messages') <= MaxMessages
         /\ DOMAIN messages' = DOMAIN messages \cup {Len(messages) + 1}
         /\ \E k : /\ DOMAIN messages' = DOMAIN messages \cup {k}
                    /\ Tells(k, p, role, Carried(s, tagged))'
<1>r. PICK r \in Chambers : PostCard(p, role, s, tagged, r)
  BY DEF Posts
<1> DEFINE b == [room |-> r, prop |-> p, role |-> role,
                 cards |-> Carried(s, tagged)]
<1>1. /\ UNCHANGED <<state, cards, submissions>>
      /\ \A m \in DOMAIN messages :
           m \in DOMAIN messages' /\ messages'[m] = messages[m]
  BY <1>r, PostCardKeeps
<1>2. messages' = Append(messages, b) /\ Len(messages) < MaxMessages
  BY <1>r DEF PostCard
<1>3. messages \in Seq(Messages) /\ Len(messages) \in Nat /\ MaxMessages \in Nat
  BY SubmissionAssumption DEF SubmissionTypeOK
<1>4. /\ Len(messages') = Len(messages) + 1 /\ Len(messages') <= MaxMessages
      /\ DOMAIN messages' = DOMAIN messages \cup {Len(messages) + 1}
      /\ messages'[Len(messages) + 1] = b
  BY <1>2, <1>3
<1>5. \A x \in submissions : x \in submissions' /\ Became(x, x)
  BY <1>1 DEF Became
<1>6. PICK k : k = Len(messages) + 1
  OBVIOUS
<1>7. Tells(k, p, role, Carried(s, tagged))'
  BY <1>4, <1>6 DEF Tells
<1>8. Grew
  BY <1>1, <1>3, <1>4, <1>5 DEF Grew
<1> QED
  BY <1>4, <1>6, <1>7, <1>8

\* ConfirmCardFacts, of a confirmation with any room.
LEMMA ConfirmsFacts ==
  ASSUME SubmissionTypeOK, RowsInv, NEW x \in submissions, NEW role \in Roles,
         NEW m \in DOMAIN messages, Confirms(x, role, m)
  PROVE  \E y \in Rows :
           /\ y = [x EXCEPT !.message = m]
           /\ submissions' = (submissions \ {x}) \cup {y}
           /\ x.message = 0 /\ m \in Nat \ {0} /\ messages' = messages
           /\ \A q \in Proposals : DOMAIN cards'[q] = DOMAIN cards[q]
           /\ \A q \in Proposals : \A s \in DOMAIN cards[q] :
                IF q = x.prop /\ s = x.card
                THEN cards'[q][s] = [cards[q][s] EXCEPT !.published = TRUE]
                ELSE cards'[q][s] = cards[q][s]
           /\ cards[x.prop][x.card] \in Cards
<1>1. PICK named \in Chambers \cup {NoRoom} : ConfirmCard(x, role, m, named)
  BY DEF Confirms
<1>2. PICK y \in Rows :
        /\ y = [x EXCEPT !.message = m]
        /\ submissions' = (submissions \ {x}) \cup {y}
        /\ x.message = 0 /\ m \in Nat \ {0}
        /\ UNCHANGED <<messages, rooms>>
        /\ \A q \in Proposals : DOMAIN cards'[q] = DOMAIN cards[q]
        /\ \A q \in Proposals : \A s \in DOMAIN cards[q] :
             IF q = x.prop /\ s = x.card
             THEN cards'[q][s] = [cards[q][s] EXCEPT !.published = TRUE]
             ELSE cards'[q][s] = cards[q][s]
        /\ cards[x.prop][x.card] \in Cards
  BY <1>1, ConfirmCardFacts
<1> QED
  BY <1>2

\* RequestsKeepInv, of posts and confirmations with any room.
LEMMA CouncilRequestsKeepInv ==
  ASSUME SubmissionInv
  PROVE  /\ \A p \in Proposals, role \in Roles, tagged \in BOOLEAN :
              \A s \in DOMAIN cards[p] :
                Posts(p, role, s, tagged) => SubmissionInv'
         /\ \A x \in submissions, role \in Roles, m \in DOMAIN messages :
              Confirms(x, role, m) => SubmissionInv'
  BY RequestsKeepInv DEF Posts, Confirms

LEMMA ConfirmGrows ==
  ASSUME SubmissionTypeOK, RowsInv, NEW x \in submissions, NEW role \in Roles,
         NEW m \in DOMAIN messages, Confirms(x, role, m)
  PROVE  /\ Grew
         /\ \E y \in submissions' : Became(x, y) /\ y.message = m
         /\ \A y \in submissions' : OldRow(y)
<1>1. PICK y \in Rows :
         /\ y = [x EXCEPT !.message = m]
         /\ submissions' = (submissions \ {x}) \cup {y}
         /\ x.message = 0 /\ messages' = messages
         /\ \A q \in Proposals : DOMAIN cards'[q] = DOMAIN cards[q]
         /\ \A q \in Proposals : \A s \in DOMAIN cards[q] :
              IF q = x.prop /\ s = x.card
              THEN cards'[q][s] = [cards[q][s] EXCEPT !.published = TRUE]
              ELSE cards'[q][s] = cards[q][s]
         /\ cards[x.prop][x.card] \in Cards
  BY ConfirmsFacts
<1>2. x \in Rows /\ Len(messages) \in Nat
  BY DEF SubmissionTypeOK
<1>3. /\ y.prop = x.prop /\ y.card = x.card /\ y.key = x.key
      /\ y.body = x.body /\ y.role = x.role
  BY <1>1, <1>2 DEF Rows
<1>4. y.message = m /\ Became(x, y) /\ \A z \in submissions : Became(z, z)
  BY <1>1, <1>2, <1>3 DEF Became, Rows
<1>5. ASSUME NEW q \in Proposals, NEW s \in DOMAIN cards[q]
      PROVE  /\ s \in DOMAIN cards'[q]
             /\ cards'[q][s].type = cards[q][s].type
             /\ cards'[q][s].outcome = cards[q][s].outcome
             /\ cards[q][s].published => cards'[q][s].published
  <2>1. CASE q = x.prop /\ s = x.card
    BY <1>1, <2>1 DEF Cards
  <2>2. CASE ~ (q = x.prop /\ s = x.card)
    <3>1. cards'[q][s] = cards[q][s]
      BY <1>1, <2>2
    <3> QED
      BY <1>1, <3>1
  <2> QED
    BY <2>1, <2>2
<1>6. /\ \A z \in submissions : \E w \in submissions' : Became(z, w)
      /\ \A w \in submissions' : OldRow(w)
  BY <1>1, <1>4 DEF OldRow
<1>7. Grew
  BY <1>1, <1>2, <1>5, <1>6 DEF Grew
<1>8. y \in submissions'
  BY <1>1
<1> QED
  BY <1>4, <1>6, <1>7, <1>8

LEMMA AllStays ==
  ASSUME SubmissionTypeOK, NoRequest
  PROVE  Grew /\ \A y \in submissions' : OldRow(y)
<1>1. Len(messages) \in Nat
  BY DEF SubmissionTypeOK
<1>2. \A x \in submissions : x \in submissions' /\ Became(x, x)
  BY DEF NoRequest, Became
<1> QED
  BY <1>1, <1>2 DEF NoRequest, Grew, OldRow

LEMMA NothingGrows ==
  ASSUME SubmissionInv, UNCHANGED submissionVars
  PROVE  Grew /\ SubmissionInv' /\ \A y \in submissions' : OldRow(y)
<1>1. NoRequest
  BY DEF NoRequest, submissionVars, ledgerVars
<1> QED
  BY <1>1, AllStays, SubmissionStutters DEF SubmissionInv

-----------------------------------------------------------------------------
(***************************************************************************)
(* Jobs and contexts one by one.                                           *)
(***************************************************************************)

LEMMA RoomGrows ==
  ASSUME Grew, NEW p, NEW m \in RoomOf(p)
  PROVE  m \in RoomOf(p)'
BY DEF Grew, RoomOf

LEMMA TaskGrows ==
  ASSUME Grew, NEW r, NEW j, TaskOK(r, j)
  PROVE  TaskOK(r, j)'
<1>1. Backed(r, j) => Backed(r, j)'
  BY DEF Grew, Became, Backed, RowsOf
<1>2. j.source \in RoomOf(j.prop)'
  BY RoomGrows DEF TaskOK
<1>3. j.message \in DOMAIN messages => j.message \in DOMAIN messages'
  BY DEF Grew
<1> QED
  BY <1>1, <1>2, <1>3 DEF TaskOK

LEMMA KeysKept ==
  ASSUME RowsKeyed, \A y \in submissions' : OldRow(y)
  PROVE  RowsKeyed'
BY DEF RowsKeyed, KeyedRow, OldRow, Became

\* One agent gets another job.
LEMMA JobChanges ==
  ASSUME JobsOK, Grew, NEW r \in Agents, NEW j, JobOK(r, j)', Pursue(r, j)
  PROVE  /\ JobsOK' /\ job'[r] = j
         /\ \A q \in Agents : q # r => job'[q] = job[q]
<1>1. /\ job' = [job EXCEPT ![r] = j] /\ DOMAIN job = Agents
      /\ job'[r] = j /\ \A q \in Agents : q # r => job'[q] = job[q]
      /\ job' = [q \in Agents |-> job'[q]]
  BY DEF JobsOK, Pursue
<1>2. ASSUME NEW q \in Agents  PROVE JobOK(q, job[q])' 
  <2>1. CASE q = r
    BY <1>1, <2>1
  <2>2. CASE q # r
    <3>1. PICK i : i = job[q]
      OBVIOUS
    <3>2. JobOK(q, i) /\ job'[q] = i
      BY <1>1, <2>2, <3>1 DEF JobsOK
    <3>3. JobOK(q, i)'
      BY <3>2, TaskGrows DEF JobOK
    <3> QED
      BY <3>2, <3>3
  <2> QED
    BY <2>1, <2>2
<1> QED
  BY <1>1, <1>2 DEF JobsOK

LEMMA JobsKept ==
  ASSUME JobsOK, Grew, UNCHANGED job
  PROVE  JobsOK'
<1>1. ASSUME NEW q \in Agents  PROVE JobOK(q, job[q])'
  <2>1. PICK i : i = job[q]
    OBVIOUS
  <2>2. JobOK(q, i) /\ job'[q] = i
    BY <2>1 DEF JobsOK
  <2>3. JobOK(q, i)'
    BY <2>2, TaskGrows DEF JobOK
  <2> QED
    BY <2>2, <2>3
<1> QED
  BY <1>1 DEF JobsOK

LEMMA IdleOK == \A r : JobOK(r, NoJob)'
BY DEF JobOK

\* One agent learns about one proposal.
Learns(r, p, c) == memory' = [memory EXCEPT ![r][p] = c]

LEMMA ContextChanges ==
  ASSUME MemoryOK, NEW r \in Agents, NEW p \in Proposals, NEW c,
         Learns(r, p, c)
  PROVE  /\ memory' = [q \in Agents |-> [s \in Proposals |-> memory'[q][s]]]
         /\ memory'[r][p] = c
         /\ \A q \in Agents, s \in Proposals :
              q # r \/ s # p => memory'[q][s] = memory[q][s]
<1>1. DOMAIN memory = Agents /\ \A q \in Agents : DOMAIN memory[q] = Proposals
  BY DEF MemoryOK
<1>2. memory' = [q \in Agents |->
                   IF q = r THEN [memory[r] EXCEPT ![p] = c] ELSE memory[q]]
  BY <1>1 DEF Learns
<1>3. \A q \in Agents : memory[q] = [s \in Proposals |-> memory[q][s]]
  BY DEF MemoryOK
<1>4. /\ memory'[r][p] = c
      /\ \A q \in Agents, s \in Proposals :
           q # r \/ s # p => memory'[q][s] = memory[q][s]
  BY <1>1, <1>2
<1>5. \A q \in Agents : memory'[q] = [s \in Proposals |-> memory'[q][s]]
  BY <1>1, <1>2, <1>3
<1>6. memory' = [q \in Agents |-> memory'[q]]
  BY <1>2
<1>7. memory' = [q \in Agents |-> [s \in Proposals |-> memory'[q][s]]]
  BY <1>5, <1>6
<1> QED
  BY <1>4, <1>7

\* The row of the card an agent posts or confirms.
LEMMA RowOfJob ==
  ASSUME SubmissionInv, NEW r \in Agents, TaskOK(r, job[r]),
         job[r].phase # "preparing"
  PROVE  /\ Row(r) \in submissions
         /\ Row(r).prop = job[r].prop /\ Row(r).card = job[r].card
         /\ Row(r).key = KeyOf(r, job[r].source)
         /\ Row(r).body = job[r].body /\ Row(r).role = r
<1>1. PICK x \in RowsOf(job[r].prop) :
        x.card = job[r].card /\ x.key = KeyOf(r, job[r].source)
        /\ x.body = job[r].body /\ x.role = r
  BY DEF TaskOK, Backed
<1>2. Row(r) \in RowsOf(job[r].prop) /\ Row(r).card = job[r].card
  BY <1>1 DEF Row
<1>3. Row(r) = x
  BY <1>1, <1>2 DEF SubmissionInv, RowsInv, RowsDiffer, RowsOf
<1> QED
  BY <1>1, <1>2, <1>3 DEF RowsOf

-----------------------------------------------------------------------------
(***************************************************************************)
(* The steps of the council are well-formed.                               *)
(***************************************************************************)

\* What agents remember and have read is left alone.
LEMMA RecallKept ==
  ASSUME MemoryOK, OffsetOK, Grew, Len(messages') <= MaxMessages,
         UNCHANGED <<memory, offset>>
  PROVE  MemoryOK' /\ OffsetOK'
<1>1. MemoryOK'
  BY DEF MemoryOK
<1>2. Len(messages') \in Nat => OffsetOK'
  BY DEF OffsetOK, Grew
<1> QED
  BY <1>1, <1>2 DEF OffsetOK, Grew

LEMMA NewRowKeyed ==
  ASSUME RowsKeyed, NEW p, NEW r \in Agents \cup {"recorder"},
         NEW m \in 0 .. MaxMessages, NEW body,
         PrepareCard(p, r, KeyOf(r, m), body)
  PROVE  RowsKeyed'
<1> DEFINE b == [prop |-> p, card |-> Len(cards[p]) + 1, key |-> KeyOf(r, m),
                 body |-> body, role |-> r, message |-> 0]
<1>1. submissions' = submissions \cup {b} /\ KeyedRow(b)
  BY DEF PrepareCard, KeyedRow
<1> QED
  BY <1>1 DEF RowsKeyed, KeyedRow

\* The four requests of the recorder.
LEMMA AnnounceIsOneOf ==
  ASSUME SubmissionTypeOK, NEW p \in Proposals, Announce(p)
  PROVE  \/ /\ PrepareCard(p, "recorder", KeyOf("recorder", 0), Signal)
            /\ UNCHANGED members
         \/ \E r \in Chambers : CreateRoom(r, p) /\ UNCHANGED members
         \/ \E x \in Under(p, KeyOf("recorder", 0)) :
              \/ /\ \A m \in RoomOf(p) : x.card \notin messages[m].cards
                 /\ Invite(p, {"triage"})
                 /\ Posts(p, "recorder", x.card, FALSE)
              \/ \E m \in DOMAIN messages : Confirms(x, "recorder", m)
                                            /\ UNCHANGED members
<1>1. chamber[p] \in Chambers \cup {NoRoom}
  BY DEF SubmissionTypeOK
<1>2. ASSUME NEW x, PostCard(p, "recorder", x.card, FALSE, chamber[p])
      PROVE  Posts(p, "recorder", x.card, FALSE)
  <2>1. chamber[p] \in Chambers
    BY <1>2 DEF PostCard, SubmissionTypeOK
  <2> QED
    BY <1>2, <2>1 DEF Posts
<1>3. ASSUME NEW x, NEW m, ConfirmCard(x, "recorder", m, chamber[p])
      PROVE  Confirms(x, "recorder", m)
  BY <1>1, <1>3 DEF Confirms
<1> QED
  BY <1>2, <1>3 DEF Announce

LEMMA AnnounceKeeps ==
  ASSUME WorkInv, NEW p \in Proposals, Announce(p)
  PROVE  WorkInv' /\ Grew /\ Continued
<1>0. /\ SubmissionInv /\ SubmissionTypeOK /\ RowsInv
      /\ MemoryOK /\ OffsetOK /\ JobsOK /\ CountersOK /\ RowsKeyed
  BY DEF WorkInv, AgentsInv, SubmissionInv
<1>1. /\ UNCHANGED <<offset, memory, job, gaveUp, unguarded, crashes, losses>>
      /\ "recorder" \in Roles /\ Agents \subseteq Roles
  BY RolesAre DEF Announce
<1>2. KeyOf("recorder", 0) \in Keys
  BY KeysAre, SubmissionAssumption
<1>3. /\ SubmissionInv' /\ Grew /\ Len(messages') <= MaxMessages
      /\ members' \subseteq Proposals \X Roles /\ RowsKeyed'
  <2>1. CASE /\ PrepareCard(p, "recorder", KeyOf("recorder", 0), Signal)
             /\ UNCHANGED members
    <3>1. Signal \in Bodies
      BY <1>0, SignalIs
    <3>2. SubmissionInv' /\ Grew
      BY <1>0, <1>1, <1>2, <2>1, <3>1, RequestsKeepInv, PrepareGrows
    <3>3. messages' = messages
      BY <2>1 DEF PrepareCard
    <3>4. RowsKeyed'
      BY <1>0, <2>1, NewRowKeyed, SubmissionAssumption
    <3> QED
      BY <1>0, <2>1, <3>2, <3>3, <3>4 DEF OffsetOK, CountersOK
  <2>2. ASSUME NEW x \in Under(p, KeyOf("recorder", 0)), Invite(p, {"triage"}),
               Posts(p, "recorder", x.card, FALSE)
        PROVE  /\ SubmissionInv' /\ Grew /\ Len(messages') <= MaxMessages
               /\ members' \subseteq Proposals \X Roles /\ RowsKeyed'
    <3>1. x.card \in DOMAIN cards[p]
      BY <2>2 DEF Posts, PostCard
    <3>2. SubmissionInv' /\ Grew /\ Len(messages') <= MaxMessages
      BY <1>0, <1>1, <2>2, <3>1, CouncilRequestsKeepInv, PostGrows
    <3>3. members' \subseteq Proposals \X Roles
      BY <1>0, <1>1, <2>2 DEF CountersOK, Invite, Agents
    <3>4. RowsKeyed'
      BY <1>0, <2>2 DEF Posts, PostCard, RowsKeyed, KeyedRow
    <3> QED
      BY <3>2, <3>3, <3>4
  <2>3. ASSUME NEW x \in Under(p, KeyOf("recorder", 0)), NEW m \in DOMAIN messages,
               Confirms(x, "recorder", m), UNCHANGED members
        PROVE  /\ SubmissionInv' /\ Grew /\ Len(messages') <= MaxMessages
               /\ members' \subseteq Proposals \X Roles /\ RowsKeyed'
    <3>1. x \in submissions
      BY DEF Under, RowsOf
    <3>2. SubmissionInv' /\ Grew /\ RowsKeyed'
      BY <1>0, <1>1, <2>3, <3>1, CouncilRequestsKeepInv, ConfirmGrows, KeysKept
    <3>3. messages' = messages
      BY <2>3 DEF Confirms, ConfirmCard
    <3> QED
      BY <1>0, <2>3, <3>2, <3>3 DEF OffsetOK, CountersOK
  <2>4. ASSUME NEW r \in Chambers, CreateRoom(r, p), UNCHANGED members
        PROVE  /\ SubmissionInv' /\ Grew /\ Len(messages') <= MaxMessages
               /\ members' \subseteq Proposals \X Roles /\ RowsKeyed'
    <3>1. NoRequest
      BY <2>4 DEF CreateRoom, NoRequest, ledgerVars
    <3>2. SubmissionInv' /\ Grew /\ \A y \in submissions' : OldRow(y)
      BY <1>0, <2>4, <3>1, RequestsKeepInv, AllStays
    <3>3. RowsKeyed'
      BY <1>0, <3>2, KeysKept
    <3> QED
      BY <1>0, <2>4, <3>1, <3>2, <3>3 DEF NoRequest, OffsetOK, CountersOK
  <2> QED
    BY <1>0, <2>1, <2>2, <2>3, <2>4, AnnounceIsOneOf
<1>4. MemoryOK' /\ OffsetOK' /\ JobsOK' /\ Continued
  BY <1>0, <1>1, <1>3, RecallKept, JobsKept DEF Continued
<1>5. CountersOK'
  BY <1>0, <1>1, <1>3 DEF CountersOK
<1> QED
  BY <1>3, <1>4, <1>5 DEF WorkInv, AgentsInv

\* A request of an agent that the gateway took.
LEMMA RequestKeeps ==
  ASSUME WorkInv, SubmissionInv', Grew, Len(messages') <= MaxMessages,
         UNCHANGED <<memory, offset, crashes, gaveUp, unguarded>>,
         members' \subseteq Proposals \X Roles, RowsKeyed',
         NEW r \in Agents, NEW j, JobOK(r, j)', Pursue(r, j),
         losses' \in 0 .. MaxLosses,
         \/ j = NoJob
         \/ /\ job[r].phase # "idle" /\ j.phase # "idle"
            /\ j.prop = job[r].prop /\ j.source = job[r].source
            /\ j.body = job[r].body
  PROVE  WorkInv' /\ Continued
<1>0. MemoryOK /\ OffsetOK /\ JobsOK /\ CountersOK
  BY DEF WorkInv, AgentsInv
<1>1. MemoryOK' /\ OffsetOK' /\ JobsOK'
  BY <1>0, RecallKept, JobChanges
<1>2. Continued
  BY <1>0, JobChanges DEF Continued
<1>3. CountersOK'
  BY <1>0 DEF CountersOK
<1> QED
  BY <1>1, <1>2, <1>3 DEF WorkInv, AgentsInv

\* A job that is not idle is a task.
LEMMA AtWork ==
  ASSUME WorkInv, NEW r \in Agents, job[r].phase # "idle"
  PROVE  /\ TaskOK(r, job[r])
         /\ job[r].source \in DOMAIN messages
         /\ job[r].source \in 0 .. MaxMessages
         /\ KeyOf(r, job[r].source) \in Keys
<1>1. JobOK(r, job[r]) /\ OffsetOK /\ messages \in Seq(Messages)
  BY DEF WorkInv, AgentsInv, JobsOK, SubmissionInv, SubmissionTypeOK
<1>2. TaskOK(r, job[r])
  BY <1>1 DEF JobOK, NoJob
<1>3. job[r].source \in DOMAIN messages
  BY <1>2 DEF TaskOK, RoomOf
<1>4. job[r].source \in 0 .. MaxMessages
  BY <1>1, <1>3, SubmissionAssumption DEF OffsetOK
<1> QED
  BY <1>2, <1>3, <1>4, KeysAre

\* The agent goes on to post the card of a row it has under its key.
Posting(i, s) == [i EXCEPT !.phase = "posting", !.card = s]

LEMMA GoesToPost ==
  ASSUME Grew, NEW r \in Agents, NEW i, TaskOK(r, i), NEW s,
         NEW x \in submissions', x.prop = i.prop, x.card = s,
         x.key = KeyOf(r, i.source), x.body = i.body, x.role = r,
         NEW j, j = Posting(i, s)
  PROVE  /\ TaskOK(r, j)' /\ j.phase # "idle" /\ j.prop = i.prop
         /\ j.source = i.source /\ j.body = i.body
<1>1. TaskOK(r, i)'
  BY TaskGrows
<1>2. j = [phase |-> "posting", prop |-> i.prop, source |-> i.source,
           body |-> i.body, attempts |-> i.attempts, card |-> s,
           message |-> i.message]
  BY <1>1 DEF TaskOK, Posting
<1>3. /\ j.phase = "posting" /\ j.prop = i.prop /\ j.source = i.source
      /\ j.body = i.body /\ j.card = s /\ j.attempts = i.attempts
      /\ j.message = i.message
  BY <1>2
<1>4. Backed(r, j)'
  BY <1>3 DEF Backed, RowsOf
<1> QED
  BY <1>1, <1>2, <1>3, <1>4 DEF TaskOK

LEMMA SealKeeps ==
  ASSUME WorkInv, NEW r \in Agents, SealOfJob(r)
  PROVE  WorkInv' /\ Grew /\ Continued
<1>0. /\ SubmissionInv /\ SubmissionTypeOK /\ RowsInv
      /\ OffsetOK /\ CountersOK /\ RowsKeyed /\ r \in Roles
  BY RolesAre DEF WorkInv, AgentsInv, SubmissionInv
<1>1. PICK i, n : i = job[r] /\ n = Len(cards[i.prop]) + 1
  OBVIOUS
<1>2. /\ i.phase = "preparing" /\ TaskOK(r, i)
      /\ KeyOf(r, i.source) \in Keys /\ i.source \in 0 .. MaxMessages
  BY <1>1, AtWork DEF SealOfJob
<1>3. i.prop \in Proposals /\ i.body \in Bodies
  BY <1>2 DEF TaskOK
<1>j. PICK j : j = Posting(i, n)
  OBVIOUS
<1>4. /\ PrepareCard(i.prop, r, KeyOf(r, i.source), i.body)
      /\ Answered(r, j)
      /\ UNCHANGED <<members, offset, memory, gaveUp, unguarded, crashes>>
  BY <1>1, <1>j DEF SealOfJob, Posting
<1>5. SubmissionInv' /\ Grew /\ messages' = messages
  BY <1>0, <1>2, <1>3, <1>4, RequestsKeepInv, PrepareGrows DEF PrepareCard
<1>6. PICK x \in submissions' :
        /\ x.prop = i.prop /\ x.card = n /\ x.key = KeyOf(r, i.source)
        /\ x.body = i.body /\ x.role = r
  <2> DEFINE b == [prop |-> i.prop, card |-> n, key |-> KeyOf(r, i.source),
                   body |-> i.body, role |-> r, message |-> 0]
  <2>1. b \in submissions'
    BY <1>1, <1>4 DEF PrepareCard
  <2> QED
    BY <2>1
<1>7. /\ TaskOK(r, j)' /\ j.phase # "idle" /\ j.prop = i.prop
      /\ j.source = i.source /\ j.body = i.body
  BY <1>2, <1>5, <1>6, <1>j, GoesToPost
<1>8. /\ Len(messages') <= MaxMessages /\ members' \subseteq Proposals \X Roles
      /\ UNCHANGED <<memory, offset, crashes, gaveUp, unguarded>>
      /\ RowsKeyed'
  BY <1>0, <1>2, <1>4, <1>5, NewRowKeyed DEF OffsetOK, CountersOK
<1>9. CASE Pursue(r, j) /\ UNCHANGED losses
  <2>1. losses' \in 0 .. MaxLosses /\ JobOK(r, j)'
    BY <1>0, <1>7, <1>9 DEF CountersOK, JobOK
  <2> QED
    BY <1>1, <1>2, <1>5, <1>7, <1>8, <1>9, <2>1, RequestKeeps
<1>10. CASE losses < MaxLosses /\ losses' = losses + 1 /\ Pursue(r, NoJob)
  <2>1. losses' \in 0 .. MaxLosses /\ JobOK(r, NoJob)'
    BY <1>0, <1>10, IdleOK, CouncilAssumption DEF CountersOK
  <2> QED
    BY <1>5, <1>8, <1>10, <2>1, RequestKeeps
<1> QED
  BY <1>4, <1>5, <1>9, <1>10 DEF Answered, Drop

\* A step of an agent that asks nothing of the gateway, or in vain.
LEMMA QuietKeeps ==
  ASSUME WorkInv, NEW r \in Agents, NEW j, JobOK(r, j), Pursue(r, j),
         UNCHANGED <<submissionVars, offset, memory, unguarded, crashes>>,
         members' \subseteq Proposals \X Roles, gaveUp' \subseteq Proposals,
         losses' \in 0 .. MaxLosses,
         \/ j = NoJob
         \/ /\ job[r].phase # "idle" /\ j.phase # "idle"
            /\ j.prop = job[r].prop /\ j.source = job[r].source
            /\ j.body = job[r].body
  PROVE  WorkInv' /\ Grew /\ Continued
<1>0. /\ SubmissionInv /\ MemoryOK /\ OffsetOK /\ JobsOK /\ CountersOK
      /\ RowsKeyed
  BY DEF WorkInv, AgentsInv
<1>1. Grew /\ SubmissionInv' /\ messages' = messages /\ RowsKeyed'
  BY <1>0, NothingGrows, KeysKept DEF submissionVars
<1>2. JobOK(r, j)'
  BY <1>1, TaskGrows DEF JobOK
<1>3. MemoryOK' /\ OffsetOK' /\ JobsOK'
  BY <1>0, <1>1, <1>2, RecallKept, JobChanges DEF OffsetOK
<1>4. Continued
  BY <1>0, <1>1, <1>2, JobChanges DEF Continued
<1>5. CountersOK'
  BY <1>0 DEF CountersOK
<1> QED
  BY <1>1, <1>3, <1>4, <1>5 DEF WorkInv, AgentsInv

LEMMA SealedBeforeKeeps ==
  ASSUME WorkInv, NEW r \in Agents, SealedBefore(r)
  PROVE  WorkInv' /\ Grew /\ Continued
<1>0. SubmissionInv /\ CountersOK /\ RowsKeyed
  BY DEF WorkInv, AgentsInv
<1>1. PICK i : i = job[r]
  OBVIOUS
<1>2. i.phase = "preparing" /\ TaskOK(r, i)
  BY <1>1, AtWork DEF SealedBefore
<1>3. PICK x \in Under(i.prop, KeyOf(r, i.source)) :
        x.body = i.body /\ Pursue(r, Posting(i, x.card))
  BY <1>1 DEF SealedBefore, Posting
<1>4. /\ x \in submissions /\ x.prop = i.prop /\ x.key = KeyOf(r, i.source)
      /\ x.role = r
  BY <1>0, <1>3 DEF Under, RowsOf, RowsKeyed, KeyedRow, KeyOf
<1>5. UNCHANGED <<submissionVars, members, offset, memory, gaveUp, unguarded,
                  crashes, losses>>
  BY DEF SealedBefore
<1>6. Grew /\ x \in submissions'
  BY <1>0, <1>4, <1>5, NothingGrows DEF submissionVars
<1>j. PICK j : j = Posting(i, x.card)
  OBVIOUS
<1>7. /\ TaskOK(r, j)' /\ j.phase # "idle" /\ j.prop = i.prop
      /\ j.source = i.source /\ j.body = i.body
  BY <1>2, <1>3, <1>4, <1>6, <1>j, GoesToPost
<1>8. TaskOK(r, j)
  BY <1>5, <1>7 DEF submissionVars, TaskOK, Backed, RowsOf, RoomOf
<1>9. /\ members' \subseteq Proposals \X Roles /\ gaveUp' \subseteq Proposals
      /\ losses' \in 0 .. MaxLosses
  BY <1>0, <1>5 DEF CountersOK
<1> QED
  BY <1>1, <1>2, <1>3, <1>5, <1>j, <1>7, <1>8, <1>9, QuietKeeps DEF JobOK

LEMMA SealRefusedKeeps ==
  ASSUME WorkInv, NEW r \in Agents, SealRefused(r)
  PROVE  WorkInv' /\ Grew /\ Continued
<1>0. CountersOK
  BY DEF WorkInv, AgentsInv
<1>1. PICK i, n : i = job[r] /\ n = i.attempts + 1
  OBVIOUS
<1>2. TaskOK(r, i) /\ i.phase = "preparing"
  BY <1>1, AtWork DEF SealRefused
<1>3. /\ UNCHANGED <<submissionVars, members, offset, memory, unguarded, crashes,
                     losses>>
      /\ members' \subseteq Proposals \X Roles /\ losses' \in 0 .. MaxLosses
  BY <1>0 DEF SealRefused, CountersOK
<1>4. CASE Pursue(r, [i EXCEPT !.attempts = n]) /\ UNCHANGED gaveUp
  <2>1. PICK j : j = [i EXCEPT !.attempts = n]
    OBVIOUS
  <2>2. /\ j = [phase |-> "preparing", prop |-> i.prop, source |-> i.source,
                body |-> i.body, attempts |-> n, card |-> i.card,
                message |-> i.message]
        /\ Pursue(r, j)
    BY <1>2, <1>4, <2>1 DEF TaskOK
  <2>3. /\ j.phase = "preparing" /\ j.prop = i.prop /\ j.source = i.source
        /\ j.body = i.body /\ j.attempts = n /\ j.card = i.card
        /\ j.message = i.message
    BY <2>2
  <2>4. TaskOK(r, j)
    BY <1>2, <2>2, <2>3 DEF TaskOK
  <2>5. gaveUp' \subseteq Proposals
    BY <1>0, <1>4 DEF CountersOK
  <2> QED
    BY <1>1, <1>2, <1>3, <2>2, <2>3, <2>4, <2>5, QuietKeeps DEF JobOK
<1>5. CASE GivesUp(r)
  <2>1. Pursue(r, NoJob) /\ gaveUp' \subseteq Proposals
    BY <1>0, <1>1, <1>2, <1>5 DEF GivesUp, Drop, CountersOK, TaskOK
  <2> QED
    BY <1>3, <2>1, QuietKeeps DEF JobOK
<1> QED
  BY <1>1, <1>4, <1>5 DEF SealRefused

LEMMA InvitesRoles ==
  ASSUME CountersOK, NEW r \in Agents, NEW p \in Proposals,
         Invite(p, InvitedBy(r))
  PROVE  members' \subseteq Proposals \X Roles
<1>1. InvitedBy(r) \subseteq Agents \cup {"commander"}
  BY DEF InvitedBy, Agents
<1> QED
  BY <1>1, RolesAre DEF CountersOK, Invite

\* An agent works in a room there is.
LEMMA RoomOfWork ==
  ASSUME WorkInv, NEW r \in Agents, job[r].phase # "idle"
  PROVE  RoomOfJob(r) \in Chambers
<1>1. messages \in Seq(Messages) /\ job[r].source \in DOMAIN messages
  BY AtWork DEF WorkInv, SubmissionInv, SubmissionTypeOK
<1>2. messages[job[r].source] \in Messages
  BY <1>1
<1> QED
  BY <1>2 DEF RoomOfJob, Messages

LEMMA PostKeeps ==
  ASSUME WorkInv, NEW r \in Agents, NEW tagged \in BOOLEAN, Post(r, tagged)
  PROVE  WorkInv' /\ Grew /\ Continued
<1>0. /\ SubmissionInv /\ SubmissionTypeOK /\ RowsInv
      /\ OffsetOK /\ CountersOK /\ RowsKeyed /\ r \in Roles
  BY RolesAre DEF WorkInv, AgentsInv, SubmissionInv
<1>1. PICK i, n : i = job[r] /\ n = Len(messages) + 1
  OBVIOUS
<1>2. i.phase = "posting" /\ TaskOK(r, i) /\ i.prop \in Proposals
  BY <1>1, AtWork DEF Post, TaskOK
<1>3. PICK j : j = [i EXCEPT !.phase = "confirming", !.message = n]
  OBVIOUS
<1>4. /\ Invite(i.prop, InvitedBy(r))
      /\ Posts(i.prop, r, i.card, tagged)
      /\ Answered(r, j)
      /\ UNCHANGED <<offset, memory, gaveUp, unguarded, crashes>>
  BY <1>1, <1>3, RoomOfWork DEF Post, Posts
<1>5. i.card \in DOMAIN cards[i.prop]
  BY <1>4 DEF Posts, PostCard
<1>6. SubmissionInv'
  BY <1>0, <1>2, <1>4, <1>5, CouncilRequestsKeepInv
<1>7. Grew /\ Len(messages') <= MaxMessages /\ n \in DOMAIN messages'
  BY <1>0, <1>1, <1>2, <1>4, PostGrows
<1>8. /\ members' \subseteq Proposals \X Roles
      /\ UNCHANGED <<memory, offset, crashes, gaveUp, unguarded>>
      /\ RowsKeyed'
  BY <1>0, <1>2, <1>4, InvitesRoles DEF Posts, PostCard, RowsKeyed, KeyedRow
<1>9. TaskOK(r, i)'
  BY <1>2, <1>7, TaskGrows
<1>10. j = [phase |-> "confirming", prop |-> i.prop, source |-> i.source,
            body |-> i.body, attempts |-> i.attempts, card |-> i.card,
            message |-> n]
  BY <1>2, <1>3 DEF TaskOK
<1>11. /\ j.phase = "confirming" /\ j.prop = i.prop /\ j.source = i.source
       /\ j.body = i.body /\ j.attempts = i.attempts /\ j.card = i.card
       /\ j.message = n
  BY <1>10
<1>12. Backed(r, j)'
  BY <1>2, <1>9, <1>11 DEF TaskOK, Backed
<1>13. TaskOK(r, j)'
  BY <1>7, <1>9, <1>10, <1>11, <1>12 DEF TaskOK
<1>14. CASE Pursue(r, j) /\ UNCHANGED losses
  <2>1. losses' \in 0 .. MaxLosses /\ JobOK(r, j)'
    BY <1>0, <1>13, <1>14 DEF CountersOK, JobOK
  <2> QED
    BY <1>1, <1>2, <1>6, <1>7, <1>8, <1>11, <1>14, <2>1, RequestKeeps
<1>15. CASE losses < MaxLosses /\ losses' = losses + 1 /\ Pursue(r, NoJob)
  <2>1. losses' \in 0 .. MaxLosses /\ JobOK(r, NoJob)'
    BY <1>0, <1>15, IdleOK, CouncilAssumption DEF CountersOK
  <2> QED
    BY <1>6, <1>7, <1>8, <1>15, <2>1, RequestKeeps
<1> QED
  BY <1>4, <1>7, <1>14, <1>15 DEF Answered, Drop

\* An agent drops its job and nothing else happens to it.
LEMMA DropsKeep ==
  ASSUME WorkInv, NEW r \in Agents, InviteOnly(r) \/ ConfirmRefused(r) \/ Lose(r)
  PROVE  WorkInv' /\ Grew /\ Continued
<1>0. CountersOK
  BY DEF WorkInv, AgentsInv
<1>1. /\ UNCHANGED <<submissionVars, offset, memory, unguarded, crashes>>
      /\ Pursue(r, NoJob) /\ job[r].phase # "idle"
  BY DEF InviteOnly, ConfirmRefused, Lose, GivesUp, Drop
<1>2. job[r].prop \in Proposals
  BY <1>1, AtWork DEF TaskOK
<1>3. members' \subseteq Proposals \X Roles
  BY <1>0, <1>2, InvitesRoles DEF InviteOnly, ConfirmRefused, Lose, CountersOK
<1>4. gaveUp' \subseteq Proposals
  BY <1>0, <1>2 DEF InviteOnly, ConfirmRefused, Lose, GivesUp, CountersOK
<1>5. losses' \in 0 .. MaxLosses
  BY <1>0, CouncilAssumption DEF InviteOnly, ConfirmRefused, Lose, CountersOK
<1> QED
  BY <1>1, <1>3, <1>4, <1>5, QuietKeeps DEF JobOK

LEMMA SettledOK ==
  ASSUME NEW r, NEW c, ContextOK(c), NEW body
  PROVE  ContextOK(Settled(r, c, body)) /\ Settled(r, c, body).revision = c.revision
<1>1. CASE r = "triage"
  BY <1>1 DEF Settled
<1>2. CASE r # "triage" /\ body.outcome = "CHALLENGE"
  <2>1. Settled(r, c, body) =
          [known |-> c.known, submitted |-> c.submitted,
           revision |-> c.revision, challenges |-> c.challenges + 1]
    BY <1>2 DEF Settled, ContextOK
  <2> QED
    BY <2>1 DEF ContextOK
<1>3. CASE r # "triage" /\ body.outcome # "CHALLENGE"
  <2>1. Settled(r, c, body) =
          [known |-> c.known, submitted |-> TRUE,
           revision |-> c.revision, challenges |-> c.challenges]
    BY <1>3 DEF Settled, ContextOK
  <2> QED
    BY <2>1 DEF ContextOK
<1> QED
  BY <1>1, <1>2, <1>3

\* What the confirmation of a job does, its answer lost or not.
LEMMA ConfirmOfJobIs ==
  ASSUME WorkInv, NEW r \in Agents, ConfirmOfJob(r)
  PROVE  /\ TaskOK(r, job[r]) /\ job[r].phase = "confirming"
         /\ \E x \in submissions, m \in DOMAIN messages :
              /\ x.prop = job[r].prop /\ x.card = job[r].card
              /\ x.key = KeyOf(r, job[r].source)
              /\ x.body = job[r].body /\ x.role = r
              /\ Confirms(x, r, m)
         /\ Pursue(r, NoJob)
         /\ UNCHANGED <<members, offset, gaveUp, unguarded, crashes, messages>>
         /\ \/ /\ Learns(r, job[r].prop,
                          Settled(r, memory[r][job[r].prop], job[r].body))
               /\ UNCHANGED losses
            \/ losses < MaxLosses /\ losses' = losses + 1 /\ UNCHANGED memory
<1>1. PICK i : i = job[r]
  OBVIOUS
<1>2. TaskOK(r, i) /\ i.phase = "confirming"
  BY <1>1, AtWork DEF ConfirmOfJob
<1>3. i.message \in DOMAIN messages
  BY <1>2 DEF TaskOK
<1>4. PICK x \in submissions :
        /\ x = Row(r) /\ x.prop = i.prop /\ x.card = i.card
        /\ x.key = KeyOf(r, i.source) /\ x.body = i.body /\ x.role = r
  BY <1>1, <1>2, RowOfJob DEF WorkInv
<1>5. /\ Confirms(x, r, i.message) /\ Pursue(r, NoJob)
      /\ UNCHANGED <<members, offset, gaveUp, unguarded, crashes>>
  BY <1>1, <1>2, <1>4, RoomOfWork DEF ConfirmOfJob, Drop, Confirms
<1>6. \/ /\ Learns(r, i.prop, Settled(r, memory[r][i.prop], i.body))
         /\ UNCHANGED losses
      \/ losses < MaxLosses /\ losses' = losses + 1 /\ UNCHANGED memory
  <2>1. DOMAIN memory = Agents /\ DOMAIN memory[r] = Proposals
    BY DEF WorkInv, AgentsInv, MemoryOK
  <2>2. i.prop \in Proposals
    BY <1>2 DEF TaskOK
  <2> QED
    BY <1>1, <2>1, <2>2 DEF ConfirmOfJob, Learns
<1>7. messages' = messages
  BY <1>5 DEF Confirms, ConfirmCard
<1> QED
  BY <1>1, <1>2, <1>3, <1>4, <1>5, <1>6, <1>7

LEMMA ConfirmKeeps ==
  ASSUME WorkInv, NEW r \in Agents, ConfirmOfJob(r)
  PROVE  WorkInv' /\ Grew /\ Continued
<1>0. /\ SubmissionInv /\ SubmissionTypeOK /\ RowsInv
      /\ MemoryOK /\ OffsetOK /\ JobsOK /\ CountersOK /\ RowsKeyed /\ r \in Roles
  BY RolesAre DEF WorkInv, AgentsInv, SubmissionInv
<1>i. PICK i : i = job[r]
  OBVIOUS
<1>1. /\ TaskOK(r, i) /\ Pursue(r, NoJob)
      /\ UNCHANGED <<members, offset, gaveUp, unguarded, crashes, messages>>
      /\ \/ /\ Learns(r, i.prop, Settled(r, memory[r][i.prop], i.body))
            /\ UNCHANGED losses
         \/ losses < MaxLosses /\ losses' = losses + 1 /\ UNCHANGED memory
  BY <1>i, ConfirmOfJobIs
<1>x. PICK x \in submissions, m \in DOMAIN messages : Confirms(x, r, m)
  BY ConfirmOfJobIs
<1>2. SubmissionInv' /\ Grew /\ RowsKeyed'
  BY <1>0, <1>x, CouncilRequestsKeepInv, ConfirmGrows, KeysKept
<1>3. JobsOK' /\ Continued
  BY <1>0, <1>1, <1>2, IdleOK, JobChanges DEF Continued
<1>4. OffsetOK'
  BY <1>0, <1>1 DEF OffsetOK
<1>5. MemoryOK'
  <2>1. CASE UNCHANGED memory
    BY <1>0, <1>1, <2>1 DEF MemoryOK
  <2>2. CASE Learns(r, i.prop, Settled(r, memory[r][i.prop], i.body))
    <3>1. PICK c : c = Settled(r, memory[r][i.prop], i.body)
      OBVIOUS
    <3>2. i.prop \in Proposals
      BY <1>1 DEF TaskOK
    <3>3. ContextOK(c) /\ c.revision = memory[r][i.prop].revision
      BY <1>0, <3>1, <3>2, SettledOK DEF MemoryOK
    <3>4. /\ memory' = [q \in Agents |-> [p \in Proposals |-> memory'[q][p]]]
          /\ memory'[r][i.prop] = c
          /\ \A q \in Agents, p \in Proposals :
               q # r \/ p # i.prop => memory'[q][p] = memory[q][p]
      BY <1>0, <2>2, <3>1, <3>2, ContextChanges
    <3>5. ASSUME NEW q \in Agents, NEW p \in Proposals
          PROVE  /\ ContextOK(memory[q][p])'
                 /\ memory'[q][p].revision = memory[q][p].revision
      <4>1. CASE q = r /\ p = i.prop
        BY <3>3, <3>4, <4>1 DEF ContextOK
      <4>2. CASE ~ (q = r /\ p = i.prop)
        BY <1>0, <3>4, <4>2 DEF MemoryOK, ContextOK
      <4> QED
        BY <4>1, <4>2
    <3> QED
      BY <1>0, <1>1, <3>4, <3>5 DEF MemoryOK, Agents
  <2> QED
    BY <1>1, <2>1, <2>2
<1>6. CountersOK'
  BY <1>0, <1>1, CouncilAssumption DEF CountersOK
<1> QED
  BY <1>2, <1>3, <1>4, <1>5, <1>6 DEF WorkInv, AgentsInv

LEMMA CrashKeeps ==
  ASSUME WorkInv, NEW r \in Agents, Crash(r)
  PROVE  WorkInv' /\ Grew /\ Continued
<1>0. /\ SubmissionInv /\ MemoryOK /\ OffsetOK /\ JobsOK /\ CountersOK /\ RowsKeyed
  BY DEF WorkInv, AgentsInv
<1>1. /\ UNCHANGED submissionVars /\ Pursue(r, NoJob)
      /\ crashes < MaxCrashes /\ crashes' = crashes + 1
      /\ UNCHANGED <<members, gaveUp, unguarded, losses>>
      /\ memory' = [memory EXCEPT ![r] = [p \in Proposals |-> NoContext]]
      /\ offset' = [offset EXCEPT ![r] = [p \in Proposals |-> 0]]
  BY DEF Crash, Drop
<1>2. SubmissionInv' /\ Grew /\ RowsKeyed' /\ messages' = messages
  BY <1>0, <1>1, NothingGrows, KeysKept DEF submissionVars
<1>3. JobsOK' /\ Continued
  BY <1>0, <1>1, <1>2, IdleOK, JobChanges DEF Continued
<1>4. /\ OffsetOK'
      /\ \A p \in Proposals : offset'[r][p] = 0
      /\ \A q \in Agents : q # r => offset'[q] = offset[q]
  <2>1. Len(messages) \in Nat
    BY <1>0 DEF SubmissionInv, SubmissionTypeOK
  <2> QED
    BY <1>0, <1>1, <1>2, <2>1 DEF OffsetOK
<1>5. MemoryOK'
  <2>1. DOMAIN memory = Agents
    BY <1>0 DEF MemoryOK
  <2>2. /\ \A p \in Proposals : memory'[r][p] = NoContext
        /\ \A q \in Agents : q # r => memory'[q] = memory[q]
        /\ memory'[r] = [p \in Proposals |-> memory'[r][p]]
        /\ memory' = [q \in Agents |-> memory'[q]]
    BY <1>1, <2>1
  <2>3. \A q \in Agents : memory'[q] = [p \in Proposals |-> memory'[q][p]]
    BY <1>0, <2>2 DEF MemoryOK
  <2>4. memory' = [q \in Agents |-> [p \in Proposals |-> memory'[q][p]]]
    BY <2>2, <2>3
  <2>5. ContextOK(NoContext) /\ NoContext.revision = 0
    BY DEF ContextOK, NoContext
  <2>6. \A q \in Agents, p \in Proposals : ContextOK(memory[q][p])'
    BY <1>0, <2>2, <2>5 DEF MemoryOK, ContextOK
  <2>7. \A p \in Proposals :
          memory'["diagnosis"][p].revision \in 0 .. offset'["diagnosis"][p]
    BY <1>0, <1>4, <2>2, <2>5 DEF MemoryOK, Agents
  <2> QED
    BY <2>4, <2>6, <2>7 DEF MemoryOK
<1>6. CountersOK'
  BY <1>0, <1>1, CouncilAssumption DEF CountersOK
<1> QED
  BY <1>2, <1>3, <1>4, <1>5, <1>6 DEF WorkInv, AgentsInv

ReadsUpTo(r, p, m) == offset' = [offset EXCEPT ![r][p] = m]

\* An agent begins a job on the message m of p.
Begins(r, p, m) ==
  /\ Trigger(r, p, m) /\ Take(r, p, m)
  /\ \/ /\ Guarded(r, m) => ~ Overtaken(p, Shown(m))
        /\ UNCHANGED <<unguarded, losses>>
     \/ /\ losses < MaxLosses /\ losses' = losses + 1
        /\ unguarded' = unguarded \cup {p}

\* An agent passes over the message.
PassesOver(r, p, m) ==
  /\ Trigger(r, p, m) => Guarded(r, m) /\ Overtaken(p, Shown(m))
  /\ UNCHANGED <<memory, job, unguarded, losses>>

LEMMA ReadIs ==
  ASSUME NEW r, NEW p, Read(r, p)
  PROVE  /\ \E m \in DOMAIN messages :
              /\ NextMessage(r, p, m)
              /\ ReadsUpTo(r, p, m)
              /\ Begins(r, p, m) \/ PassesOver(r, p, m)
         /\ job[r].phase = "idle"
         /\ UNCHANGED <<submissionVars, members, gaveUp, crashes>>
BY DEF Read, ReadsUpTo, Begins, PassesOver

LEMMA OffsetMoves ==
  ASSUME OffsetOK, messages \in Seq(Messages), NEW r \in Agents,
         NEW p \in Proposals, NEW m \in DOMAIN messages,
         ReadsUpTo(r, p, m), UNCHANGED messages
  PROVE  /\ OffsetOK' /\ offset'[r][p] = m
         /\ \A q \in Agents, s \in Proposals :
              q # r \/ s # p => offset'[q][s] = offset[q][s]
<1>1. m \in Nat /\ m <= Len(messages)
  OBVIOUS
<1>2. /\ offset' \in [Agents -> [Proposals -> Nat]] /\ offset'[r][p] = m
      /\ \A q \in Agents, s \in Proposals :
           q # r \/ s # p => offset'[q][s] = offset[q][s]
  BY <1>1 DEF OffsetOK, ReadsUpTo
<1>3. \A q \in Agents, s \in Proposals : offset'[q][s] <= Len(messages)
  BY <1>1, <1>2 DEF OffsetOK
<1> QED
  BY <1>2, <1>3 DEF OffsetOK

\* The task an agent begins and what it then knows.
LEMMA BeginsIs ==
  ASSUME WorkInv, NEW r \in Agents, NEW p \in Proposals,
         NEW m \in DOMAIN messages, NextMessage(r, p, m), Begins(r, p, m)
  PROVE  \E j, c :
           /\ c = Learned(r, p, m) /\ ContextOK(c) /\ Learns(r, p, c)
           /\ r = "diagnosis" => c.revision \in 0 .. m
           /\ TaskOK(r, j) /\ Pursue(r, j)
           /\ j.prop = p /\ j.source = m /\ j.phase # "idle"
           /\ j.body \in BodiesOf(r, c)
<1>0. /\ MemoryOK /\ OffsetOK /\ CountersOK /\ messages \in Seq(Messages)
      /\ m \in RoomOf(p) /\ m > offset[r][p]
  BY DEF WorkInv, AgentsInv, SubmissionInv, SubmissionTypeOK, NextMessage
<1>1. m \in Nat /\ m <= MaxMessages
  BY <1>0, SubmissionAssumption DEF OffsetOK
<1>2. PICK c : c = Learned(r, p, m)
  OBVIOUS
<1>3. PICK body \in BodiesOf(r, c) :
         /\ Learns(r, p, c)
         /\ Pursue(r, [phase |-> "preparing", prop |-> p, source |-> m,
                       body |-> body, attempts |-> 0, card |-> 0, message |-> 0])
  BY <1>2 DEF Begins, Take, Learns, Pursue
<1>4. ContextOK(c) /\ (r = "diagnosis" => c.revision \in 0 .. m)
  <2>1. CASE r = "triage"
    BY <1>2, <2>1 DEF Learned, NoContext, ContextOK
  <2>2. CASE r = "diagnosis"
    <3>1. c = Context(memory[r][p].revision + 1, 0)
      BY <1>2, <2>2 DEF Learned
    <3>2. memory[r][p].revision \in 0 .. offset[r][p] /\ offset[r][p] \in Nat
      BY <1>0, <2>2 DEF MemoryOK, OffsetOK
    <3>3. memory[r][p].revision + 1 \in 0 .. m
      BY <1>0, <1>1, <3>2
    <3> QED
      BY <3>1, <3>3 DEF Context, ContextOK
  <2>3. CASE r = "safety_reviewer"
    <3>1. c = Context(RevisionOf(p, Shown(m)), memory[r][p].challenges)
      BY <1>2, <2>3 DEF Learned
    <3>2. memory[r][p].challenges \in Nat
      BY <1>0 DEF MemoryOK, ContextOK
    <3> QED
      BY <2>3, <3>1, <3>2 DEF Context, ContextOK
  <2> QED
    BY <2>1, <2>2, <2>3 DEF Agents
<1>5. body \in Bodies /\ body.type = Made[r]
  <2>1. r = "diagnosis" => c.revision \in 0 .. MaxMessages
    BY <1>1, <1>4, SubmissionAssumption
  <2> QED
    BY <1>0, <2>1, BodiesFit
<1>6. PICK j : j = [phase |-> "preparing", prop |-> p, source |-> m,
                    body |-> body, attempts |-> 0, card |-> 0, message |-> 0]
  OBVIOUS
<1>7. /\ j.phase = "preparing" /\ j.prop = p /\ j.source = m /\ j.body = body
      /\ j.attempts = 0 /\ j.card = 0 /\ j.message = 0
  BY <1>6
<1>8. TaskOK(r, j)
  BY <1>0, <1>5, <1>6, <1>7 DEF TaskOK
<1> QED
  BY <1>2, <1>3, <1>4, <1>6, <1>7, <1>8

LEMMA ReadKeeps ==
  ASSUME WorkInv, NEW r \in Agents, NEW p \in Proposals, Read(r, p)
  PROVE  WorkInv' /\ Grew
<1>0. /\ SubmissionInv /\ MemoryOK /\ OffsetOK /\ JobsOK /\ CountersOK /\ RowsKeyed
      /\ messages \in Seq(Messages)
  BY DEF WorkInv, AgentsInv, SubmissionInv, SubmissionTypeOK
<1>1. PICK m \in DOMAIN messages :
         /\ NextMessage(r, p, m)
         /\ ReadsUpTo(r, p, m)
         /\ Begins(r, p, m) \/ PassesOver(r, p, m)
  BY ReadIs
<1>2. /\ UNCHANGED <<submissionVars, members, gaveUp, crashes>>
      /\ m > offset[r][p]
  BY <1>1, ReadIs DEF NextMessage
<1>3. SubmissionInv' /\ Grew /\ RowsKeyed' /\ messages' = messages
  BY <1>0, <1>2, NothingGrows, KeysKept DEF submissionVars
<1>4. /\ OffsetOK' /\ offset'[r][p] = m
      /\ \A q \in Agents, s \in Proposals :
           q # r \/ s # p => offset'[q][s] = offset[q][s]
  BY <1>0, <1>1, <1>3, OffsetMoves
<1>5. CASE PassesOver(r, p, m)
  <2>1. UNCHANGED <<memory, job, unguarded, losses>>
    BY <1>5 DEF PassesOver
  <2>2. JobsOK' /\ CountersOK'
    BY <1>0, <1>2, <1>3, <2>1, JobsKept DEF CountersOK
  <2>3. \A q \in Proposals :
          memory["diagnosis"][q].revision \in 0 .. offset'["diagnosis"][q]
    <3> SUFFICES ASSUME NEW q \in Proposals
                 PROVE  memory["diagnosis"][q].revision \in 0 .. offset'["diagnosis"][q]
      OBVIOUS
    <3>1. /\ memory["diagnosis"][q].revision \in 0 .. offset["diagnosis"][q]
          /\ offset["diagnosis"][q] \in Nat /\ m \in Nat
          /\ "diagnosis" \in Agents
      BY <1>0 DEF MemoryOK, OffsetOK, Agents
    <3>2. CASE r = "diagnosis" /\ q = p
      BY <1>2, <1>4, <3>1, <3>2
    <3>3. CASE ~ (r = "diagnosis" /\ q = p)
      BY <1>4, <3>1, <3>3
    <3> QED
      BY <3>2, <3>3
  <2>4. MemoryOK'
    BY <1>0, <2>1, <2>3 DEF MemoryOK
  <2> QED
    BY <1>3, <1>4, <2>2, <2>4 DEF WorkInv, AgentsInv
<1>6. CASE Begins(r, p, m)
  <2>1. PICK j, c :
           /\ ContextOK(c) /\ Learns(r, p, c)
           /\ r = "diagnosis" => c.revision \in 0 .. m
           /\ TaskOK(r, j) /\ Pursue(r, j)
    BY <1>1, <1>6, BeginsIs
  <2>2. JobsOK'
    <3>1. JobOK(r, j)'
      BY <1>3, <2>1, TaskGrows DEF JobOK
    <3> QED
      BY <1>0, <1>3, <2>1, <3>1, JobChanges
  <2>3. CountersOK'
    BY <1>0, <1>2, <1>6, CouncilAssumption DEF CountersOK, Begins
  <2>4. /\ memory' = [q \in Agents |-> [s \in Proposals |-> memory'[q][s]]]
        /\ memory'[r][p] = c
        /\ \A q \in Agents, s \in Proposals :
             q # r \/ s # p => memory'[q][s] = memory[q][s]
    BY <1>0, <2>1, ContextChanges
  <2>5. ASSUME NEW q \in Agents, NEW s \in Proposals
        PROVE  /\ ContextOK(memory[q][s])'
               /\ q = "diagnosis" => memory'[q][s].revision \in 0 .. offset'[q][s]
    <3>1. CASE q = r /\ s = p
      BY <1>4, <2>1, <2>4, <3>1 DEF ContextOK
    <3>2. CASE ~ (q = r /\ s = p)
      <4>1. memory'[q][s] = memory[q][s] /\ offset'[q][s] = offset[q][s]
        BY <1>4, <2>4, <3>2
      <4>2. ContextOK(memory[q][s])'
        BY <1>0, <4>1 DEF MemoryOK, ContextOK
      <4> QED
        BY <1>0, <4>1, <4>2 DEF MemoryOK
    <3> QED
      BY <3>1, <3>2
  <2>6. MemoryOK'
    BY <2>4, <2>5 DEF MemoryOK, Agents
  <2> QED
    BY <1>3, <1>4, <2>2, <2>3, <2>6 DEF WorkInv, AgentsInv
<1> QED
  BY <1>1, <1>3, <1>5, <1>6

-----------------------------------------------------------------------------
(***************************************************************************)
(* The kinds of steps.                                                     *)
(***************************************************************************)

AgentStep(r) ==
  \/ \E p \in Proposals : Read(r, p)
  \/ SealOfJob(r) \/ SealedBefore(r) \/ SealRefused(r)
  \/ \E tagged \in BOOLEAN : Post(r, tagged)
  \/ ConfirmOfJob(r)
  \/ InviteOnly(r) \/ ConfirmRefused(r) \/ Lose(r)
  \/ Crash(r)

LEMMA StepsAre ==
  CouncilNext =>
    (\E p \in Proposals : Announce(p)) \/ (\E r \in Agents : AgentStep(r))
BY DEF CouncilNext, Working, Submission, SubmitTriageDecision, SubmitAssessment,
       SubmitVerdict, AgentStep, Agents

LEMMA CouncilStarts == CouncilInit => WorkInv
<1> SUFFICES ASSUME CouncilInit  PROVE WorkInv
  OBVIOUS
<1>1. SubmissionInv /\ submissions = {} /\ messages = <<>>
  BY SubmissionStarts DEF CouncilInit, SubmissionInit
<1>2. MemoryOK
  <2>1. ContextOK(NoContext) /\ NoContext.revision = 0
    BY DEF ContextOK, NoContext
  <2>2. memory = [r \in Agents |-> [p \in Proposals |-> NoContext]]
    BY DEF CouncilInit
  <2>3. \A r \in Agents, p \in Proposals : memory[r][p] = NoContext
    BY <2>2
  <2>4. memory = [r \in Agents |-> [p \in Proposals |-> memory[r][p]]]
    BY <2>2
  <2>5. "diagnosis" \in Agents /\ \A p \in Proposals : offset["diagnosis"][p] = 0
    BY DEF CouncilInit, Agents
  <2> QED
    BY <2>1, <2>3, <2>4, <2>5 DEF MemoryOK
<1>3. OffsetOK
  BY <1>1, SubmissionAssumption DEF CouncilInit, OffsetOK
<1>4. JobsOK /\ RowsKeyed
  BY <1>1 DEF CouncilInit, JobsOK, JobOK, RowsKeyed
<1>5. CountersOK
  BY CouncilAssumption DEF CouncilInit, CountersOK
<1> QED
  BY <1>1, <1>2, <1>3, <1>4, <1>5 DEF WorkInv, AgentsInv

LEMMA StutterKeeps ==
  ASSUME WorkInv, UNCHANGED agentVars
  PROVE  WorkInv' /\ Grew /\ Continued
<1>0. /\ SubmissionInv /\ MemoryOK /\ OffsetOK /\ JobsOK /\ CountersOK /\ RowsKeyed
  BY DEF WorkInv, AgentsInv
<1>1. /\ UNCHANGED submissionVars /\ messages' = messages
      /\ UNCHANGED <<members, offset, memory, job, gaveUp, unguarded, crashes,
                     losses>>
  BY DEF agentVars, councilVars, submissionVars
<1>2. SubmissionInv' /\ Grew /\ RowsKeyed' /\ JobsOK'
  BY <1>0, <1>1, NothingGrows, KeysKept, JobsKept
<1>3. MemoryOK' /\ OffsetOK' /\ CountersOK'
  BY <1>0, <1>1 DEF MemoryOK, OffsetOK, CountersOK
<1> QED
  BY <1>1, <1>2, <1>3 DEF WorkInv, AgentsInv, Continued

LEMMA WorkStep ==
  ASSUME WorkInv, [CouncilNext]_agentVars
  PROVE  WorkInv' /\ Grew
<1>1. ASSUME NEW r \in Agents, AgentStep(r)  PROVE WorkInv' /\ Grew
  BY <1>1, ReadKeeps, SealKeeps, SealedBeforeKeeps, SealRefusedKeeps, PostKeeps,
     ConfirmKeeps, DropsKeep, CrashKeeps DEF AgentStep
<1> QED
  BY <1>1, StepsAre, AnnounceKeeps, StutterKeeps

\* Whatever agents do to rooms, contexts, jobs and one another.
THEOREM WorkInvariant == CouncilSpec => []WorkInv
<1>1. WorkInv /\ [CouncilNext]_agentVars => WorkInv'
  BY WorkStep
<1> QED
  BY <1>1, CouncilStarts, PTL DEF CouncilSpec

\* The council is well-formed: every body its agents make is one the gateway
\* knows, and no agent is ahead of its rooms.
THEOREM CouncilTypeCorrect == CouncilSpec => []CouncilTypeOK
<1>1. WorkInv => CouncilTypeOK
  <2> SUFFICES ASSUME WorkInv  PROVE CouncilTypeOK
    OBVIOUS
  <2>0. /\ SubmissionTypeOK /\ OffsetOK /\ JobsOK /\ CountersOK
    BY DEF WorkInv, AgentsInv, SubmissionInv
  <2>1. offset \in [Agents -> [Proposals -> 0 .. MaxMessages]]
    <3>1. /\ Len(messages) \in Nat /\ MaxMessages \in Nat
          /\ Len(messages) <= MaxMessages
      BY <2>0, SubmissionAssumption DEF SubmissionTypeOK, OffsetOK
    <3>2. \A r \in Agents, p \in Proposals :
            offset[r][p] \in Nat /\ offset[r][p] <= Len(messages)
      BY <2>0 DEF OffsetOK
    <3>3. \A r \in Agents, p \in Proposals : offset[r][p] \in 0 .. MaxMessages
      BY <3>1, <3>2
    <3> QED
      BY <2>0, <3>3 DEF OffsetOK
  <2>2. \A r \in Agents :
          job[r].phase \in {"idle", "preparing", "posting", "confirming"}
    BY <2>0 DEF JobsOK, JobOK, TaskOK, NoJob
  <2> QED
    BY <2>0, <2>1, <2>2 DEF CouncilTypeOK, CountersOK
<1> QED
  BY <1>1, WorkInvariant, PTL

\* A member of the council asks for a card.
Asks(p, r, m, body) ==
  /\ PrepareCard(p, r, KeyOf(r, m), body)
  /\ \/ r = "recorder" /\ m = 0 /\ body = Signal
     \/ /\ r \in Agents /\ job[r].phase = "preparing" /\ job[r].prop = p
        /\ job[r].source = m /\ job[r].body = body

\* It shows its card to the room.
ShowsCard(p, r, x, tagged) ==
  /\ x.role = r /\ Posts(p, r, x.card, tagged)
  /\ r = "recorder" =>
       /\ x.key = KeyOf("recorder", 0)
       /\ \A m \in RoomOf(p) : x.card \notin messages[m].cards

\* The recorder confirms its card.
Announces(x) ==
  /\ x.role = "recorder"
  /\ \E m \in DOMAIN messages : Confirms(x, "recorder", m)

OneRequest ==
  \/ NoRequest
  \/ \E p \in Proposals, r \in Agents \cup {"recorder"}, m \in 0 .. MaxMessages,
        body \in Bodies : Asks(p, r, m, body)
  \/ \E p \in Proposals, r \in Agents \cup {"recorder"}, tagged \in BOOLEAN :
       \E x \in RowsOf(p) : ShowsCard(p, r, x, tagged)
  \/ \E x \in submissions : Announces(x)

\* Nothing is learned, read or forgotten.
Quiet ==
  /\ UNCHANGED <<memory, offset, unguarded, crashes>>
  /\ losses' \in Nat /\ losses <= losses'
  /\ Continued /\ OneRequest

LEMMA SealAsks ==
  ASSUME WorkInv, NEW r \in Agents, SealOfJob(r)
  PROVE  \E p \in Proposals, m \in 0 .. MaxMessages, body \in Bodies :
           Asks(p, r, m, body)
<1>1. /\ TaskOK(r, job[r]) /\ job[r].phase = "preparing"
      /\ job[r].source \in 0 .. MaxMessages
  BY AtWork DEF SealOfJob
<1>2. PrepareCard(job[r].prop, r, KeyOf(r, job[r].source), job[r].body)
  BY DEF SealOfJob
<1>3. Asks(job[r].prop, r, job[r].source, job[r].body)
  BY <1>1, <1>2 DEF Asks
<1> QED
  BY <1>1, <1>3 DEF TaskOK

LEMMA PostShows ==
  ASSUME WorkInv, NEW r \in Agents, NEW tagged \in BOOLEAN, Post(r, tagged)
  PROVE  \E p \in Proposals : \E x \in RowsOf(p) : ShowsCard(p, r, x, tagged)
<1>1. TaskOK(r, job[r]) /\ job[r].phase = "posting"
  BY AtWork DEF Post
<1>2. PICK x \in RowsOf(job[r].prop) : x.card = job[r].card /\ x.role = r
  BY <1>1 DEF TaskOK, Backed
<1>3. Posts(job[r].prop, r, x.card, tagged)
  BY <1>1, <1>2, RoomOfWork DEF Post, Posts
<1>4. ShowsCard(job[r].prop, r, x, tagged)
  BY <1>2, <1>3 DEF ShowsCard, Agents
<1> QED
  BY <1>1, <1>4 DEF TaskOK

LEMMA AnnounceIs ==
  ASSUME WorkInv, NEW p \in Proposals, Announce(p)
  PROVE  \/ NoRequest
         \/ \E m \in 0 .. MaxMessages, body \in Bodies : Asks(p, "recorder", m, body)
         \/ \E x \in RowsOf(p) : ShowsCard(p, "recorder", x, FALSE)
         \/ \E x \in submissions : Announces(x)
<1>0. CountersOK /\ RowsKeyed /\ SubmissionTypeOK
  BY DEF WorkInv, AgentsInv, SubmissionInv
<1>1. ASSUME NEW x \in Under(p, KeyOf("recorder", 0))
      PROVE  /\ x \in RowsOf(p) /\ x \in submissions
             /\ x.key = KeyOf("recorder", 0) /\ x.role = "recorder"
  BY <1>0 DEF Under, RowsOf, RowsKeyed, KeyedRow, KeyOf
<1>2. CASE PrepareCard(p, "recorder", KeyOf("recorder", 0), Signal)
  <2>1. Signal \in Bodies /\ 0 \in 0 .. MaxMessages
    BY <1>0, SignalIs, SubmissionAssumption
  <2> QED
    BY <1>2, <2>1 DEF Asks
<1>3. ASSUME NEW x \in Under(p, KeyOf("recorder", 0)),
             \A m \in RoomOf(p) : x.card \notin messages[m].cards,
             Posts(p, "recorder", x.card, FALSE)
      PROVE  \E y \in RowsOf(p) : ShowsCard(p, "recorder", y, FALSE)
  BY <1>1, <1>3 DEF ShowsCard
<1>4. ASSUME NEW x \in Under(p, KeyOf("recorder", 0)), NEW m \in DOMAIN messages,
             Confirms(x, "recorder", m)
      PROVE  \E y \in submissions : Announces(y)
  BY <1>1, <1>4 DEF Announces
<1>5. ASSUME NEW r \in Chambers, CreateRoom(r, p)  PROVE NoRequest
  BY <1>5 DEF CreateRoom, NoRequest, ledgerVars
<1> QED
  BY <1>0, <1>2, <1>3, <1>4, <1>5, AnnounceIsOneOf

\* The requests of a submission are quiet, but for its confirmation.
LEMMA QuietSteps ==
  ASSUME WorkInv, NEW r \in Agents,
         \/ SealOfJob(r) \/ SealedBefore(r) \/ SealRefused(r)
         \/ \E tagged \in BOOLEAN : Post(r, tagged)
         \/ InviteOnly(r) \/ ConfirmRefused(r) \/ Lose(r)
  PROVE  Quiet
<1>1. losses \in Nat
  BY DEF WorkInv, AgentsInv, CountersOK
<1>2. UNCHANGED <<memory, offset, unguarded, crashes>>
  BY DEF SealOfJob, SealedBefore, SealRefused, Post, InviteOnly, ConfirmRefused,
         Lose
<1>3. losses' = losses \/ losses' = losses + 1
  BY DEF SealOfJob, SealedBefore, SealRefused, Post, InviteOnly, ConfirmRefused,
         Lose, Answered
<1>4. losses' \in Nat /\ losses <= losses'
  BY <1>1, <1>3
<1>5. Continued
  BY SealKeeps, SealedBeforeKeeps, SealRefusedKeeps, PostKeeps, DropsKeep
<1>6. OneRequest
  <2>1. CASE SealOfJob(r)
    BY <2>1, SealAsks DEF OneRequest
  <2>2. CASE \E tagged \in BOOLEAN : Post(r, tagged)
    BY <2>2, PostShows DEF OneRequest
  <2>3. CASE \/ SealedBefore(r) \/ SealRefused(r)
             \/ InviteOnly(r) \/ ConfirmRefused(r) \/ Lose(r)
    <3>1. UNCHANGED submissionVars
      BY <2>3 DEF SealedBefore, SealRefused, InviteOnly, ConfirmRefused, Lose
    <3> QED
      BY <3>1 DEF OneRequest, NoRequest, submissionVars, ledgerVars
  <2> QED
    BY <2>1, <2>2, <2>3
<1> QED
  BY <1>2, <1>4, <1>5, <1>6 DEF Quiet

\* Every step is one of an agent that reads, has its card confirmed or dies, or
\* a quiet one.
LEMMA StepKinds ==
  ASSUME WorkInv, [CouncilNext]_agentVars
  PROVE  \/ Quiet
         \/ \E r \in Agents, p \in Proposals : Read(r, p)
         \/ \E r \in Agents : ConfirmOfJob(r)
         \/ \E r \in Agents : Crash(r)
<1>0. losses \in Nat
  BY DEF WorkInv, AgentsInv, CountersOK
<1>1. CASE UNCHANGED agentVars
  <2>1. Continued
    BY <1>1, StutterKeeps
  <2>2. /\ UNCHANGED submissionVars /\ losses' = losses
        /\ UNCHANGED <<memory, offset, unguarded, crashes>>
    BY <1>1 DEF agentVars, councilVars
  <2>3. losses' \in Nat /\ losses <= losses'
    BY <1>0, <2>2
  <2> QED
    BY <2>1, <2>2, <2>3 DEF Quiet, OneRequest, NoRequest, submissionVars, ledgerVars
<1>2. ASSUME NEW p \in Proposals, Announce(p)  PROVE Quiet
  <2>1. Continued
    BY <1>2, AnnounceKeeps
  <2>2. /\ losses' = losses
        /\ UNCHANGED <<memory, offset, unguarded, crashes>>
    BY <1>2 DEF Announce
  <2>3. losses' \in Nat /\ losses <= losses'
    BY <1>0, <2>2
  <2>4. OneRequest
    BY <1>2, AnnounceIs DEF OneRequest
  <2> QED
    BY <2>1, <2>2, <2>3, <2>4 DEF Quiet
<1>3. ASSUME NEW r \in Agents, AgentStep(r)
      PROVE  \/ Quiet
             \/ \E p \in Proposals : Read(r, p)
             \/ ConfirmOfJob(r) \/ Crash(r)
  BY <1>3, QuietSteps DEF AgentStep
<1> QED
  BY <1>1, <1>2, <1>3, StepsAre

-----------------------------------------------------------------------------
(***************************************************************************)
(* The challenges.                                                         *)
(***************************************************************************)

OnJob(r, p) == job[r].phase # "idle" /\ job[r].prop = p

\* The rows the property counts.
Challenged(p) ==
  {x \in Verdicts(p) : x.body.outcome = "CHALLENGE" /\ x.message # 0}

\* The challenges of one life of the reviewer.
PerLife == IF ReviewMode = "local" THEN 1 ELSE MaxChallenges

\* What the reviewer has counted in this life.
Spent(p) == memory["safety_reviewer"][p].challenges

Challenging(p) ==
  /\ OnJob("safety_reviewer", p)
  /\ job["safety_reviewer"].body.outcome = "CHALLENGE"

\* A confirmed challenge was counted by the reviewer that sent it, in this life
\* or an earlier one, unless the answer was lost; and it challenges only when
\* it has one left.
Counted(p) ==
  /\ IsFiniteSet(Challenged(p))
  /\ Cardinality(Challenged(p)) <= PerLife * crashes + losses + Spent(p)
  /\ Spent(p) <= PerLife
  /\ Challenging(p) => Spent(p) < PerLife

CountInv == \A p \in Proposals : Counted(p)

\* A challenge is what the reviewer decides while it has one left.
LEMMA ChallengeHasRoom ==
  ASSUME NEW c, ContextOK(c), NEW body \in BodiesOf("safety_reviewer", c),
         body.outcome = "CHALLENGE"
  PROVE  c.challenges < PerLife
<1>0. c.challenges \in Nat /\ MaxChallenges \in Nat
  BY CouncilAssumption DEF ContextOK
<1>1. PICK o \in Decisions(c), w \in Wordings :
        body = Body("Verdict", o, "none", 0, w)
  BY DEF BodiesOf
<1>2. o = "CHALLENGE"
  BY <1>1 DEF Body
<1>3. PICK f \in Findings(c) :
        \E d \in IF ReviewMode = "local" THEN {LocalDecision(c, f)}
                                         ELSE Outcomes("Verdict") :
          o = Enforced(c, f, d)
  BY DEF Decisions
<1>4. PICK d \in IF ReviewMode = "local" THEN {LocalDecision(c, f)}
                                         ELSE Outcomes("Verdict") :
        o = Enforced(c, f, d)
  BY <1>3
<1>5. f.issues \in BOOLEAN /\ f.capped \in BOOLEAN
  BY DEF Findings
<1>6. ~ (c.challenges >= MaxChallenges)
  BY <1>0, <1>2, <1>4 DEF Enforced
<1>7. CASE ReviewMode = "local"
  <2>1. d = LocalDecision(c, f)
    BY <1>4, <1>7
  <2>2. d = "CHALLENGE" \/ (f.issues /\ ~ f.capped /\ d = "CONFIRM")
    BY <1>2, <1>4, <1>6 DEF Enforced
  <2>3. f.issues /\ c.challenges < 1
    BY <1>0, <1>5, <2>1, <2>2 DEF LocalDecision
  <2> QED
    BY <1>7, <2>3 DEF PerLife
<1>8. CASE ReviewMode # "local"
  BY <1>0, <1>6, <1>8 DEF PerLife
<1> QED
  BY <1>7, <1>8

\* What becomes of the challenges of a proposal.
LEMMA ChallengesKept ==
  ASSUME NEW p, \A y \in submissions' : y \in submissions \/ y.message = 0,
         \A y \in submissions : y \in submissions' \/ y.message = 0
  PROVE  Challenged(p)' = Challenged(p)
BY DEF Challenged, Verdicts, RowsOf

LEMMA ChallengesGrow ==
  ASSUME WorkInv, NEW x \in submissions, NEW role \in Roles,
         NEW m \in DOMAIN messages, Confirms(x, role, m), NEW p
  PROVE  \/ Challenged(p)' = Challenged(p)
         \/ /\ x.prop = p /\ x.body.type = "Verdict" /\ x.body.outcome = "CHALLENGE"
            /\ \E y : Challenged(p)' = Challenged(p) \cup {y}
<1>1. PICK y \in Rows :
        /\ y = [x EXCEPT !.message = m]
        /\ submissions' = (submissions \ {x}) \cup {y}
        /\ x.message = 0 /\ m \in Nat \ {0}
  BY ConfirmsFacts DEF WorkInv, SubmissionInv
<1>2. y.prop = x.prop /\ y.body = x.body /\ y.message = m
  BY <1>1 DEF WorkInv, SubmissionInv, SubmissionTypeOK, Rows
<1> DEFINE Counts == /\ x.prop = p /\ x.body.type = "Verdict"
                     /\ x.body.outcome = "CHALLENGE"
<1>3. CASE Counts
  <2>1. Challenged(p)' = Challenged(p) \cup {y}
    BY <1>1, <1>2, <1>3 DEF Challenged, Verdicts, RowsOf
  <2> QED
    BY <1>3, <2>1
<1>4. CASE ~ Counts
  BY <1>1, <1>2, <1>4 DEF Challenged, Verdicts, RowsOf
<1> QED
  BY <1>3, <1>4

\* Who may have a card of a type confirmed.
LEMMA WhoseCard ==
  ASSUME WorkInv, NEW x \in submissions
  PROVE  /\ x.role \in Agents \cup {"recorder"}
         /\ x.body.type = Made[x.role]
<1>1. RowInv(x) /\ KeyedRow(x) /\ x.body.type \in CardTypes
  BY DEF WorkInv, AgentsInv, RowsKeyed, SubmissionInv, RowsInv, SubmissionTypeOK,
         Rows, Bodies
<1>2. x.role \in Agents \cup {"recorder"}
  BY <1>1 DEF KeyedRow
<1>3. CanSubmit(x.role, x.body.type)
  BY <1>1 DEF RowInv
<1> QED
  BY <1>2, <1>3 DEF CanSubmit, Author, Made, Agents

LEMMA SpentIs ==
  ASSUME WorkInv, NEW p \in Proposals
  PROVE  Spent(p) \in Nat /\ crashes \in Nat /\ losses \in Nat
<1>1. ContextOK(memory["safety_reviewer"][p])
  BY DEF WorkInv, AgentsInv, MemoryOK, Agents
<1>2. crashes \in Nat /\ losses \in Nat
  BY DEF WorkInv, AgentsInv, CountersOK
<1> QED
  BY <1>1, <1>2 DEF Spent, ContextOK

LEMMA PerLifeIs == PerLife \in Nat /\ \A n \in Nat : PerLife * n \in Nat
<1>1. MaxChallenges \in Nat
  BY CouncilAssumption
<1>2. PerLife \in Nat
  BY <1>1 DEF PerLife
<1> QED
  BY <1>2

LEMMA OneLifeMore ==
  ASSUME NEW k \in Nat, NEW n \in Nat
  PROVE  k * (n + 1) = k * n + k
OBVIOUS

\* What a step does to the count of one proposal.
Recount(p) ==
  \/ /\ Challenged(p)' = Challenged(p) /\ losses <= losses'
     /\ crashes' = crashes /\ Spent(p)' = Spent(p)
  \/ /\ Challenged(p)' = Challenged(p) /\ losses' = losses
     /\ crashes' = crashes + 1 /\ Spent(p)' \in {0, Spent(p)}
  \/ /\ \E y : Challenged(p)' = Challenged(p) \cup {y}
     /\ crashes' = crashes
     /\ \/ /\ losses' = losses /\ Spent(p)' = Spent(p) + 1
           /\ Spent(p) < PerLife
        \/ losses' = losses + 1 /\ Spent(p)' = Spent(p)

LEMMA Recounted ==
  ASSUME WorkInv, WorkInv', NEW p \in Proposals, Counted(p), Recount(p),
         Challenging(p)' => Spent(p)' < PerLife
  PROVE  Counted(p)'
<1>1. /\ Spent(p) \in Nat /\ crashes \in Nat /\ losses \in Nat
      /\ Spent(p)' \in Nat /\ crashes' \in Nat /\ losses' \in Nat
  <2>1. ContextOK(memory["safety_reviewer"][p])'
    BY DEF WorkInv, AgentsInv, MemoryOK, Agents
  <2>2. crashes' \in Nat /\ losses' \in Nat
    BY DEF WorkInv, AgentsInv, CountersOK
  <2>3. Spent(p)' \in Nat
    BY <2>1 DEF Spent, ContextOK
  <2> QED
    BY <2>2, <2>3, SpentIs
<1>2. /\ PerLife' = PerLife /\ PerLife \in Nat
      /\ PerLife * crashes \in Nat /\ PerLife * crashes' \in Nat
  BY <1>1, PerLifeIs DEF PerLife
<1>3. IsFiniteSet(Challenged(p)) /\ Cardinality(Challenged(p)) \in Nat
  BY FS_CardinalityType DEF Counted
<1>4. /\ IsFiniteSet(Challenged(p)')
      /\ Cardinality(Challenged(p)') \in Nat
      /\ \/ Cardinality(Challenged(p)') = Cardinality(Challenged(p))
         \/ /\ Cardinality(Challenged(p)') = Cardinality(Challenged(p)) + 1
            /\ Challenged(p)' # Challenged(p)
  <2>1. PICK S : S = Challenged(p)
    OBVIOUS
  <2>2. PICK T : T = Challenged(p)'
    OBVIOUS
  <2>3. T = S \/ \E y : T = S \cup {y}
    BY <2>1, <2>2 DEF Recount
  <2>4. IsFiniteSet(S) /\ Cardinality(S) \in Nat
    BY <1>3, <2>1
  <2>5. ASSUME NEW y, T = S \cup {y}
        PROVE  /\ IsFiniteSet(T) /\ Cardinality(T) \in Nat
               /\ \/ Cardinality(T) = Cardinality(S)
                  \/ T # S /\ Cardinality(T) = Cardinality(S) + 1
    <3>1. CASE y \in S
      BY <2>4, <2>5, <3>1
    <3>2. CASE y \notin S
      <4>1. /\ IsFiniteSet(S \cup {y})
            /\ Cardinality(S \cup {y}) = Cardinality(S) + 1
        BY <2>4, <3>2, FS_AddElement
      <4>2. T # S
        BY <2>5, <3>2
      <4> QED
        BY <2>4, <2>5, <4>1, <4>2
    <3> QED
      BY <3>1, <3>2
  <2>6. /\ IsFiniteSet(T) /\ Cardinality(T) \in Nat
        /\ \/ Cardinality(T) = Cardinality(S)
           \/ T # S /\ Cardinality(T) = Cardinality(S) + 1
    BY <2>3, <2>4, <2>5
  <2> QED
    BY <2>1, <2>2, <2>6
<1>5. PerLife * (crashes + 1) = PerLife * crashes + PerLife
  BY <1>1, <1>2, OneLifeMore
<1>6. Cardinality(Challenged(p)') <= PerLife * crashes' + losses' + Spent(p)'
  <2>1. PICK a, b, c : /\ a = Cardinality(Challenged(p))
                       /\ b = PerLife * crashes /\ c = Spent(p)
    OBVIOUS
  <2>2. PICK a1, b1, c1 : /\ a1 = Cardinality(Challenged(p)')
                          /\ b1 = PerLife * crashes' /\ c1 = Spent(p)'
    OBVIOUS
  <2>3. PICK k, l, l1 : k = PerLife /\ l = losses /\ l1 = losses'
    OBVIOUS
  <2>4. /\ a \in Nat /\ b \in Nat /\ c \in Nat /\ l \in Nat /\ k \in Nat
        /\ a1 \in Nat /\ b1 \in Nat /\ c1 \in Nat /\ l1 \in Nat
    BY <1>1, <1>2, <1>3, <1>4, <2>1, <2>2, <2>3
  <2>5. a <= b + l + c /\ c <= k
    BY <2>1, <2>3 DEF Counted
  <2>6. \/ a1 = a /\ b1 = b /\ l <= l1 /\ c1 = c
        \/ a1 = a /\ b1 = b + k /\ l1 = l
        \/ /\ a1 = a \/ a1 = a + 1
           /\ b1 = b
           /\ \/ l1 = l /\ c1 = c + 1
              \/ l1 = l + 1 /\ c1 = c
    <3>1. /\ crashes' = crashes => b1 = b
          /\ crashes' = crashes + 1 => b1 = b + k
      BY <1>5, <2>1, <2>2, <2>3
    <3>2. /\ a1 = a \/ a1 = a + 1
          /\ Challenged(p)' = Challenged(p) => a1 = a
      BY <1>4, <2>1, <2>2
    <3> QED
      BY <2>1, <2>2, <2>3, <3>1, <3>2 DEF Recount
  <2>7. a1 <= b1 + l1 + c1
    BY <2>4, <2>5, <2>6
  <2> QED
    BY <2>2, <2>3, <2>7
<1>7. Spent(p)' <= PerLife
  BY <1>1, <1>2 DEF Counted, Recount
<1> QED
  BY <1>2, <1>4, <1>6, <1>7 DEF Counted

\* The reviewer's job is dropped or goes on.
LEMMA ChallengeGoesOn ==
  ASSUME Continued, NEW p, Challenging(p)'
  PROVE  Challenging(p)
BY DEF Continued, Challenging, OnJob, NoJob, Agents

LEMMA QuietCounts ==
  ASSUME WorkInv, WorkInv', CountInv, Quiet
  PROVE  CountInv'
<1>1. ASSUME NEW p \in Proposals  PROVE Challenged(p)' = Challenged(p)
  <2>1. CASE NoRequest
    BY <2>1 DEF NoRequest, Challenged, Verdicts, RowsOf
  <2>2. ASSUME NEW q, NEW r, NEW m, NEW body, Asks(q, r, m, body)
        PROVE  Challenged(p)' = Challenged(p)
    <3>1. PICK b : b = [prop |-> q, card |-> Len(cards[q]) + 1,
                        key |-> KeyOf(r, m), body |-> body, role |-> r,
                        message |-> 0]
      OBVIOUS
    <3>2. submissions' = submissions \cup {b} /\ b.message = 0
      BY <2>2, <3>1 DEF Asks, PrepareCard
    <3> QED
      BY <3>2, ChallengesKept
  <2>3. ASSUME NEW q, NEW r, NEW x, NEW tagged, ShowsCard(q, r, x, tagged)
        PROVE  Challenged(p)' = Challenged(p)
    BY <2>3 DEF ShowsCard, Posts, PostCard, Challenged, Verdicts, RowsOf
  <2>4. ASSUME NEW x \in submissions, Announces(x)
        PROVE  Challenged(p)' = Challenged(p)
    <3>1. x.body.type = "ProposalCard"
      BY <2>4, WhoseCard DEF Announces, Made
    <3>2. PICK m \in DOMAIN messages : Confirms(x, "recorder", m)
      BY <2>4 DEF Announces
    <3> QED
      BY <3>1, <3>2, ChallengesGrow, RolesAre
  <2> QED
    BY <2>1, <2>2, <2>3, <2>4 DEF Quiet, OneRequest
<1>2. UNCHANGED <<memory, crashes>> /\ losses <= losses' /\ Continued
  BY DEF Quiet
<1>3. ASSUME NEW p \in Proposals  PROVE Counted(p)'
  <2>1. Counted(p)
    BY DEF CountInv
  <2>2. Spent(p)' = Spent(p)
    BY <1>2 DEF Spent
  <2>3. Recount(p)
    BY <1>1, <1>2, <2>2 DEF Recount
  <2>4. PerLife' = PerLife
    BY DEF PerLife
  <2>5. Challenging(p)' => Spent(p)' < PerLife
    BY <1>2, <2>1, <2>2, ChallengeGoesOn DEF Counted
  <2> QED
    BY <2>1, <2>3, <2>5, Recounted
<1> QED
  BY <1>3 DEF CountInv

LEMMA ConfirmCounts ==
  ASSUME WorkInv, WorkInv', CountInv, NEW r \in Agents, ConfirmOfJob(r)
  PROVE  CountInv'
<1>i. PICK i : i = job[r]
  OBVIOUS
<1>1. /\ TaskOK(r, i) /\ i.phase = "confirming" /\ Pursue(r, NoJob)
      /\ UNCHANGED crashes
      /\ \/ /\ Learns(r, i.prop, Settled(r, memory[r][i.prop], i.body))
            /\ UNCHANGED losses
         \/ losses' = losses + 1 /\ UNCHANGED memory
  BY <1>i, ConfirmOfJobIs
<1>2. PICK x \in submissions, m \in DOMAIN messages :
        /\ x.prop = i.prop /\ x.body = i.body /\ x.role = r
        /\ Confirms(x, r, m)
  BY <1>i, ConfirmOfJobIs
<1>3. /\ r \in Roles /\ MemoryOK /\ JobsOK
      /\ i.prop \in Proposals /\ i.body.type = Made[r]
  BY <1>1, RolesAre DEF WorkInv, AgentsInv, TaskOK
<1>4. Continued
  BY <1>1, <1>3, ConfirmKeeps
<1>5. losses \in Nat
  BY DEF WorkInv, AgentsInv, CountersOK
<1>6. \/ UNCHANGED memory /\ losses' = losses + 1
      \/ /\ memory'[r][i.prop] = Settled(r, memory[r][i.prop], i.body)
         /\ \A q \in Agents, p \in Proposals :
              q # r \/ p # i.prop => memory'[q][p] = memory[q][p]
         /\ losses' = losses
  <2>1. CASE UNCHANGED memory /\ losses' = losses + 1
    BY <2>1
  <2>2. CASE /\ Learns(r, i.prop, Settled(r, memory[r][i.prop], i.body))
             /\ UNCHANGED losses
    <3>1. PICK c : c = Settled(r, memory[r][i.prop], i.body)
      OBVIOUS
    <3>2. /\ memory'[r][i.prop] = c
          /\ \A q \in Agents, p \in Proposals :
               q # r \/ p # i.prop => memory'[q][p] = memory[q][p]
      BY <1>3, <2>2, <3>1, ContextChanges
    <3> QED
      BY <2>2, <3>1, <3>2
  <2> QED
    BY <1>1, <2>1, <2>2
<1>7. ASSUME NEW p \in Proposals  PROVE Counted(p)'
  <2>1. Counted(p) /\ Spent(p) \in Nat
    BY SpentIs DEF CountInv
  <2>2. CASE /\ r = "safety_reviewer" /\ p = i.prop
             /\ i.body.outcome = "CHALLENGE"
    <3>1. Spent(p) < PerLife
      BY <1>i, <1>1, <2>1, <2>2 DEF Counted, Challenging, OnJob
    <3>2. \/ losses' = losses + 1 /\ Spent(p)' = Spent(p)
          \/ losses' = losses /\ Spent(p)' = Spent(p) + 1
      <4>1. CASE UNCHANGED memory /\ losses' = losses + 1
        BY <4>1 DEF Spent
      <4>2. CASE /\ memory'[r][i.prop] = Settled(r, memory[r][i.prop], i.body)
                 /\ losses' = losses
        <5>1. Settled(r, memory[r][p], i.body) =
                [memory[r][p] EXCEPT !.challenges = @ + 1]
          BY <2>2 DEF Settled
        <5>2. ContextOK(memory[r][p])
          BY <1>3, <2>2 DEF MemoryOK
        <5>3. Settled(r, memory[r][p], i.body).challenges =
                memory[r][p].challenges + 1
          BY <5>1, <5>2 DEF ContextOK
        <5> QED
          BY <2>2, <4>2, <5>3 DEF Spent
      <4> QED
        BY <1>6, <4>1, <4>2
    <3>3. ~ Challenging(p)'
      <4>1. job' = [q \in Agents |-> IF q = r THEN NoJob ELSE job[q]]
        BY <1>1, <1>3 DEF Pursue, JobsOK
      <4> QED
        BY <2>2, <4>1 DEF Challenging, OnJob, NoJob
    <3>4. Recount(p)
      <4>1. \/ Challenged(p)' = Challenged(p)
            \/ \E y : Challenged(p)' = Challenged(p) \cup {y}
        BY <1>2, <1>3, ChallengesGrow
      <4>2. \E y : Challenged(p)' = Challenged(p) \cup {y}
        <5>1. PICK y \in submissions' : Became(x, y) /\ y.message = m
          BY <1>2, <1>3, ConfirmGrows DEF WorkInv, SubmissionInv
        <5>2. m # 0
          BY DEF WorkInv, SubmissionInv, SubmissionTypeOK
        <5>3. y \in Challenged(p)'
          BY <1>2, <1>3, <2>2, <5>1, <5>2
             DEF Became, Challenged, Verdicts, RowsOf, Made
        <5>4. Challenged(p)' = Challenged(p)
                => Challenged(p)' = Challenged(p) \cup {y}
          BY <5>3
        <5> QED
          BY <4>1, <5>4
      <4> QED
        BY <1>1, <3>1, <3>2, <4>2 DEF Recount
    <3> QED
      BY <2>1, <3>3, <3>4, Recounted
  <2>3. CASE ~ (/\ r = "safety_reviewer" /\ p = i.prop
                /\ i.body.outcome = "CHALLENGE")
    <3>1. Challenged(p)' = Challenged(p)
      <4>1. x.body.type = "Verdict" => r = "safety_reviewer"
        BY <1>2, <1>3 DEF Made, Agents
      <4> QED
        BY <1>2, <1>3, <2>3, <4>1, ChallengesGrow
    <3>2. Spent(p)' = Spent(p)
      <4>1. CASE UNCHANGED memory
        BY <4>1 DEF Spent
      <4>2. CASE r # "safety_reviewer" \/ p # i.prop
        BY <1>6, <4>2 DEF Spent, Agents
      <4>3. CASE /\ r = "safety_reviewer" /\ p = i.prop
                 /\ memory'[r][i.prop] = Settled(r, memory[r][i.prop], i.body)
        <5>1. ContextOK(memory[r][p]) /\ i.body.outcome # "CHALLENGE"
          BY <1>3, <2>3, <4>3 DEF MemoryOK
        <5>2. Settled(r, memory[r][p], i.body) =
                [memory[r][p] EXCEPT !.submitted = TRUE]
          BY <4>3, <5>1 DEF Settled
        <5>3. Settled(r, memory[r][p], i.body).challenges =
                memory[r][p].challenges
          BY <5>1, <5>2 DEF ContextOK
        <5> QED
          BY <4>3, <5>3 DEF Spent
      <4> QED
        BY <1>6, <4>1, <4>2, <4>3
    <3>3. Recount(p)
      BY <1>1, <1>5, <3>1, <3>2 DEF Recount
    <3>4. Challenging(p)' => Spent(p)' < PerLife
      BY <1>4, <2>1, <3>2, ChallengeGoesOn DEF Counted
    <3> QED
      BY <2>1, <3>3, <3>4, Recounted
  <2> QED
    BY <2>2, <2>3
<1> QED
  BY <1>7 DEF CountInv

LEMMA CrashCounts ==
  ASSUME WorkInv, WorkInv', CountInv, NEW r \in Agents, Crash(r)
  PROVE  CountInv'
<1>1. /\ UNCHANGED submissionVars /\ losses' = losses /\ crashes' = crashes + 1
      /\ memory' = [memory EXCEPT ![r] = [p \in Proposals |-> NoContext]]
  BY DEF Crash
<1>2. Continued /\ MemoryOK
  BY CrashKeeps DEF WorkInv, AgentsInv
<1>3. ASSUME NEW p \in Proposals  PROVE Counted(p)'
  <2>1. Counted(p) /\ Spent(p) \in Nat
    BY SpentIs DEF CountInv
  <2>2. Challenged(p)' = Challenged(p)
    BY <1>1 DEF submissionVars, Challenged, Verdicts, RowsOf
  <2>3. Spent(p)' \in {0, Spent(p)}
    <3>1. DOMAIN memory = Agents
      BY <1>2 DEF MemoryOK
    <3>2. \/ memory'["safety_reviewer"] = memory["safety_reviewer"]
          \/ memory'["safety_reviewer"] = [q \in Proposals |-> NoContext]
      BY <1>1, <3>1
    <3>3. NoContext.challenges = 0
      BY DEF NoContext
    <3> QED
      BY <3>2, <3>3 DEF Spent
  <2>4. Recount(p)
    BY <1>1, <2>2, <2>3 DEF Recount
  <2>5. Challenging(p)' => Spent(p)' < PerLife
    BY <1>2, <2>1, <2>3, ChallengeGoesOn, PerLifeIs DEF Counted
  <2> QED
    BY <2>1, <2>4, <2>5, Recounted
<1> QED
  BY <1>3 DEF CountInv

LEMMA ReadCounts ==
  ASSUME WorkInv, WorkInv', CountInv, NEW r \in Agents, NEW q \in Proposals,
         Read(r, q)
  PROVE  CountInv'
<1>1. PICK m \in DOMAIN messages :
        /\ NextMessage(r, q, m)
        /\ Begins(r, q, m) \/ PassesOver(r, q, m)
        /\ UNCHANGED <<submissionVars, crashes>> /\ job[r].phase = "idle"
  BY ReadIs
<1>2. MemoryOK /\ JobsOK /\ losses \in Nat
  BY DEF WorkInv, AgentsInv, CountersOK
<1>3. losses <= losses'
  BY <1>1, <1>2 DEF Begins, PassesOver
<1>4. ASSUME NEW p \in Proposals  PROVE Counted(p)'
  <2>1. Counted(p) /\ Spent(p) \in Nat
    BY SpentIs DEF CountInv
  <2>2. Challenged(p)' = Challenged(p)
    BY <1>1 DEF submissionVars, Challenged, Verdicts, RowsOf
  <2>3. Spent(p)' = Spent(p) /\ (Challenging(p)' => Spent(p) < PerLife)
    <3>1. CASE PassesOver(r, q, m)
      BY <2>1, <3>1 DEF PassesOver, Spent, Challenging, OnJob, Counted
    <3>2. CASE Begins(r, q, m)
      <4>1. PICK j, c :
              /\ c = Learned(r, q, m) /\ ContextOK(c) /\ Learns(r, q, c)
              /\ TaskOK(r, j) /\ Pursue(r, j)
              /\ j.prop = q /\ j.body \in BodiesOf(r, c)
        BY <1>1, <3>2, BeginsIs
      <4>2. /\ memory'[r][q] = c
            /\ \A a \in Agents, b \in Proposals :
                 a # r \/ b # q => memory'[a][b] = memory[a][b]
        BY <1>2, <4>1, ContextChanges
      <4>3. /\ job'[r] = j
            /\ \A a \in Agents \ {r} : job'[a] = job[a]
        <5>1. job' = [a \in Agents |-> IF a = r THEN j ELSE job[a]]
          BY <1>2, <4>1 DEF Pursue, JobsOK
        <5> QED
          BY <5>1
      <4>4. CASE r = "safety_reviewer" /\ p = q
        <5>1. c.challenges = memory[r][q].challenges
          BY <4>1, <4>4 DEF Learned, Context
        <5>2. Challenging(p)' => j.body.outcome = "CHALLENGE"
          BY <4>3, <4>4 DEF Challenging
        <5>3. Challenging(p)' => c.challenges < PerLife
          BY <4>1, <4>4, <5>2, ChallengeHasRoom
        <5> QED
          BY <4>2, <4>4, <5>1, <5>3 DEF Spent
      <4>5. CASE r = "safety_reviewer" /\ p # q
        BY <4>1, <4>2, <4>3, <4>5 DEF Spent, Challenging, OnJob
      <4>6. CASE r # "safety_reviewer"
        BY <2>1, <4>2, <4>3, <4>6
           DEF Spent, Challenging, OnJob, Counted, Agents
      <4> QED
        BY <4>4, <4>5, <4>6
    <3> QED
      BY <1>1, <3>1, <3>2
  <2>4. Recount(p)
    BY <1>1, <1>3, <2>2, <2>3 DEF Recount
  <2> QED
    BY <2>1, <2>3, <2>4, Recounted
<1> QED
  BY <1>4 DEF CountInv

LEMMA CountStarts == CouncilInit => CountInv
<1> SUFFICES ASSUME CouncilInit, NEW p \in Proposals  PROVE Counted(p)
  BY DEF CountInv
<1>1. /\ submissions = {} /\ crashes = 0 /\ losses = 0 /\ Spent(p) = 0
  BY DEF CouncilInit, SubmissionInit, Spent, NoContext, Agents
<1>2. ~ Challenging(p)
  BY DEF CouncilInit, Challenging, OnJob, NoJob, Agents
<1>3. Challenged(p) = {}
  BY <1>1 DEF Challenged, Verdicts, RowsOf
<1>4. PerLife \in Nat /\ PerLife * 0 = 0
  BY PerLifeIs
<1>5. IsFiniteSet({}) /\ Cardinality({}) = 0
  BY FS_EmptySet
<1> QED
  BY <1>1, <1>2, <1>3, <1>4, <1>5 DEF Counted

LEMMA CountStep ==
  ASSUME WorkInv, WorkInv', CountInv, [CouncilNext]_agentVars
  PROVE  CountInv'
BY StepKinds, QuietCounts, ReadCounts, ConfirmCounts, CrashCounts

\* The review ends: one life of the reviewer has at most MaxChallenges
\* challenges confirmed, one when it works without a model, and every other one
\* a lost answer accounts for.
THEOREM ChallengesCorrect == CouncilSpec => []ChallengesAreBounded
<1>1. CouncilInit => CountInv
  BY CountStarts
<1>2. WorkInv /\ WorkInv' /\ CountInv /\ [CouncilNext]_agentVars => CountInv'
  BY CountStep
<1>3. WorkInv /\ CountInv => ChallengesAreBounded
  <2> SUFFICES ASSUME WorkInv, CountInv, NEW p \in Proposals
               PROVE  Cardinality(Challenged(p)) <= PerLife * (crashes + 1) + losses
    BY DEF ChallengesAreBounded, Challenged, PerLife
  <2>1. Counted(p) /\ Spent(p) \in Nat /\ crashes \in Nat /\ losses \in Nat
    BY SpentIs DEF CountInv
  <2>2. /\ PerLife \in Nat /\ PerLife * crashes \in Nat
        /\ PerLife * (crashes + 1) = PerLife * crashes + PerLife
    BY <2>1, PerLifeIs, OneLifeMore
  <2>3. /\ Cardinality(Challenged(p)) \in Nat
        /\ Cardinality(Challenged(p)) <= PerLife * crashes + losses + Spent(p)
        /\ Spent(p) <= PerLife
    BY <2>1, FS_CardinalityType DEF Counted
  <2>4. PICK a, b, k, c : /\ a = Cardinality(Challenged(p))
                          /\ b = PerLife * crashes /\ k = PerLife /\ c = Spent(p)
    OBVIOUS
  <2>5. a <= (b + k) + losses
    BY <2>1, <2>2, <2>3, <2>4
  <2> QED
    BY <2>2, <2>4, <2>5
<1> QED
  BY <1>1, <1>2, <1>3, WorkInvariant, PTL DEF CouncilSpec

-----------------------------------------------------------------------------
(***************************************************************************)
(* The room: which cards come in which order, and whose messages show them.*)
(***************************************************************************)

Assessed(p) == {x \in RowsOf(p) : x.body.type = "Assessment"}
Triaged(p) == {x \in RowsOf(p) : x.body.type = "TriageDecision"}

\* A verdict behind the card s is confirmed.
Closed(p, s) == \E u \in Verdicts(p) : u.message # 0 /\ s < u.card

\* No Assessment before the triage.
AssessedLate ==
  \A p \in Proposals : state[p] \in {"ABSENT", "DETECTED"} => Assessed(p) = {}

TriagedFirst ==
  \A p \in Proposals : \A x \in Triaged(p), y \in Assessed(p) : x.card < y.card

\* A diagnosis is asked for again only when a verdict closed the last one.
ClosedBefore ==
  \A p \in Proposals : state[p] \in {"TRIAGED", "CHALLENGED"} =>
    \A x \in Assessed(p) : x.message # 0 => Closed(p, x.card)

OrderInv == AssessedLate /\ TriagedFirst /\ ClosedBefore

\* The message an agent of the council works from.
SourceOK(r, p, k) ==
  /\ k \in RoomOf(p)
  /\ r = "triage" => messages[k].role = "recorder"
  /\ r = "safety_reviewer" => Shows(k, "diagnosis", "Assessment")

RowSourced(x) ==
  x.role \in Agents =>
    \E k \in RoomOf(x.prop) : x.key = KeyOf(x.role, k) /\ SourceOK(x.role, x.prop, k)

\* The message shows a card of the role that sent it, and the recorder's the
\* one ProposalCard.
Posted(m) ==
  \E x \in RowsOf(messages[m].prop) :
    x.role = messages[m].role /\ x.card = Shown(m)

RecorderShows(m) ==
  messages[m].role = "recorder" =>
    \E x \in Under(messages[m].prop, KeyOf("recorder", 0)) :
      x.card \in messages[m].cards

OneAnnouncement ==
  \A m, n \in DOMAIN messages :
    /\ messages[m].role = "recorder" /\ messages[n].role = "recorder"
    /\ messages[m].prop = messages[n].prop
    => m = n

MessagesInv ==
  /\ \A x \in submissions : RowSourced(x)
  /\ \A m \in DOMAIN messages : Posted(m) /\ RecorderShows(m)
  /\ OneAnnouncement

RoomInv == OrderInv /\ MessagesInv

\* A row that is there after a step and what it says.
LEMMA SealedIs ==
  ASSUME SubmissionTypeOK, RowsInv, NEW p \in Proposals, NEW role \in Roles,
         NEW key \in Keys, NEW body \in Bodies, PrepareCard(p, role, key, body)
  PROVE  \E b \in Rows :
           /\ b.prop = p /\ b.key = key /\ b.body = body /\ b.role = role
           /\ b.message = 0 /\ b.card = Len(cards[p]) + 1
           /\ submissions' = submissions \cup {b}
           /\ \A x \in RowsOf(p) : x.card < b.card
           /\ Under(p, key) = {}
           /\ state[p] \in Prerequisite(body.type)
           /\ state' = [state EXCEPT ![p] =
                          IF @ = "ABSENT" THEN "DETECTED" ELSE @]
<1>1. PICK n \in Nat, b \in Rows :
         /\ b = [prop |-> p, card |-> n, key |-> key, body |-> body,
                 role |-> role, message |-> 0]
         /\ submissions' = submissions \cup {b}
         /\ \A s \in DOMAIN cards[p] : s < n
         /\ n = Len(cards[p]) + 1
  BY PrepareCardFacts
<1>2. /\ b.prop = p /\ b.key = key /\ b.body = body /\ b.role = role
      /\ b.message = 0 /\ b.card = n
  BY <1>1
<1>3. \A x \in RowsOf(p) : x.card < b.card
  BY <1>1, <1>2 DEF RowsInv, RowInv, RowsOf
<1>4. /\ Under(p, key) = {} /\ state[p] \in Prerequisite(body.type)
      /\ state' = [state EXCEPT ![p] = IF @ = "ABSENT" THEN "DETECTED" ELSE @]
  BY DEF PrepareCard, Unused, Prepare, Allowed
<1> QED
  BY <1>1, <1>2, <1>3, <1>4

LEMMA AsksOrdered ==
  ASSUME WorkInv, OrderInv, NEW p \in Proposals, NEW role \in Roles,
         NEW key \in Keys, NEW body \in Bodies, PrepareCard(p, role, key, body)
  PROVE  OrderInv'
<1>1. PICK b \in Rows :
         /\ b.prop = p /\ b.body = body /\ b.message = 0
         /\ submissions' = submissions \cup {b}
         /\ \A x \in RowsOf(p) : x.card < b.card
         /\ state[p] \in Prerequisite(body.type)
         /\ state' = [state EXCEPT ![p] = IF @ = "ABSENT" THEN "DETECTED" ELSE @]
  BY SealedIs DEF WorkInv, SubmissionInv
<1>2. state \in [Proposals -> States]
  BY DEF WorkInv, SubmissionInv, SubmissionTypeOK, LedgerTypeOK
<1>3. /\ body.type = "Assessment" => state[p] \in {"TRIAGED", "CHALLENGED"}
      /\ body.type = "TriageDecision" => state[p] = "DETECTED"
  BY <1>1 DEF Prerequisite
<1>4. ASSUME NEW q \in Proposals
      PROVE  /\ state'[q] \in {"ABSENT", "DETECTED"}
                  <=> state[q] \in {"ABSENT", "DETECTED"}
             /\ state'[q] \in {"TRIAGED", "CHALLENGED"}
                  <=> state[q] \in {"TRIAGED", "CHALLENGED"}
  BY <1>1, <1>2
<1>5. ASSUME NEW q \in Proposals
      PROVE  /\ Assessed(q)' = IF q = p /\ body.type = "Assessment"
                               THEN Assessed(q) \cup {b} ELSE Assessed(q)
             /\ Triaged(q)' = IF q = p /\ body.type = "TriageDecision"
                              THEN Triaged(q) \cup {b} ELSE Triaged(q)
             /\ Verdicts(q) \subseteq Verdicts(q)'
  BY <1>1 DEF Assessed, Triaged, Verdicts, RowsOf
<1>6. AssessedLate'
  BY <1>3, <1>4, <1>5 DEF OrderInv, AssessedLate
<1>7. TriagedFirst'
  <2> SUFFICES ASSUME NEW q \in Proposals, NEW x \in Triaged(q)',
                      NEW y \in Assessed(q)'
               PROVE  x.card < y.card
    BY DEF TriagedFirst
  <2>1. CASE y \in Assessed(q) /\ x \in Triaged(q)
    BY <2>1 DEF OrderInv, TriagedFirst
  <2>2. CASE y \notin Assessed(q)
    <3>1. q = p /\ y = b /\ body.type = "Assessment"
      BY <1>5, <2>2
    <3>2. x \in RowsOf(p)
      BY <1>5, <3>1 DEF Triaged
    <3> QED
      BY <1>1, <3>1, <3>2
  <2>3. CASE x \notin Triaged(q)
    <3>1. q = p /\ body.type = "TriageDecision"
      BY <1>5, <2>3
    <3>2. Assessed(q)' = {}
      BY <1>3, <1>5, <3>1 DEF OrderInv, AssessedLate
    <3> QED
      BY <3>2
  <2> QED
    BY <2>1, <2>2, <2>3
<1>8. ClosedBefore'
  <2> SUFFICES ASSUME NEW q \in Proposals,
                      state'[q] \in {"TRIAGED", "CHALLENGED"},
                      NEW x \in Assessed(q)', x.message # 0
               PROVE  Closed(q, x.card)'
    BY DEF ClosedBefore
  <2>1. x \in Assessed(q)
    BY <1>1, <1>5
  <2>2. Closed(q, x.card)
    BY <1>4, <2>1 DEF OrderInv, ClosedBefore
  <2> QED
    BY <1>5, <2>2 DEF Closed
<1> QED
  BY <1>6, <1>7, <1>8 DEF OrderInv

\* Where a confirmed card sends its proposal.
LEMMA MovesTo ==
  ASSUME NEW p \in Proposals, NEW c \in Cards
  PROVE  /\ StateAfter(p, c) \in {"ABSENT", "DETECTED"} =>
              c.type = "ProposalCard" /\ state[p] = StateAfter(p, c)
         /\ StateAfter(p, c) \in {"TRIAGED", "CHALLENGED"} =>
              \/ c.type \in {"TriageDecision", "Verdict"}
              \/ c.type = "ProposalCard" /\ state[p] = StateAfter(p, c)
<1>1. c.type \in CardTypes /\ c.outcome \in Outcomes(c.type)
  BY DEF Cards
<1>2. CASE c.type \in {"TriageDecision", "Verdict", "StructuredApproval"}
  <2>1. c.outcome \in {"route", "suppress", "CONFIRM", "CHALLENGE", "FALSE_ALARM",
                       "NEEDS_HUMAN", "APPROVED", "REJECTED"}
    BY <1>1, <1>2 DEF Outcomes
  <2>2. StateAfter(p, c) = OutcomeTransitions[c.outcome]
    BY <1>2, <2>1 DEF StateAfter, Resolve, OutcomeTransitions
  <2>3. StateAfter(p, c) \notin {"ABSENT", "DETECTED"}
    BY <2>1, <2>2 DEF OutcomeTransitions
  <2>4. CASE c.type = "StructuredApproval"
    <3>1. c.outcome \in {"APPROVED", "REJECTED", "FALSE_ALARM"}
      BY <1>1, <2>4 DEF Outcomes
    <3> QED
      BY <2>2, <2>3, <3>1 DEF OutcomeTransitions
  <2> QED
    BY <1>2, <2>3, <2>4
<1>3. CASE c.type \in {"Assessment", "ResponsePlan", "PolicyAuthorization",
                       "CasperExecutionReceipt", "GovernanceSummary"}
  <2>1. c.outcome = "none"
    BY <1>1, <1>3 DEF Outcomes
  <2>2. StateAfter(p, c) = BaseTransitions[c.type]
    BY <1>3, <2>1 DEF StateAfter, Resolve, OutcomeTransitions
  <2> QED
    BY <1>3, <2>2 DEF BaseTransitions
<1>4. CASE c.type = "ProposalCard"
  <2>1. c.outcome = "none"
    BY <1>1, <1>4 DEF Outcomes
  <2>2. StateAfter(p, c) = state[p]
    BY <1>4, <2>1 DEF StateAfter, Resolve, OutcomeTransitions, BaseTransitions
  <2> QED
    BY <1>4, <2>2
<1> QED
  BY <1>1, <1>2, <1>3, <1>4 DEF CardTypes

LEMMA ConfirmedIs ==
  ASSUME SubmissionTypeOK, RowsInv, NEW x \in submissions, NEW role \in Roles,
         NEW m \in DOMAIN messages, Confirms(x, role, m)
  PROVE  \E y \in Rows :
           /\ y.prop = x.prop /\ y.card = x.card /\ y.key = x.key
           /\ y.body = x.body /\ y.role = x.role
           /\ x.message = 0 /\ y.message = m /\ m # 0
           /\ submissions' = (submissions \ {x}) \cup {y}
           /\ state[x.prop] \in Prerequisite(x.body.type)
           /\ \E c \in Cards :
                /\ c.type = x.body.type
                /\ state' = [state EXCEPT ![x.prop] = StateAfter(x.prop, c)]
           /\ \A z \in RowsOf(x.prop) : z.message # 0 => z.card < x.card
<1>1. PICK y \in Rows :
         /\ y = [x EXCEPT !.message = m]
         /\ submissions' = (submissions \ {x}) \cup {y}
         /\ x.message = 0 /\ m \in Nat \ {0}
         /\ cards[x.prop][x.card] \in Cards
  BY ConfirmsFacts
<1>2. x \in Rows /\ RowInv(x)
  BY DEF SubmissionTypeOK, RowsInv
<1>3. /\ y.prop = x.prop /\ y.card = x.card /\ y.key = x.key
      /\ y.body = x.body /\ y.role = x.role /\ y.message = m
  BY <1>1, <1>2 DEF Rows
<1>4. cards[x.prop][x.card].type = x.body.type
  BY <1>2 DEF RowInv
<1>5. state[x.prop] \in Prerequisite(x.body.type)
  BY <1>4 DEF Confirms, ConfirmCard, Confirm, Allowed
<1>6. state' = [state EXCEPT ![x.prop] =
                  StateAfter(x.prop, cards[x.prop][x.card])]
  BY DEF Confirms, ConfirmCard, Confirm
<1>7. ASSUME NEW z \in RowsOf(x.prop), z.message # 0  PROVE z.card < x.card
  <2>1. z \in Rows /\ RowInv(z) /\ z.prop = x.prop /\ z \in submissions
    BY DEF SubmissionTypeOK, RowsInv, RowsOf
  <2>2. z.card \in DOMAIN cards[x.prop] /\ cards[x.prop][z.card].published
    BY <1>7, <2>1 DEF RowInv
  <2>3. ~ (z.card > x.card)
    BY <2>2 DEF Confirms, ConfirmCard, Confirm, NewerConfirmed
  <2>4. z.card # x.card
    BY <1>1, <1>7, <2>1 DEF RowsInv, RowsDiffer
  <2>5. z.card \in Nat /\ x.card \in Nat
    BY <1>2, <2>1 DEF Rows
  <2> QED
    BY <2>3, <2>4, <2>5
<1> QED
  BY <1>1, <1>3, <1>4, <1>5, <1>6, <1>7

LEMMA ConfirmsOrdered ==
  ASSUME WorkInv, OrderInv, NEW x \in submissions, NEW role \in Roles,
         NEW m \in DOMAIN messages, Confirms(x, role, m)
  PROVE  OrderInv'
<1>1. PICK y \in Rows :
        /\ y.prop = x.prop /\ y.card = x.card /\ y.body = x.body
        /\ x.message = 0 /\ y.message = m /\ m # 0
        /\ submissions' = (submissions \ {x}) \cup {y}
        /\ state[x.prop] \in Prerequisite(x.body.type)
        /\ \E c \in Cards :
             /\ c.type = x.body.type
             /\ state' = [state EXCEPT ![x.prop] = StateAfter(x.prop, c)]
        /\ \A z \in RowsOf(x.prop) : z.message # 0 => z.card < x.card
  BY ConfirmedIs DEF WorkInv, SubmissionInv
<1>2. PICK c \in Cards :
        /\ c.type = x.body.type
        /\ state' = [state EXCEPT ![x.prop] = StateAfter(x.prop, c)]
  BY <1>1
<1>3. /\ state \in [Proposals -> States] /\ x.prop \in Proposals
  BY DEF WorkInv, SubmissionInv, SubmissionTypeOK, LedgerTypeOK, Rows
<1>4. /\ state'[x.prop] \in {"ABSENT", "DETECTED"} =>
           c.type = "ProposalCard" /\ state[x.prop] = state'[x.prop]
      /\ state'[x.prop] \in {"TRIAGED", "CHALLENGED"} =>
           \/ c.type \in {"TriageDecision", "Verdict"}
           \/ c.type = "ProposalCard" /\ state[x.prop] = state'[x.prop]
      /\ \A q \in Proposals : q # x.prop => state'[q] = state[q]
  BY <1>2, <1>3, MovesTo
\* Every row stands for an old one.
<1>5. ASSUME NEW q \in Proposals, NEW z \in submissions', z.prop = q
      PROVE  \E w \in RowsOf(q) :
               /\ w.card = z.card /\ w.body = z.body
               /\ z.message # 0 => w = x \/ w.message # 0
  BY <1>1, <1>5 DEF RowsOf
<1>6. ASSUME NEW q \in Proposals, NEW s, Closed(q, s)
      PROVE  Closed(q, s)'
  BY <1>1, <1>6 DEF Closed, Verdicts, RowsOf
<1>7. AssessedLate'
  BY <1>1, <1>4, <1>5 DEF OrderInv, AssessedLate, Assessed, RowsOf
<1>8. TriagedFirst'
  <2> SUFFICES ASSUME NEW q \in Proposals, NEW a \in Triaged(q)',
                      NEW b \in Assessed(q)'
               PROVE  a.card < b.card
    BY DEF TriagedFirst
  <2>1. PICK v \in Triaged(q) : v.card = a.card
    BY <1>5 DEF Triaged, RowsOf
  <2>2. PICK w \in Assessed(q) : w.card = b.card
    BY <1>5 DEF Assessed, RowsOf
  <2> QED
    BY <2>1, <2>2 DEF OrderInv, TriagedFirst
<1>9. ClosedBefore'
  <2> SUFFICES ASSUME NEW q \in Proposals,
                      state'[q] \in {"TRIAGED", "CHALLENGED"},
                      NEW b \in Assessed(q)', b.message # 0
               PROVE  Closed(q, b.card)'
    BY DEF ClosedBefore
  <2>1. PICK w \in Assessed(q) :
          w.card = b.card /\ (w = x \/ w.message # 0)
    BY <1>5 DEF Assessed, RowsOf
  <2>2. w.body.type = "Assessment" /\ w.prop = q
    BY DEF Assessed, RowsOf
  <2>3. CASE q # x.prop \/ c.type = "ProposalCard"
    <3>1. state[q] \in {"TRIAGED", "CHALLENGED"} /\ w # x
      BY <1>2, <1>4, <2>2, <2>3
    <3>2. Closed(q, w.card)
      BY <2>1, <3>1 DEF OrderInv, ClosedBefore
    <3> QED
      BY <1>6, <2>1, <3>2
  <2>4. CASE q = x.prop /\ c.type = "TriageDecision"
    <3>1. state[q] = "DETECTED"
      BY <1>1, <1>2, <2>4 DEF Prerequisite
    <3> QED
      BY <3>1 DEF OrderInv, AssessedLate
  <2>5. CASE q = x.prop /\ c.type = "Verdict"
    <3>1. w.message # 0 /\ w \in RowsOf(q)
      BY <1>2, <2>1, <2>2, <2>5 DEF Assessed
    <3>2. w.card < x.card
      BY <1>1, <2>5, <3>1
    <3>3. y \in Verdicts(q)' /\ y.message # 0 /\ b.card < y.card
      BY <1>1, <1>2, <2>1, <2>5, <3>2 DEF Verdicts, RowsOf
    <3> QED
      BY <3>3 DEF Closed
  <2> QED
    BY <1>4, <2>3, <2>4, <2>5
<1> QED
  BY <1>7, <1>8, <1>9 DEF OrderInv

WorksOn(r, p, k) ==
  job[r].phase # "idle" /\ job[r].prop = p /\ job[r].source = k

JobsSourced ==
  \A r \in Agents : \A p, k : WorksOn(r, p, k) => SourceOK(r, p, k)

\* A message goes on showing what it shows.
LEMMA ShownKept ==
  ASSUME WorkInv, Grew, NEW m \in DOMAIN messages, Posted(m)
  PROVE  /\ m \in DOMAIN messages' /\ messages'[m] = messages[m]
         /\ Shown(m)' = Shown(m) /\ Posted(m)'
         /\ \A role, t : Shows(m, role, t)' <=> Shows(m, role, t)
         /\ \A o : Decides(m, o)' <=> Decides(m, o)
<1>1. m \in DOMAIN messages' /\ messages'[m] = messages[m]
  BY DEF Grew
<1>2. Shown(m)' = Shown(m)
  BY <1>1 DEF Shown
<1>3. PICK x \in RowsOf(messages[m].prop) :
        x.role = messages[m].role /\ x.card = Shown(m)
  BY DEF Posted
<1>4. /\ x \in submissions /\ x.prop = messages[m].prop
      /\ x.prop \in Proposals /\ x.card \in DOMAIN cards[x.prop]
  BY <1>3 DEF RowsOf, WorkInv, SubmissionInv, RowsInv, RowInv,
              SubmissionTypeOK, Rows
<1>5. PICK y \in submissions' : Became(x, y)
  BY <1>4 DEF Grew
<1>6. Posted(m)'
  BY <1>1, <1>2, <1>3, <1>4, <1>5 DEF Posted, Became, RowsOf
<1>7. /\ cards'[x.prop][x.card].type = cards[x.prop][x.card].type
      /\ cards'[x.prop][x.card].outcome = cards[x.prop][x.card].outcome
  BY <1>4 DEF Grew
<1>8. /\ \A role, t : Shows(m, role, t)' <=> Shows(m, role, t)
      /\ \A o : Decides(m, o)' <=> Decides(m, o)
  BY <1>1, <1>2, <1>3, <1>4, <1>7 DEF Shows, Decides
<1> QED
  BY <1>1, <1>2, <1>6, <1>8

LEMMA SourceKept ==
  ASSUME WorkInv, MessagesInv, Grew, NEW r, NEW p, NEW k, SourceOK(r, p, k)
  PROVE  SourceOK(r, p, k)'
<1>1. k \in DOMAIN messages /\ Posted(k)
  BY DEF SourceOK, RoomOf, MessagesInv
<1>2. k \in RoomOf(p)'
  BY RoomGrows DEF SourceOK
<1> QED
  BY <1>1, <1>2, ShownKept DEF SourceOK

LEMMA MessagesKept ==
  ASSUME WorkInv, MessagesInv, Grew,
         \A y \in submissions' : OldRow(y) \/ RowSourced(y)'
  PROVE  /\ \A y \in submissions' : RowSourced(y)'
         /\ \A m \in DOMAIN messages : Posted(m)' /\ RecorderShows(m)'
<1>1. ASSUME NEW y \in submissions', OldRow(y)  PROVE RowSourced(y)'
  <2>1. PICK x \in submissions : Became(x, y)
    BY <1>1 DEF OldRow
  <2>2. RowSourced(x) /\ y.role = x.role /\ y.prop = x.prop /\ y.key = x.key
    BY <2>1 DEF MessagesInv, Became
  <2>3. ASSUME x.role \in Agents
        PROVE  \E k \in RoomOf(x.prop)' :
                 x.key = KeyOf(x.role, k) /\ SourceOK(x.role, x.prop, k)'
    <3>1. PICK k \in RoomOf(x.prop) :
            x.key = KeyOf(x.role, k) /\ SourceOK(x.role, x.prop, k)
      BY <2>2, <2>3 DEF RowSourced
    <3>2. SourceOK(x.role, x.prop, k)'
      BY <3>1, SourceKept
    <3> QED
      BY <3>1, <3>2 DEF SourceOK
  <2> QED
    BY <2>2, <2>3 DEF RowSourced
<1>2. ASSUME NEW m \in DOMAIN messages  PROVE Posted(m)' /\ RecorderShows(m)'
  <2>1. Posted(m) /\ RecorderShows(m)
    BY DEF MessagesInv
  <2>2. Posted(m)' /\ messages'[m] = messages[m]
    BY <2>1, ShownKept
  <2>3. RecorderShows(m)'
    BY <2>1, <2>2 DEF RecorderShows, Under, RowsOf, Grew, Became
  <2> QED
    BY <2>2, <2>3
<1> QED
  BY <1>1, <1>2

LEMMA MessagesStay ==
  ASSUME WorkInv, MessagesInv, Grew, messages' = messages,
         \A y \in submissions' : OldRow(y) \/ RowSourced(y)'
  PROVE  MessagesInv'
<1>1. /\ \A y \in submissions' : RowSourced(y)'
      /\ \A m \in DOMAIN messages : Posted(m)' /\ RecorderShows(m)'
  BY MessagesKept
<1>2. OneAnnouncement'
  BY DEF MessagesInv, OneAnnouncement
<1> QED
  BY <1>1, <1>2 DEF MessagesInv

LEMMA AskedSourced ==
  ASSUME WorkInv, MessagesInv, JobsSourced, NEW p \in Proposals,
         NEW r \in Agents \cup {"recorder"}, NEW m \in 0 .. MaxMessages,
         NEW body \in Bodies, Asks(p, r, m, body)
  PROVE  MessagesInv'
<1>1. /\ r \in Roles /\ KeyOf(r, m) \in Keys /\ SubmissionTypeOK /\ RowsInv
      /\ PrepareCard(p, r, KeyOf(r, m), body)
  BY RolesAre, KeysAre DEF WorkInv, SubmissionInv, Asks
<1>2. PICK b \in Rows :
        /\ b.prop = p /\ b.key = KeyOf(r, m) /\ b.role = r
        /\ submissions' = submissions \cup {b}
  BY <1>1, SealedIs
<1>3. Grew /\ messages' = messages
  BY <1>1, PrepareGrows DEF PrepareCard
<1>4. \A x \in submissions : OldRow(x)
  BY DEF OldRow, Became
<1>5. RowSourced(b)'
  <2>1. CASE r = "recorder"
    BY <1>2, <2>1 DEF RowSourced, Agents
  <2>2. CASE r \in Agents
    <3>1. r # "recorder"
      BY <2>2 DEF Agents
    <3>2. SourceOK(r, p, m)
      BY <2>2, <3>1 DEF Asks, JobsSourced, WorksOn
    <3>3. SourceOK(r, p, m)'
      BY <1>3, <3>2, SourceKept
    <3> QED
      BY <1>2, <3>3 DEF RowSourced, SourceOK
  <2> QED
    BY <2>1, <2>2
<1> QED
  BY <1>2, <1>3, <1>4, <1>5, MessagesStay

LEMMA CarriedShows ==
  ASSUME NEW s \in Nat, NEW tagged \in BOOLEAN
  PROVE  /\ s \in Carried(s, tagged)
         /\ (CHOOSE c \in Carried(s, tagged) :
               \A t \in Carried(s, tagged) : t <= c) = s
<1>1. /\ s \in Carried(s, tagged)
      /\ \A t \in Carried(s, tagged) : t = s \/ t = s - 1
  BY DEF Carried
<1>2. \A t \in Carried(s, tagged) : t <= s /\ (s <= t => t = s)
  BY <1>1
<1>3. PICK c : c = CHOOSE d \in Carried(s, tagged) :
                     \A t \in Carried(s, tagged) : t <= d
  OBVIOUS
<1>4. c \in Carried(s, tagged) /\ s <= c
  BY <1>1, <1>2, <1>3
<1> QED
  BY <1>1, <1>2, <1>3, <1>4

LEMMA ShownInRoom ==
  ASSUME WorkInv, MessagesInv, NEW p \in Proposals,
         NEW r \in Agents \cup {"recorder"}, NEW tagged \in BOOLEAN,
         NEW x \in RowsOf(p), ShowsCard(p, r, x, tagged)
  PROVE  MessagesInv'
<1>1. /\ SubmissionTypeOK /\ RowsInv /\ r \in Roles
      /\ Posts(p, r, x.card, tagged) /\ x.role = r
      /\ x \in submissions /\ x.prop = p
  BY RolesAre DEF WorkInv, SubmissionInv, ShowsCard, RowsOf
<1>2. PICK k : /\ Grew /\ submissions' = submissions
               /\ DOMAIN messages' = DOMAIN messages \cup {k}
               /\ messages'[k].prop = p /\ messages'[k].role = r
               /\ messages'[k].cards = Carried(x.card, tagged)
  <2>1. /\ Grew
        /\ \E k : /\ DOMAIN messages' = DOMAIN messages \cup {k}
                  /\ Tells(k, p, r, Carried(x.card, tagged))'
    BY <1>1, PostGrows
  <2>2. submissions' = submissions
    BY <1>1 DEF Posts, PostCard
  <2> QED
    BY <2>1, <2>2 DEF Tells
<1>3. \A y \in submissions' : OldRow(y)
  BY <1>2 DEF OldRow, Became
<1>4. /\ \A y \in submissions' : RowSourced(y)'
      /\ \A m \in DOMAIN messages : Posted(m)' /\ RecorderShows(m)'
      /\ \A m \in DOMAIN messages : messages'[m] = messages[m]
  BY <1>2, <1>3, MessagesKept DEF Grew
<1>5. x.card \in Nat
  BY <1>1 DEF SubmissionTypeOK, Rows
<1>7. messages'[k].prop = p /\ messages'[k].role = r
      /\ messages'[k].cards = Carried(x.card, tagged)
  BY <1>2
<1>8. Shown(k)' = x.card
  BY <1>5, <1>7, CarriedShows DEF Shown
<1>9. Posted(k)'
  BY <1>1, <1>2, <1>7, <1>8 DEF Posted, RowsOf
<1>10. RecorderShows(k)'
  <2>1. r = "recorder" => x.key = KeyOf("recorder", 0)
    BY DEF ShowsCard
  <2>2. x.card \in messages'[k].cards
    BY <1>5, <1>7, CarriedShows
  <2> QED
    BY <1>1, <1>2, <1>7, <2>1, <2>2 DEF RecorderShows, Under, RowsOf
<1>11. ASSUME NEW m \in DOMAIN messages, messages[m].role = "recorder",
              messages[m].prop = p, r = "recorder"
       PROVE  FALSE
  <2>1. PICK z \in Under(p, KeyOf("recorder", 0)) : z.card \in messages[m].cards
    BY <1>11 DEF MessagesInv, RecorderShows
  <2>2. z = x
    BY <1>1, <1>11, <2>1 DEF Under, RowsOf, RowsInv, RowsDiffer, ShowsCard
  <2> QED
    BY <1>11, <2>1, <2>2 DEF ShowsCard, RoomOf
<1>12. OneAnnouncement'
  BY <1>2, <1>4, <1>7, <1>11 DEF MessagesInv, OneAnnouncement
<1> QED
  BY <1>2, <1>4, <1>9, <1>10, <1>12 DEF MessagesInv

LEMMA RoomUnchanged ==
  ASSUME WorkInv, RoomInv, NoRequest
  PROVE  RoomInv'
<1>1. UNCHANGED <<state, cards, visible, submissions, messages>>
  BY DEF NoRequest
<1>2. Grew /\ \A y \in submissions' : OldRow(y)
  BY AllStays DEF WorkInv, SubmissionInv
<1>3. MessagesInv'
  BY <1>1, <1>2, MessagesStay DEF RoomInv
<1>4. OrderInv'
  BY <1>1 DEF RoomInv, OrderInv, AssessedLate, TriagedFirst, ClosedBefore,
              Assessed, Triaged, Closed, Verdicts, RowsOf
<1> QED
  BY <1>3, <1>4 DEF RoomInv

LEMMA ConfirmedInRoom ==
  ASSUME WorkInv, RoomInv, NEW x \in submissions, NEW role \in Roles,
         NEW m \in DOMAIN messages, Confirms(x, role, m)
  PROVE  RoomInv'
<1>1. OrderInv'
  BY ConfirmsOrdered DEF RoomInv
<1>2. Grew /\ \A y \in submissions' : OldRow(y)
  BY ConfirmGrows DEF WorkInv, SubmissionInv
<1>3. messages' = messages
  BY DEF Confirms, ConfirmCard
<1>4. MessagesInv'
  BY <1>2, <1>3, MessagesStay DEF RoomInv
<1> QED
  BY <1>1, <1>4 DEF RoomInv

LEMMA QuietRoom ==
  ASSUME WorkInv, RoomInv, JobsSourced, Quiet
  PROVE  RoomInv'
<1>1. CASE NoRequest
  BY <1>1, RoomUnchanged
<1>2. ASSUME NEW p \in Proposals, NEW r \in Agents \cup {"recorder"},
             NEW m \in 0 .. MaxMessages, NEW body \in Bodies, Asks(p, r, m, body)
      PROVE  RoomInv'
  <2>1. MessagesInv'
    BY <1>2, AskedSourced DEF RoomInv
  <2>2. r \in Roles /\ KeyOf(r, m) \in Keys
    BY RolesAre, KeysAre
  <2>3. OrderInv'
    BY <1>2, <2>2, AsksOrdered DEF RoomInv, Asks
  <2> QED
    BY <2>1, <2>3 DEF RoomInv
<1>3. ASSUME NEW p \in Proposals, NEW r \in Agents \cup {"recorder"},
             NEW tagged \in BOOLEAN, NEW x \in RowsOf(p),
             ShowsCard(p, r, x, tagged)
      PROVE  RoomInv'
  <2>1. MessagesInv'
    BY <1>3, ShownInRoom DEF RoomInv
  <2>2. UNCHANGED <<state, submissions>>
    BY <1>3 DEF ShowsCard, Posts, PostCard
  <2>3. OrderInv'
    BY <2>2 DEF RoomInv, OrderInv, AssessedLate, TriagedFirst, ClosedBefore,
                Assessed, Triaged, Closed, Verdicts, RowsOf
  <2> QED
    BY <2>1, <2>3 DEF RoomInv
<1>4. ASSUME NEW x \in submissions, Announces(x)  PROVE RoomInv'
  BY <1>4, RolesAre, ConfirmedInRoom DEF Announces
<1> QED
  BY <1>1, <1>2, <1>3, <1>4 DEF Quiet, OneRequest

LEMMA WorkGoesOn ==
  ASSUME Continued, NEW r \in Agents, NEW p, NEW k, WorksOn(r, p, k)'
  PROVE  WorksOn(r, p, k)
BY DEF Continued, WorksOn, NoJob

LEMMA JobsGoOn ==
  ASSUME WorkInv, MessagesInv, JobsSourced, Grew, Continued
  PROVE  JobsSourced'
<1> SUFFICES ASSUME NEW r \in Agents, NEW p, NEW k, WorksOn(r, p, k)'
             PROVE  SourceOK(r, p, k)'
  BY DEF JobsSourced
<1>1. SourceOK(r, p, k)
  BY WorkGoesOn DEF JobsSourced
<1> QED
  BY <1>1, SourceKept

LEMMA TriggerSources ==
  ASSUME NEW r \in Agents, NEW p, NEW m \in RoomOf(p), Trigger(r, p, m)
  PROVE  SourceOK(r, p, m)
<1>1. CASE r = "triage"
  BY <1>1 DEF Trigger, TriageTrigger, Shows, SourceOK
<1>2. CASE r = "diagnosis"
  BY <1>2 DEF SourceOK
<1>3. CASE r = "safety_reviewer"
  BY <1>3 DEF Trigger, ReviewTrigger, SourceOK
<1> QED
  BY <1>1, <1>2, <1>3 DEF Agents

LEMMA ReadSourced ==
  ASSUME WorkInv, RoomInv, JobsSourced, NEW r \in Agents, NEW p \in Proposals,
         Read(r, p)
  PROVE  RoomInv' /\ JobsSourced'
<1>1. PICK m \in DOMAIN messages :
        /\ NextMessage(r, p, m)
        /\ Begins(r, p, m) \/ PassesOver(r, p, m)
        /\ UNCHANGED submissionVars /\ job[r].phase = "idle"
  BY ReadIs
<1>2. Grew /\ RoomInv' /\ JobsOK /\ MessagesInv
  BY <1>1, NothingGrows, RoomUnchanged
     DEF WorkInv, AgentsInv, RoomInv, NoRequest, submissionVars, ledgerVars
<1>3. ASSUME NEW q \in Agents, NEW s, NEW k, WorksOn(q, s, k)
      PROVE  SourceOK(q, s, k)'
  BY <1>2, <1>3, SourceKept DEF JobsSourced
<1>4. CASE PassesOver(r, p, m)
  <2>1. \A q, s, k : WorksOn(q, s, k)' <=> WorksOn(q, s, k)
    BY <1>4 DEF PassesOver, WorksOn
  <2> QED
    BY <1>2, <1>3, <2>1 DEF JobsSourced
<1>5. CASE Begins(r, p, m)
  <2>1. PICK j : Pursue(r, j) /\ j.prop = p /\ j.source = m
    BY <1>1, <1>5, BeginsIs
  <2>2. job' = [q \in Agents |-> IF q = r THEN j ELSE job[q]]
    BY <1>2, <2>1 DEF Pursue, JobsOK
  <2>3. SourceOK(r, p, m)
    BY <1>1, <1>5, TriggerSources DEF Begins, NextMessage
  <2>4. SourceOK(r, p, m)'
    BY <1>2, <2>3, SourceKept
  <2>5. ASSUME NEW q \in Agents, NEW s, NEW k, WorksOn(q, s, k)'
        PROVE  SourceOK(q, s, k)'
    <3>1. CASE q = r
      <4>1. s = p /\ k = m
        BY <2>1, <2>2, <2>5, <3>1 DEF WorksOn
      <4> QED
        BY <2>4, <3>1, <4>1
    <3>2. CASE q # r
      <4>1. WorksOn(q, s, k)
        BY <2>2, <2>5, <3>2 DEF WorksOn
      <4> QED
        BY <1>3, <4>1
    <3> QED
      BY <3>1, <3>2
  <2> QED
    BY <1>2, <2>5 DEF JobsSourced
<1> QED
  BY <1>1, <1>4, <1>5

LEMMA RoomStarts == CouncilInit => RoomInv /\ JobsSourced
<1> SUFFICES ASSUME CouncilInit  PROVE RoomInv /\ JobsSourced
  OBVIOUS
<1>1. submissions = {} /\ DOMAIN messages = {}
  BY DEF CouncilInit, SubmissionInit
<1>2. OrderInv
  BY <1>1 DEF OrderInv, AssessedLate, TriagedFirst, ClosedBefore, Assessed,
              Triaged, RowsOf
<1>3. MessagesInv
  BY <1>1 DEF MessagesInv, OneAnnouncement
<1>4. JobsSourced
  BY DEF CouncilInit, JobsSourced, WorksOn, NoJob
<1> QED
  BY <1>2, <1>3, <1>4 DEF RoomInv

LEMMA RoomStep ==
  ASSUME WorkInv, RoomInv, JobsSourced, [CouncilNext]_agentVars
  PROVE  RoomInv' /\ JobsSourced'
<1>0. Grew /\ MessagesInv
  BY WorkStep DEF RoomInv
<1>1. CASE Quiet
  BY <1>0, <1>1, QuietRoom, JobsGoOn DEF Quiet
<1>2. ASSUME NEW r \in Agents, NEW p \in Proposals, Read(r, p)
      PROVE  RoomInv' /\ JobsSourced'
  BY <1>2, ReadSourced
<1>3. ASSUME NEW r \in Agents, ConfirmOfJob(r)  PROVE RoomInv' /\ JobsSourced'
  <2>1. PICK x \in submissions, m \in DOMAIN messages : Confirms(x, r, m)
    BY <1>3, ConfirmOfJobIs
  <2>2. RoomInv'
    BY <2>1, RolesAre, ConfirmedInRoom
  <2> QED
    BY <1>0, <1>3, <2>2, ConfirmKeeps, JobsGoOn
<1>4. ASSUME NEW r \in Agents, Crash(r)  PROVE RoomInv' /\ JobsSourced'
  <2>1. NoRequest
    BY <1>4 DEF Crash, NoRequest, submissionVars, ledgerVars
  <2> QED
    BY <1>0, <1>4, <2>1, CrashKeeps, JobsGoOn, RoomUnchanged
<1> QED
  BY <1>1, <1>2, <1>3, <1>4, StepKinds

-----------------------------------------------------------------------------
(***************************************************************************)
(* The loop of diagnosis and review.                                       *)
(***************************************************************************)

\* An Assessment is confirmed.
Diagnosed(p) == \E x \in Assessed(p) : x.message # 0

Routes(p, n) ==
  n \in RoomOf(p) /\ Shows(n, "triage", "TriageDecision") /\ Decides(n, "route")

FirstRoute(p, n) ==
  Routes(p, n) /\ \A k \in RoomOf(p) : Routes(p, k) => n <= k

Knows(p) == memory["diagnosis"][p]

\* The first Assessments are asked for under the first message that routes the
\* proposal, until one of them is confirmed.
KeyedFirst(p) ==
  \A x \in Assessed(p) :
    \/ Diagnosed(p)
    \/ \E k \in RoomOf(p) : x.key = KeyOf("diagnosis", k) /\ FirstRoute(p, k)

\* A verdict closes every Assessment before the next one is sealed.
ClosedAll(p) ==
  \A x, y \in Assessed(p) : x.card < y.card => Closed(p, x.card)

\* A verdict judges no earlier Assessment than the last one sealed before it.
JudgesLast(p) ==
  \A x \in Verdicts(p), y \in Assessed(p) :
    y.card < x.card => y.card <= Judged(x)

RowsLoop(p) ==
  p \notin unguarded => KeyedFirst(p) /\ ClosedAll(p) /\ JudgesLast(p)

\* The Assessment under review is not closed.
ReviewLoop(p) ==
  p \notin unguarded =>
    \A k : WorksOn("safety_reviewer", p, k) => ~ Closed(p, Shown(k))

\* What the diagnosis knows of a proposal is so; and the messages it passed over
\* without knowing the proposal were overtaken.
KnowsRight(p) ==
  /\ Knows(p).submitted => Diagnosed(p)
  /\ \A k : WorksOn("diagnosis", p, k) => Knows(p).known /\ ~ Knows(p).submitted
  /\ ~ Knows(p).known =>
       \A n \in RoomOf(p) :
         n <= offset["diagnosis"][p] /\ Routes(p, n) => Overtaken(p, Shown(n))

\* An Assessment that is not confirmed is the one the diagnosis is working on,
\* or one a former life of it left behind.
OneOpen(p) ==
  \A x \in Assessed(p) : x.message = 0 =>
    /\ ~ Knows(p).submitted
    /\ \A k : WorksOn("diagnosis", p, k) => x.key = KeyOf("diagnosis", k)

FirstJob(p) ==
  \A k : WorksOn("diagnosis", p, k) => Diagnosed(p) \/ FirstRoute(p, k)

DiagnosisLoop(p) ==
  KnowsRight(p) /\ (p \notin unguarded => OneOpen(p) /\ FirstJob(p))

Loop(p) == RowsLoop(p) /\ ReviewLoop(p) /\ DiagnosisLoop(p)

LoopInv == \A p \in Proposals : Loop(p)

\* What no step takes back.
LEMMA Lasting ==
  ASSUME WorkInv, WorkInv', MessagesInv, Grew, NEW p \in Proposals
  PROVE  /\ Diagnosed(p) => Diagnosed(p)'
         /\ \A s : Closed(p, s) => Closed(p, s)'
         /\ \A s : Overtaken(p, s) => Overtaken(p, s)'
         /\ \A m \in DOMAIN messages :
              /\ m \in RoomOf(p)' <=> m \in RoomOf(p)
              /\ Shown(m)' = Shown(m)
              /\ Routes(p, m)' <=> Routes(p, m)
         /\ \A n : FirstRoute(p, n) => FirstRoute(p, n)'
<1>1. Diagnosed(p) => Diagnosed(p)'
  BY DEF Grew, Became, Diagnosed, Assessed, RowsOf
<1>2. ASSUME NEW s, Closed(p, s)  PROVE Closed(p, s)'
  BY <1>2 DEF Grew, Became, Closed, Verdicts, RowsOf
<1>3. ASSUME NEW s, Overtaken(p, s)  PROVE Overtaken(p, s)'
  BY <1>3 DEF Grew, Overtaken, NewerConfirmed
<1>4. ASSUME NEW m \in DOMAIN messages
      PROVE  /\ m \in RoomOf(p)' <=> m \in RoomOf(p)
             /\ Shown(m)' = Shown(m)
             /\ Routes(p, m)' <=> Routes(p, m)
  <2>1. Posted(m)
    BY DEF MessagesInv
  <2>2. m \in RoomOf(p)' <=> m \in RoomOf(p)
    BY DEF Grew, RoomOf
  <2> QED
    BY <2>1, <2>2, ShownKept DEF Routes
<1>5. ASSUME NEW n, FirstRoute(p, n)  PROVE FirstRoute(p, n)'
  <2>1. n \in DOMAIN messages /\ Routes(p, n)
    BY <1>5 DEF FirstRoute, Routes, RoomOf
  <2>2. /\ messages \in Seq(Messages) /\ messages' \in Seq(Messages)
        /\ Len(messages) \in Nat
    BY DEF WorkInv, SubmissionInv, SubmissionTypeOK
  <2>3. ASSUME NEW k \in RoomOf(p)', Routes(p, k)'  PROVE n <= k
    <3>1. CASE k \in DOMAIN messages
      BY <1>4, <1>5, <2>3, <3>1 DEF FirstRoute
    <3>2. CASE k \notin DOMAIN messages
      BY <2>1, <2>2, <3>2 DEF RoomOf
    <3> QED
      BY <3>1, <3>2
  <2> QED
    BY <1>4, <2>1, <2>3 DEF FirstRoute
<1> QED
  BY <1>1, <1>2, <1>3, <1>4, <1>5

OldAssessed(p) ==
  \A y \in Assessed(p)' : \E x \in Assessed(p) : Became(x, y)

OldVerdicts(p) ==
  \A y \in Verdicts(p)' : \E x \in Verdicts(p) : Became(x, y)

LEMMA VerdictKey ==
  ASSUME WorkInv, MessagesInv, NEW p \in Proposals, NEW x \in Verdicts(p)
  PROVE  \E k \in RoomOf(p) :
           /\ k \in DOMAIN messages /\ x.key = KeyOf("safety_reviewer", k)
           /\ Judged(x) = Shown(k) /\ SourceOK("safety_reviewer", p, k)
<1>1. x \in submissions /\ x.prop = p /\ x.body.type = "Verdict"
  BY DEF Verdicts, RowsOf
<1>2. x.role = "safety_reviewer"
  BY <1>1, WhoseCard DEF Made, Agents
<1>3. PICK k \in RoomOf(p) :
        x.key = KeyOf("safety_reviewer", k) /\ SourceOK("safety_reviewer", p, k)
  BY <1>1, <1>2 DEF MessagesInv, RowSourced, Agents
<1>4. x.key[2] = k
  BY <1>3 DEF KeyOf
<1> QED
  BY <1>3, <1>4 DEF Judged, RoomOf

\* Where no card is sealed, the rows of the loop are as they were.
LEMMA RowsCarry ==
  ASSUME WorkInv, WorkInv', MessagesInv, Grew, NEW p \in Proposals,
         RowsLoop(p), OldAssessed(p), unguarded \subseteq unguarded'
  PROVE  /\ p \notin unguarded' => KeyedFirst(p)' /\ ClosedAll(p)'
         /\ OldVerdicts(p) => RowsLoop(p)'
<1> SUFFICES ASSUME p \notin unguarded'
             PROVE  /\ KeyedFirst(p)' /\ ClosedAll(p)'
                    /\ OldVerdicts(p) => JudgesLast(p)'
  BY DEF RowsLoop
<1>1. KeyedFirst(p) /\ ClosedAll(p) /\ JudgesLast(p)
  BY DEF RowsLoop
<1>2. KeyedFirst(p)'
  <2> SUFFICES ASSUME NEW y \in Assessed(p)', ~ Diagnosed(p)'
               PROVE  \E k \in RoomOf(p)' :
                        y.key = KeyOf("diagnosis", k) /\ FirstRoute(p, k)'
    BY DEF KeyedFirst
  <2>1. PICK x \in Assessed(p) : y.key = x.key
    BY DEF OldAssessed, Became
  <2>2. ~ Diagnosed(p)
    BY Lasting
  <2>3. PICK k \in RoomOf(p) : x.key = KeyOf("diagnosis", k) /\ FirstRoute(p, k)
    BY <1>1, <2>1, <2>2 DEF KeyedFirst
  <2>4. FirstRoute(p, k)'
    BY <2>3, Lasting
  <2> QED
    BY <2>1, <2>3, <2>4, RoomGrows
<1>3. ClosedAll(p)'
  <2> SUFFICES ASSUME NEW x \in Assessed(p)', NEW y \in Assessed(p)',
                      x.card < y.card
               PROVE  Closed(p, x.card)'
    BY DEF ClosedAll
  <2>1. PICK u \in Assessed(p), v \in Assessed(p) :
          x.card = u.card /\ y.card = v.card
    BY DEF OldAssessed, Became
  <2>2. Closed(p, u.card)
    BY <1>1, <2>1 DEF ClosedAll
  <2> QED
    BY <2>1, <2>2, Lasting
<1>4. ASSUME OldVerdicts(p)  PROVE JudgesLast(p)'
  <2> SUFFICES ASSUME NEW x \in Verdicts(p)', NEW y \in Assessed(p)',
                      y.card < x.card
               PROVE  y.card <= Judged(x)'
    BY DEF JudgesLast
  <2>1. PICK u \in Verdicts(p), v \in Assessed(p) :
          x.card = u.card /\ y.card = v.card /\ x.key = u.key
    BY <1>4 DEF OldVerdicts, OldAssessed, Became
  <2>2. PICK k \in DOMAIN messages :
          u.key = KeyOf("safety_reviewer", k) /\ Judged(u) = Shown(k)
    BY VerdictKey
  <2>3. Judged(x)' = Judged(u)
    <3>1. x.key[2] = k
      BY <2>1, <2>2 DEF KeyOf
    <3>2. Shown(k)' = Shown(k)
      BY Lasting
    <3> QED
      BY <2>2, <3>1, <3>2 DEF Judged
  <2> QED
    BY <1>1, <2>1, <2>3 DEF JudgesLast
<1> QED
  BY <1>2, <1>3, <1>4

\* The review goes on, unless a verdict was confirmed.
LEMMA ReviewCarry ==
  ASSUME WorkInv, WorkInv', MessagesInv, JobsSourced, Grew, NEW p \in Proposals,
         ReviewLoop(p), unguarded \subseteq unguarded',
         \A k : WorksOn("safety_reviewer", p, k)' =>
           /\ WorksOn("safety_reviewer", p, k)
           /\ \A s : Closed(p, s)' => Closed(p, s)
  PROVE  ReviewLoop(p)'
<1> SUFFICES ASSUME p \notin unguarded', NEW k, WorksOn("safety_reviewer", p, k)'
             PROVE  ~ Closed(p, Shown(k))'
  BY DEF ReviewLoop
<1>1. WorksOn("safety_reviewer", p, k) /\ ~ Closed(p, Shown(k))
  BY DEF ReviewLoop
<1>2. k \in DOMAIN messages
  BY <1>1 DEF JobsSourced, SourceOK, RoomOf, Agents
<1>3. PICK s : s = Shown(k)
  OBVIOUS
<1>4. Shown(k)' = s
  BY <1>2, <1>3, Lasting
<1>5. ~ Closed(p, s)'
  BY <1>1, <1>3
<1> QED
  BY <1>4, <1>5 DEF Closed

\* So does the diagnosis.
LEMMA DiagnosisCarry ==
  ASSUME WorkInv, WorkInv', MessagesInv, Grew, NEW p \in Proposals,
         DiagnosisLoop(p), unguarded \subseteq unguarded',
         Knows(p)' = Knows(p), offset'["diagnosis"][p] = offset["diagnosis"][p],
         \A k : WorksOn("diagnosis", p, k)' => WorksOn("diagnosis", p, k)
  PROVE  /\ KnowsRight(p)' /\ (p \notin unguarded' => FirstJob(p)')
         /\ OldAssessed(p) => DiagnosisLoop(p)'
<1>1. KnowsRight(p)'
  <2>1. KnowsRight(p)
    BY DEF DiagnosisLoop
  <2>2. Knows(p)'.submitted => Diagnosed(p)'
    BY <2>1, Lasting DEF KnowsRight
  <2>3. ASSUME ~ Knows(p)'.known, NEW n \in RoomOf(p)',
               n <= offset'["diagnosis"][p], Routes(p, n)'
        PROVE  Overtaken(p, Shown(n))'
    <3>1. n \in DOMAIN messages
      <4>1. /\ messages \in Seq(Messages) /\ messages' \in Seq(Messages)
            /\ offset["diagnosis"][p] \in Nat
            /\ offset["diagnosis"][p] <= Len(messages)
        BY DEF WorkInv, AgentsInv, OffsetOK, Agents, SubmissionInv,
               SubmissionTypeOK
      <4>2. n \in Nat \ {0}
        BY <4>1 DEF RoomOf
      <4> QED
        BY <2>3, <4>1, <4>2
    <3>2. PICK s : s = Shown(n)
      OBVIOUS
    <3>3. Overtaken(p, s) /\ Shown(n)' = s
      BY <2>1, <2>3, <3>1, <3>2, Lasting DEF KnowsRight
    <3>4. Overtaken(p, s)'
      BY <3>3, Lasting
    <3> QED
      BY <3>3, <3>4 DEF Overtaken, NewerConfirmed
  <2>4. \A k : WorksOn("diagnosis", p, k)' =>
               Knows(p)'.known /\ ~ Knows(p)'.submitted
    BY <2>1 DEF KnowsRight
  <2> QED
    BY <2>2, <2>3, <2>4 DEF KnowsRight
<1>2. p \notin unguarded' => FirstJob(p)'
  BY Lasting DEF DiagnosisLoop, FirstJob
<1>3. ASSUME OldAssessed(p), p \notin unguarded'  PROVE OneOpen(p)'
  <2>1. OneOpen(p)
    BY <1>3 DEF DiagnosisLoop
  <2> SUFFICES ASSUME NEW y \in Assessed(p)', y.message = 0
               PROVE  /\ ~ Knows(p)'.submitted
                      /\ \A k : WorksOn("diagnosis", p, k)' =>
                           y.key = KeyOf("diagnosis", k)
    BY DEF OneOpen
  <2>2. PICK x \in Assessed(p) : x.key = y.key /\ x.message = 0
    BY <1>3 DEF OldAssessed, Became
  <2> QED
    BY <2>1, <2>2 DEF OneOpen
<1> QED
  BY <1>1, <1>2, <1>3 DEF DiagnosisLoop

LEMMA AsksIs ==
  ASSUME WorkInv, NEW p \in Proposals, NEW r \in Agents \cup {"recorder"},
         NEW m \in 0 .. MaxMessages, NEW body \in Bodies, Asks(p, r, m, body)
  PROVE  /\ r \in Agents => WorksOn(r, p, m)
         /\ messages' = messages
         /\ \E b \in Rows :
              /\ b.prop = p /\ b.key = KeyOf(r, m) /\ b.message = 0
              /\ b.body.type = Made[r]
              /\ submissions' = submissions \cup {b}
              /\ \A x \in RowsOf(p) : x.card < b.card
              /\ Under(p, KeyOf(r, m)) = {}
              /\ state[p] \in Prerequisite(Made[r])
<1>1. /\ r \in Roles /\ KeyOf(r, m) \in Keys /\ SubmissionTypeOK /\ RowsInv
      /\ PrepareCard(p, r, KeyOf(r, m), body)
  BY RolesAre, KeysAre DEF WorkInv, SubmissionInv, Asks
<1>2. PICK b \in Rows :
           /\ b.prop = p /\ b.key = KeyOf(r, m) /\ b.body = body
           /\ b.message = 0
           /\ submissions' = submissions \cup {b}
           /\ \A x \in RowsOf(p) : x.card < b.card
           /\ Under(p, KeyOf(r, m)) = {}
           /\ state[p] \in Prerequisite(body.type)
  BY <1>1, SealedIs
<1>3. r \in Agents => WorksOn(r, p, m) /\ job[r].body = body
  BY DEF Asks, WorksOn, Agents
<1>4. body.type = Made[r]
  <2>1. CASE r \in Agents
    <3>1. JobOK(r, job[r]) /\ job[r].phase # "idle"
      BY <1>3, <2>1 DEF WorkInv, AgentsInv, JobsOK, WorksOn
    <3> QED
      BY <1>3, <2>1, <3>1 DEF JobOK, TaskOK, NoJob
  <2>2. CASE r = "recorder"
    BY <2>2 DEF Asks, Signal, Made, Agents
  <2> QED
    BY <2>1, <2>2
<1>5. messages' = messages
  BY <1>1 DEF PrepareCard
<1> QED
  BY <1>2, <1>3, <1>4, <1>5

\* What of the loop a quiet step leaves alone.
Calm(p) ==
  /\ unguarded \subseteq unguarded' /\ Knows(p)' = Knows(p)
  /\ offset'["diagnosis"][p] = offset["diagnosis"][p]
  /\ \A r \in {"diagnosis", "safety_reviewer"} :
       \A k : WorksOn(r, p, k)' => WorksOn(r, p, k)

\* The diagnosis seals an Assessment: it has none open, so every one before is
\* confirmed, and was closed before the proposal came back.
LEMMA AssessmentSealed ==
  ASSUME WorkInv, WorkInv', RoomInv, JobsSourced, Grew, NEW p \in Proposals,
         Loop(p), Calm(p), NEW m \in 0 .. MaxMessages, NEW body \in Bodies,
         Asks(p, "diagnosis", m, body)
  PROVE  RowsLoop(p)' /\ DiagnosisLoop(p)'
<1>1. MessagesInv /\ WorksOn("diagnosis", p, m) /\ messages' = messages
  BY AsksIs DEF RoomInv, Agents
<1>2. PICK b \in Rows :
        /\ b.prop = p /\ b.key = KeyOf("diagnosis", m) /\ b.message = 0
        /\ b.body.type = "Assessment"
        /\ submissions' = submissions \cup {b}
        /\ \A x \in RowsOf(p) : x.card < b.card
        /\ Under(p, KeyOf("diagnosis", m)) = {}
        /\ state[p] \in Prerequisite("Assessment")
  BY AsksIs DEF Made, Agents
<1>3. /\ Assessed(p)' = Assessed(p) \cup {b} /\ Verdicts(p)' = Verdicts(p)
      /\ \A x \in Assessed(p) \cup Verdicts(p) : x.card < b.card /\ x.card \in Nat
      /\ b.card \in Nat
  BY <1>2 DEF Assessed, Verdicts, RowsOf, WorkInv, SubmissionInv,
              SubmissionTypeOK, Rows
<1>4. KnowsRight(p)' /\ (p \notin unguarded' => FirstJob(p)')
  BY <1>1, DiagnosisCarry DEF Loop, Calm, Agents
<1>5. ~ Knows(p).submitted /\ Knows(p)' = Knows(p)
  BY <1>1 DEF Loop, DiagnosisLoop, KnowsRight, Calm
<1>6. \A k : WorksOn("diagnosis", p, k)' => k = m
  BY <1>1 DEF Calm, WorksOn, Agents
<1> SUFFICES ASSUME p \notin unguarded'
             PROVE  KeyedFirst(p)' /\ ClosedAll(p)' /\ JudgesLast(p)' /\ OneOpen(p)'
  BY <1>4 DEF RowsLoop, DiagnosisLoop
<1>u. p \notin unguarded
  BY DEF Calm
<1>7. /\ KeyedFirst(p) /\ ClosedAll(p) /\ JudgesLast(p)
      /\ OneOpen(p) /\ FirstJob(p)
  BY <1>u DEF Loop, RowsLoop, DiagnosisLoop
<1>8. ASSUME NEW x \in Assessed(p)  PROVE x.message # 0 /\ Closed(p, x.card)
  <2>1. x.message # 0
    <3>1. x.key # KeyOf("diagnosis", m)
      BY <1>2 DEF Under, Assessed
    <3> QED
      BY <1>1, <1>7, <3>1 DEF OneOpen
  <2>2. state[p] \in {"TRIAGED", "CHALLENGED"}
    BY <1>2 DEF Prerequisite
  <2> QED
    BY <2>1, <2>2 DEF RoomInv, OrderInv, ClosedBefore
<1>9. KeyedFirst(p)'
  <2> SUFFICES ASSUME NEW y \in Assessed(p)', ~ Diagnosed(p)'
               PROVE  \E k \in RoomOf(p)' :
                        y.key = KeyOf("diagnosis", k) /\ FirstRoute(p, k)'
    BY DEF KeyedFirst
  <2>1. ~ Diagnosed(p)
    BY <1>1, Lasting
  <2>2. PICK k \in RoomOf(p) :
          y.key = KeyOf("diagnosis", k) /\ FirstRoute(p, k)
    <3>1. CASE y = b
      BY <1>1, <1>2, <1>7, <2>1, <3>1 DEF FirstJob, FirstRoute, Routes
    <3>2. CASE y \in Assessed(p)
      BY <1>7, <2>1, <3>2 DEF KeyedFirst
    <3> QED
      BY <1>3, <3>1, <3>2
  <2>3. FirstRoute(p, k)'
    BY <1>1, <2>2, Lasting
  <2> QED
    BY <2>2, <2>3, RoomGrows
<1>10. ClosedAll(p)'
  <2> SUFFICES ASSUME NEW x \in Assessed(p)', NEW y \in Assessed(p)',
                      x.card < y.card
               PROVE  Closed(p, x.card)'
    BY DEF ClosedAll
  <2>1. x \in Assessed(p)
    BY <1>3
  <2> QED
    BY <1>1, <1>8, <2>1, Lasting
<1>11. JudgesLast(p)'
  <2> SUFFICES ASSUME NEW x \in Verdicts(p)', NEW y \in Assessed(p)',
                      y.card < x.card
               PROVE  y.card <= Judged(x)'
    BY DEF JudgesLast
  <2>1. x \in Verdicts(p) /\ y \in Assessed(p)
    BY <1>3
  <2>2. Judged(x)' = Judged(x)
    BY <1>1 DEF Judged, Shown
  <2> QED
    BY <1>7, <2>1, <2>2 DEF JudgesLast
<1>12. OneOpen(p)'
  BY <1>2, <1>3, <1>5, <1>6, <1>8 DEF OneOpen
<1> QED
  BY <1>9, <1>10, <1>11, <1>12

\* The reviewer seals a verdict: an Assessment behind the one it judges would
\* have come after a verdict that closed it.
LEMMA VerdictSealed ==
  ASSUME WorkInv, WorkInv', RoomInv, JobsSourced, Grew, NEW p \in Proposals,
         Loop(p), Calm(p), NEW m \in 0 .. MaxMessages, NEW body \in Bodies,
         Asks(p, "safety_reviewer", m, body)
  PROVE  RowsLoop(p)' /\ OldAssessed(p)
<1>1. /\ MessagesInv /\ WorksOn("safety_reviewer", p, m) /\ messages' = messages
      /\ unguarded \subseteq unguarded'
  BY AsksIs DEF RoomInv, Agents, Calm
<1>2. PICK b \in Rows :
        /\ b.prop = p /\ b.key = KeyOf("safety_reviewer", m) /\ b.message = 0
        /\ b.body.type = "Verdict"
        /\ submissions' = submissions \cup {b}
  BY AsksIs DEF Made, Agents
<1>3. Assessed(p)' = Assessed(p) /\ Verdicts(p)' = Verdicts(p) \cup {b}
  BY <1>2 DEF Assessed, Verdicts, RowsOf
<1>4. OldAssessed(p)
  BY <1>3 DEF OldAssessed, Became
<1>5. p \notin unguarded' => KeyedFirst(p)' /\ ClosedAll(p)'
  BY <1>1, <1>4, RowsCarry DEF Loop
<1>6. SourceOK("safety_reviewer", p, m)
  BY <1>1 DEF JobsSourced, Agents
<1>7. PICK a \in Assessed(p) : a.card = Shown(m)
  <2>1. /\ m \in RoomOf(p) /\ Posted(m) /\ Shows(m, "diagnosis", "Assessment")
        /\ messages[m].prop = p
    BY <1>1, <1>6 DEF SourceOK, MessagesInv, RoomOf
  <2>2. PICK a \in RowsOf(p) : a.card = Shown(m)
    BY <2>1 DEF Posted
  <2>3. cards[p][a.card].type = a.body.type
    BY DEF RowsOf, WorkInv, SubmissionInv, RowsInv, RowInv
  <2> QED
    BY <2>1, <2>2, <2>3 DEF Shows, Assessed
<1>8. ASSUME p \notin unguarded'  PROVE JudgesLast(p)'
  <2>0. ClosedAll(p) /\ JudgesLast(p) /\ ~ Closed(p, Shown(m))
    BY <1>1, <1>8 DEF Loop, RowsLoop, ReviewLoop
  <2> SUFFICES ASSUME NEW x \in Verdicts(p)', NEW y \in Assessed(p)',
                      y.card < x.card
               PROVE  y.card <= Judged(x)'
    BY DEF JudgesLast
  <2>1. y \in Assessed(p) /\ y.card \in Nat /\ a.card \in Nat
    BY <1>3 DEF Assessed, RowsOf, WorkInv, SubmissionInv, SubmissionTypeOK, Rows
  <2>2. Judged(x)' = Judged(x)
    BY <1>1 DEF Judged, Shown
  <2>3. CASE x \in Verdicts(p)
    BY <2>0, <2>1, <2>2, <2>3 DEF JudgesLast
  <2>4. CASE x = b
    <3>1. Judged(x) = a.card
      BY <1>2, <1>7, <2>4 DEF Judged, KeyOf
    <3>2. ~ (a.card < y.card)
      BY <1>7, <2>0, <2>1 DEF ClosedAll
    <3> QED
      BY <2>1, <2>2, <3>1, <3>2
  <2> QED
    BY <1>3, <2>3, <2>4
<1> QED
  BY <1>1, <1>4, <1>5, <1>8 DEF RowsLoop

LEMMA StaysCalm ==
  ASSUME WorkInv, WorkInv', RoomInv, JobsSourced, Grew, NEW p \in Proposals,
         Loop(p), Calm(p), OldAssessed(p), OldVerdicts(p),
         \A s : Closed(p, s)' => Closed(p, s)
  PROVE  Loop(p)'
<1>1. MessagesInv /\ unguarded \subseteq unguarded'
  BY DEF RoomInv, Calm
<1>2. RowsLoop(p)'
  BY <1>1, RowsCarry DEF Loop
<1>3. ReviewLoop(p)'
  BY <1>1, ReviewCarry DEF Loop, Calm, Agents
<1>4. DiagnosisLoop(p)'
  BY <1>1, DiagnosisCarry DEF Loop, Calm, Agents
<1> QED
  BY <1>2, <1>3, <1>4 DEF Loop

LEMMA SameRows ==
  ASSUME NEW p, submissions' = submissions
  PROVE  /\ OldAssessed(p) /\ OldVerdicts(p)
         /\ \A s : Closed(p, s)' <=> Closed(p, s)
BY DEF OldAssessed, OldVerdicts, Became, Closed, Assessed, Verdicts, RowsOf

LEMMA AskedLoop ==
  ASSUME WorkInv, WorkInv', RoomInv, JobsSourced, Grew, NEW p \in Proposals,
         Loop(p), Calm(p), NEW q \in Proposals,
         NEW r \in Agents \cup {"recorder"}, NEW m \in 0 .. MaxMessages,
         NEW body \in Bodies, Asks(q, r, m, body)
  PROVE  Loop(p)'
<1>1. PICK b \in Rows :
        /\ b.prop = q /\ b.message = 0 /\ b.body.type = Made[r]
        /\ submissions' = submissions \cup {b}
  BY AsksIs
<1>2. \A s : Closed(p, s)' => Closed(p, s)
  BY <1>1 DEF Closed, Verdicts, RowsOf
<1>3. /\ MessagesInv /\ unguarded \subseteq unguarded'
      /\ \A a \in {"diagnosis", "safety_reviewer"} :
           \A k : WorksOn(a, p, k)' => WorksOn(a, p, k)
  BY DEF RoomInv, Calm
<1>4. ReviewLoop(p)'
  BY <1>2, <1>3, ReviewCarry DEF Loop, Agents
<1>5. CASE q = p /\ r = "diagnosis"
  BY <1>4, <1>5, AssessmentSealed DEF Loop
<1>6. CASE q = p /\ r = "safety_reviewer"
  <2>1. RowsLoop(p)' /\ OldAssessed(p)
    BY <1>6, VerdictSealed
  <2>2. DiagnosisLoop(p)'
    BY <1>3, <2>1, DiagnosisCarry DEF Loop, Calm, Agents
  <2> QED
    BY <1>4, <2>1, <2>2 DEF Loop
<1>7. CASE q # p \/ r \notin {"diagnosis", "safety_reviewer"}
  <2>1. /\ q = p => b.body.type # "Assessment" /\ b.body.type # "Verdict"
    BY <1>1, <1>7 DEF Made, Agents
  <2>2. Assessed(p)' = Assessed(p) /\ Verdicts(p)' = Verdicts(p)
    BY <1>1, <2>1 DEF Assessed, Verdicts, RowsOf
  <2>3. OldAssessed(p) /\ OldVerdicts(p)
    BY <2>2 DEF OldAssessed, OldVerdicts, Became
  <2> QED
    BY <1>2, <2>3, StaysCalm
<1> QED
  BY <1>5, <1>6, <1>7

\* What the confirmation of a card changes.
LEMMA ConfirmedLoop ==
  ASSUME WorkInv, WorkInv', Grew, NEW p \in Proposals, NEW x \in submissions,
         NEW role \in Roles, NEW m \in DOMAIN messages, Confirms(x, role, m)
  PROVE  /\ OldAssessed(p) /\ OldVerdicts(p)
         /\ x.body.type # "Verdict" => \A s : Closed(p, s)' => Closed(p, s)
<1>1. \A y \in submissions' : OldRow(y)
  BY ConfirmGrows DEF WorkInv, SubmissionInv
<1>2. OldAssessed(p) /\ OldVerdicts(p)
  BY <1>1 DEF OldRow, Became, OldAssessed, OldVerdicts, Assessed, Verdicts, RowsOf
<1>3. PICK y \in Rows :
        /\ y.body = x.body /\ submissions' = (submissions \ {x}) \cup {y}
  BY ConfirmedIs DEF WorkInv, SubmissionInv
<1>4. x.body.type # "Verdict" => \A s : Closed(p, s)' => Closed(p, s)
  BY <1>3 DEF Closed, Verdicts, RowsOf
<1> QED
  BY <1>2, <1>4

LEMMA QuietLoop ==
  ASSUME WorkInv, WorkInv', RoomInv, JobsSourced, Grew, Quiet,
         NEW p \in Proposals, Loop(p)
  PROVE  Loop(p)'
<1>1. Calm(p)
  <2>1. /\ UNCHANGED unguarded /\ Knows(p)' = Knows(p)
        /\ offset'["diagnosis"][p] = offset["diagnosis"][p]
    BY DEF Quiet, Knows
  <2>2. \A r \in Agents : \A k : WorksOn(r, p, k)' => WorksOn(r, p, k)
    BY WorkGoesOn DEF Quiet
  <2> QED
    BY <2>1, <2>2 DEF Calm, Agents
<1>2. CASE submissions' = submissions
  BY <1>1, <1>2, SameRows, StaysCalm
<1>3. ASSUME NEW q \in Proposals, NEW r \in Agents \cup {"recorder"},
             NEW m \in 0 .. MaxMessages, NEW body \in Bodies, Asks(q, r, m, body)
      PROVE  Loop(p)'
  BY <1>1, <1>3, AskedLoop
<1>4. ASSUME NEW x \in submissions, Announces(x)  PROVE Loop(p)'
  <2>1. x.body.type = "ProposalCard"
    BY <1>4, WhoseCard DEF Announces, Made
  <2>2. PICK m \in DOMAIN messages : Confirms(x, "recorder", m)
    BY <1>4 DEF Announces
  <2> QED
    BY <1>1, <2>1, <2>2, RolesAre, ConfirmedLoop, StaysCalm
<1>5. \/ submissions' = submissions
      \/ \E q \in Proposals, r \in Agents \cup {"recorder"},
            m \in 0 .. MaxMessages, body \in Bodies : Asks(q, r, m, body)
      \/ \E x \in submissions : Announces(x)
  BY DEF Quiet, OneRequest, NoRequest, ShowsCard, Posts, PostCard
<1> QED
  BY <1>2, <1>3, <1>4, <1>5

LEMMA ConfirmLoop ==
  ASSUME WorkInv, WorkInv', RoomInv, JobsSourced, Grew,
         NEW r \in Agents, ConfirmOfJob(r), NEW p \in Proposals, Loop(p)
  PROVE  Loop(p)'
<1>i. PICK i : i = job[r]
  OBVIOUS
<1>1. /\ TaskOK(r, i) /\ i.phase = "confirming" /\ Pursue(r, NoJob)
      /\ UNCHANGED <<offset, unguarded>>
      /\ \/ Learns(r, i.prop, Settled(r, memory[r][i.prop], i.body))
         \/ UNCHANGED memory
  BY <1>i, ConfirmOfJobIs
<1>2. PICK x \in submissions, m \in DOMAIN messages :
        /\ x.prop = i.prop /\ x.key = KeyOf(r, i.source)
        /\ x.body = i.body /\ x.role = r
        /\ Confirms(x, r, m)
  BY <1>i, ConfirmOfJobIs
<1>3. /\ MessagesInv /\ r \in Roles /\ MemoryOK /\ JobsOK /\ SubmissionTypeOK
      /\ RowsInv /\ i.prop \in Proposals /\ i.body \in Bodies
      /\ i.body.type = Made[r]
  BY <1>1, RolesAre DEF RoomInv, WorkInv, AgentsInv, SubmissionInv, TaskOK
<1>4. /\ OldAssessed(p) /\ OldVerdicts(p)
      /\ r # "safety_reviewer" => \A s : Closed(p, s)' => Closed(p, s)
  BY <1>2, <1>3, ConfirmedLoop DEF Made, Agents
<1>5. /\ \A a \in Agents : \A k : WorksOn(a, p, k)' => WorksOn(a, p, k)
      /\ \A k : ~ WorksOn(r, p, k)'
  <2>1. job' = [q \in Agents |-> IF q = r THEN NoJob ELSE job[q]]
    BY <1>1, <1>3 DEF Pursue, JobsOK
  <2> QED
    BY <2>1 DEF WorksOn, NoJob
<1>6. RowsLoop(p)'
  BY <1>1, <1>3, <1>4, RowsCarry DEF Loop
<1>7. ReviewLoop(p)'
  BY <1>1, <1>3, <1>4, <1>5, ReviewCarry DEF Loop, Agents
<1>8. CASE Knows(p)' = Knows(p)
  BY <1>1, <1>3, <1>4, <1>5, <1>6, <1>7, <1>8, DiagnosisCarry DEF Loop, Agents
<1>9. CASE Knows(p)' # Knows(p)
  <2>1. PICK c : c = Settled(r, memory[r][i.prop], i.body)
    OBVIOUS
  <2>2. Learns(r, i.prop, c)
    BY <1>1, <1>9, <2>1 DEF Knows
  <2>3. r = "diagnosis" /\ p = i.prop /\ Knows(p)' = c
    BY <1>3, <1>9, <2>2, ContextChanges DEF Knows, Agents
  <2>4. ContextOK(Knows(p)) /\ c = Settled("diagnosis", Knows(p), i.body)
    BY <1>3, <2>1, <2>3 DEF MemoryOK, Knows
  <2>5. i.body.type = "Assessment" /\ i.body.outcome # "CHALLENGE"
    BY <1>3, <2>3 DEF Made, Bodies, Outcomes
  <2>6. c.known = Knows(p).known
    BY <2>4, <2>5 DEF Settled, ContextOK
  <2>7. Knows(p).known
    <3>1. WorksOn("diagnosis", p, i.source)
      BY <1>i, <1>1, <2>3 DEF WorksOn
    <3> QED
      BY <3>1 DEF Loop, DiagnosisLoop, KnowsRight
  <2>8. PICK y \in submissions' : Became(x, y) /\ y.message = m /\ m # 0
    <3>1. PICK y \in submissions' : Became(x, y) /\ y.message = m
      BY <1>2, <1>3, ConfirmGrows
    <3>2. m # 0
      BY <1>3 DEF SubmissionTypeOK
    <3> QED
      BY <3>1, <3>2
  <2>9. y \in Assessed(p)'
    BY <1>2, <2>3, <2>5, <2>8 DEF Became, Assessed, RowsOf
  <2>10. KnowsRight(p)'
    BY <1>5, <2>3, <2>6, <2>7, <2>8, <2>9 DEF KnowsRight, Diagnosed
  <2>11. FirstJob(p)'
    BY <1>5, <2>3 DEF FirstJob
  <2>12. ASSUME p \notin unguarded  PROVE OneOpen(p)'
    <3> SUFFICES ASSUME NEW z \in Assessed(p)', z.message = 0  PROVE FALSE
      BY DEF OneOpen
    <3>1. PICK w \in Assessed(p) : Became(w, z) /\ w.message = 0
      BY <1>4 DEF OldAssessed, Became
    <3>2. WorksOn("diagnosis", p, i.source) /\ OneOpen(p)
      BY <1>i, <1>1, <2>3, <2>12 DEF WorksOn, Loop, DiagnosisLoop
    <3>3. w.key = x.key /\ w.prop = x.prop /\ w \in submissions
      BY <1>2, <2>3, <3>1, <3>2 DEF OneOpen, Assessed, RowsOf
    <3>4. w = x
      BY <1>3, <3>3 DEF RowsInv, RowsDiffer
    <3>5. z \in submissions' /\ z.prop = y.prop /\ z.key = y.key
      BY <2>8, <3>1, <3>4 DEF Became, Assessed, RowsOf
    <3>6. z = y
      BY <2>8, <3>5 DEF WorkInv, SubmissionInv, RowsInv, RowsDiffer
    <3> QED
      BY <2>8, <3>6
  <2> QED
    BY <1>1, <1>6, <1>7, <2>10, <2>11, <2>12 DEF Loop, DiagnosisLoop
<1> QED
  BY <1>8, <1>9

LEMMA CrashLoop ==
  ASSUME WorkInv, WorkInv', RoomInv, JobsSourced, Grew,
         NEW r \in Agents, Crash(r), NEW p \in Proposals, Loop(p)
  PROVE  Loop(p)'
<1>1. /\ UNCHANGED <<submissionVars, unguarded>> /\ Pursue(r, NoJob)
      /\ memory' = [memory EXCEPT ![r] = [q \in Proposals |-> NoContext]]
      /\ offset' = [offset EXCEPT ![r] = [q \in Proposals |-> 0]]
  BY DEF Crash, Drop
<1>2. /\ MessagesInv /\ JobsOK /\ DOMAIN memory = Agents
      /\ DOMAIN offset = Agents /\ submissions' = submissions
      /\ messages' = messages
  BY <1>1 DEF RoomInv, WorkInv, AgentsInv, MemoryOK, OffsetOK, submissionVars
<1>3. /\ \A a \in Agents : \A k : WorksOn(a, p, k)' => WorksOn(a, p, k)
      /\ \A k : ~ WorksOn(r, p, k)'
  <2>1. job' = [q \in Agents |-> IF q = r THEN NoJob ELSE job[q]]
    BY <1>1, <1>2 DEF Pursue, JobsOK
  <2> QED
    BY <2>1 DEF WorksOn, NoJob
<1>4. /\ OldAssessed(p) /\ OldVerdicts(p)
      /\ \A s : Closed(p, s)' <=> Closed(p, s)
  BY <1>2, SameRows
<1>5. CASE r # "diagnosis"
  <2>1. /\ Knows(p)' = Knows(p)
        /\ offset'["diagnosis"][p] = offset["diagnosis"][p]
    BY <1>1, <1>2, <1>5 DEF Knows, Agents
  <2>2. Calm(p)
    BY <1>1, <1>3, <2>1 DEF Calm, Agents
  <2> QED
    BY <1>4, <2>2, StaysCalm
<1>6. CASE r = "diagnosis"
  <2>1. Knows(p)' = NoContext /\ offset'["diagnosis"][p] = 0
    BY <1>1, <1>2, <1>6 DEF Knows
  <2>2. RowsLoop(p)' /\ ReviewLoop(p)'
    BY <1>1, <1>2, <1>3, <1>4, RowsCarry, ReviewCarry DEF Loop, Agents
  <2>3. KnowsRight(p)'
    <3>1. ~ Knows(p)'.submitted
      BY <2>1 DEF NoContext
    <3>2. \A n \in RoomOf(p)' : ~ (n <= 0)
      BY DEF WorkInv, SubmissionInv, SubmissionTypeOK, RoomOf
    <3> QED
      BY <1>3, <1>6, <2>1, <3>1, <3>2 DEF KnowsRight
  <2>4. FirstJob(p)' /\ OneOpen(p)'
    BY <1>3, <1>6, <2>1 DEF FirstJob, OneOpen, NoContext
  <2> QED
    BY <2>2, <2>3, <2>4 DEF Loop, DiagnosisLoop
<1> QED
  BY <1>5, <1>6

\* A confirmed card overtakes those before it.
LEMMA ConfirmedOvertakes ==
  ASSUME WorkInv, NEW p \in Proposals, NEW x \in RowsOf(p), x.message # 0,
         NEW s, s < x.card
  PROVE  Overtaken(p, s)
<1>1. RowInv(x) /\ x.prop = p
  BY DEF RowsOf, WorkInv, SubmissionInv, RowsInv
<1> QED
  BY <1>1 DEF RowInv, Overtaken, NewerConfirmed

\* A proposal is triaged once, for it is announced once.
LEMMA OneTriage ==
  ASSUME WorkInv, MessagesInv, NEW p \in Proposals,
         NEW x \in Triaged(p), NEW y \in Triaged(p)
  PROVE  x = y
<1>1. ASSUME NEW z \in Triaged(p)
      PROVE  /\ z \in submissions /\ z.prop = p
             /\ \E k \in RoomOf(p) :
                  z.key = KeyOf("triage", k) /\ messages[k].role = "recorder"
  <2>1. z \in submissions /\ z.prop = p /\ z.body.type = "TriageDecision"
    BY DEF Triaged, RowsOf
  <2>2. z.role = "triage"
    BY <2>1, WhoseCard DEF Made, Agents
  <2> QED
    BY <2>1, <2>2 DEF MessagesInv, RowSourced, SourceOK, Agents
<1>2. PICK k \in RoomOf(p) :
        x.key = KeyOf("triage", k) /\ messages[k].role = "recorder"
  BY <1>1
<1>3. PICK n \in RoomOf(p) :
        y.key = KeyOf("triage", n) /\ messages[n].role = "recorder"
  BY <1>1
<1>4. k = n
  BY <1>2, <1>3 DEF MessagesInv, OneAnnouncement, RoomOf
<1> QED
  BY <1>1, <1>2, <1>3, <1>4 DEF WorkInv, SubmissionInv, RowsInv, RowsDiffer

LEMMA RouteShows ==
  ASSUME WorkInv, MessagesInv, NEW p \in Proposals, NEW n, Routes(p, n)
  PROVE  \E x \in Triaged(p) : x.card = Shown(n)
<1>1. /\ n \in DOMAIN messages /\ messages[n].prop = p
      /\ Shows(n, "triage", "TriageDecision")
  BY DEF Routes, RoomOf
<1>2. PICK x \in RowsOf(p) : x.card = Shown(n)
  BY <1>1 DEF MessagesInv, Posted
<1>3. cards[p][x.card].type = x.body.type
  BY DEF RowsOf, WorkInv, SubmissionInv, RowsInv, RowInv
<1> QED
  BY <1>1, <1>2, <1>3 DEF Shows, Triaged

\* The message that routes a proposal the diagnosis does not know is the first
\* one, and no Assessment is confirmed, unless the guard let it pass.
LEMMA RouteTaken ==
  ASSUME WorkInv, RoomInv, NEW p \in Proposals, KnowsRight(p), ~ Knows(p).known,
         NEW m \in DOMAIN messages, NextMessage("diagnosis", p, m),
         Routes(p, m), ~ Overtaken(p, Shown(m))
  PROVE  FirstRoute(p, m) /\ ~ Diagnosed(p)
<1>1. MessagesInv /\ TriagedFirst
  BY DEF RoomInv, OrderInv
<1>2. PICK t \in Triaged(p) : t.card = Shown(m)
  BY <1>1, RouteShows
<1>3. ~ Diagnosed(p)
  <2> SUFFICES ASSUME NEW x \in Assessed(p), x.message # 0  PROVE FALSE
    BY DEF Diagnosed
  <2>1. t.card < x.card /\ x \in RowsOf(p)
    BY <1>1 DEF TriagedFirst, Assessed
  <2> QED
    BY <1>2, <2>1, ConfirmedOvertakes
<1>4. ASSUME NEW k \in RoomOf(p), Routes(p, k)  PROVE m <= k
  <2>1. PICK u \in Triaged(p) : u.card = Shown(k)
    BY <1>1, <1>4, RouteShows
  <2>2. Shown(k) = Shown(m)
    BY <1>1, <1>2, <2>1, OneTriage
  <2>3. ~ (k <= offset["diagnosis"][p])
    BY <1>4, <2>2 DEF KnowsRight
  <2>4. k \in Nat /\ offset["diagnosis"][p] \in Nat
    BY DEF RoomOf, WorkInv, AgentsInv, OffsetOK, SubmissionInv, SubmissionTypeOK,
           Agents
  <2>5. k > offset["diagnosis"][p]
    BY <2>3, <2>4
  <2> QED
    BY <2>5 DEF NextMessage
<1> QED
  BY <1>3, <1>4 DEF FirstRoute


\* Reading a message changes the loop only where it begins a job on it.
LEMMA PassLoop ==
  ASSUME WorkInv, WorkInv', RoomInv, JobsSourced, Grew, NEW p \in Proposals,
         Loop(p), NEW r \in Agents, NEW q \in Proposals,
         NEW m \in DOMAIN messages, NextMessage(r, q, m), ReadsUpTo(r, q, m),
         PassesOver(r, q, m), UNCHANGED submissionVars
  PROVE  Loop(p)'
<1>1. /\ MessagesInv /\ OffsetOK /\ messages \in Seq(Messages)
      /\ UNCHANGED <<memory, job, unguarded>>
      /\ messages' = messages /\ submissions' = submissions
  BY DEF RoomInv, WorkInv, AgentsInv, SubmissionInv, SubmissionTypeOK,
         PassesOver, submissionVars
<1>2. /\ offset'[r][q] = m
      /\ \A a \in Agents, s \in Proposals :
           a # r \/ s # q => offset'[a][s] = offset[a][s]
  BY <1>1, OffsetMoves
<1>3. /\ OldAssessed(p) /\ OldVerdicts(p)
      /\ \A s : Closed(p, s)' <=> Closed(p, s)
  BY <1>1, SameRows
<1>4. /\ Knows(p)' = Knows(p) /\ unguarded' = unguarded
      /\ \A a, k : WorksOn(a, p, k)' <=> WorksOn(a, p, k)
  BY <1>1 DEF Knows, WorksOn
<1>5. CASE r # "diagnosis" \/ q # p
  <2>1. offset'["diagnosis"][p] = offset["diagnosis"][p]
    BY <1>2, <1>5 DEF Agents
  <2>2. Calm(p)
    BY <1>4, <2>1 DEF Calm
  <2> QED
    BY <1>3, <2>2, StaysCalm
<1>6. CASE r = "diagnosis" /\ q = p
  <2>1. RowsLoop(p)' /\ ReviewLoop(p)'
    BY <1>1, <1>3, <1>4, RowsCarry, ReviewCarry DEF Loop, Agents
  <2>2. ASSUME ~ Knows(p).known, NEW n \in RoomOf(p), n <= m, Routes(p, n)
        PROVE  Overtaken(p, Shown(n))
    <3>1. CASE n <= offset["diagnosis"][p]
      BY <2>2, <3>1 DEF Loop, DiagnosisLoop, KnowsRight
    <3>2. CASE ~ (n <= offset["diagnosis"][p])
      <4>1. n \in Nat /\ m \in Nat /\ offset["diagnosis"][p] \in Nat
        BY <1>1 DEF RoomOf, OffsetOK, Agents
      <4>2. n > offset["diagnosis"][p]
        BY <3>2, <4>1
      <4>3. n <= m /\ m <= n
        BY <1>6, <2>2, <4>2 DEF NextMessage
      <4>4. n = m
        BY <4>1, <4>3
      <4>5. DiagnosisTrigger(p, m)
        BY <2>2, <4>4 DEF DiagnosisTrigger, Routes, Knows
      <4> QED
        BY <1>6, <4>4, <4>5 DEF PassesOver, Trigger
    <3> QED
      BY <3>1, <3>2
  <2>3. KnowsRight(p)'
    <3>1. KnowsRight(p)
      BY DEF Loop, DiagnosisLoop
    <3>2. Diagnosed(p)' <=> Diagnosed(p)
      BY <1>1 DEF Diagnosed, Assessed, RowsOf
    <3>3. ASSUME NEW n \in RoomOf(p)', ~ Knows(p).known, n <= m, Routes(p, n)'
          PROVE  Overtaken(p, Shown(n))'
      <4>1. n \in RoomOf(p) /\ n \in DOMAIN messages
        BY <1>1, <3>3 DEF RoomOf
      <4>2. Routes(p, n)
        BY <1>1, <3>3, <4>1, Lasting
      <4>3. PICK s : s = Shown(n)
        OBVIOUS
      <4>4. Overtaken(p, s) /\ Shown(n)' = s
        BY <1>1, <2>2, <3>3, <4>1, <4>2, <4>3, Lasting
      <4>5. Overtaken(p, s)'
        BY <1>1, <4>4, Lasting
      <4> QED
        BY <4>4, <4>5 DEF Overtaken, NewerConfirmed
    <3> QED
      BY <1>2, <1>4, <1>6, <3>1, <3>2, <3>3 DEF KnowsRight
  <2>4. p \notin unguarded' => OneOpen(p)' /\ FirstJob(p)'
    <3>1. p \notin unguarded' => OneOpen(p) /\ FirstJob(p)
      BY <1>4 DEF Loop, DiagnosisLoop
    <3>2. Assessed(p)' = Assessed(p)
      BY <1>1 DEF Assessed, RowsOf
    <3> QED
      BY <1>1, <1>4, <3>1, <3>2, Lasting DEF OneOpen, FirstJob
  <2> QED
    BY <2>1, <2>3, <2>4 DEF Loop, DiagnosisLoop
<1> QED
  BY <1>5, <1>6

\* What an agent begins to work on, guarded.
LEMMA BeginsGuarded ==
  ASSUME NEW r, NEW p, NEW m, Begins(r, p, m)
  PROVE  /\ unguarded \subseteq unguarded' /\ Trigger(r, p, m)
         /\ p \notin unguarded' => (Guarded(r, m) => ~ Overtaken(p, Shown(m)))
BY DEF Begins

\* The diagnosis begins: it forgets what was submitted, for nothing is open that
\* it does not take up again.
LEMMA DiagnosisBegins ==
  ASSUME WorkInv, WorkInv', RoomInv, JobsSourced, Grew, NEW p \in Proposals,
         Loop(p), NEW m \in DOMAIN messages, NextMessage("diagnosis", p, m),
         Begins("diagnosis", p, m), UNCHANGED submissionVars,
         Knows(p)'.known, ~ Knows(p)'.submitted,
         \A k : WorksOn("diagnosis", p, k)' => k = m
  PROVE  DiagnosisLoop(p)'
<1>1. /\ MessagesInv /\ Assessed(p)' = Assessed(p) /\ KnowsRight(p)
      /\ m \in RoomOf(p)
  BY DEF RoomInv, submissionVars, Assessed, RowsOf, Loop, DiagnosisLoop, NextMessage
<1>2. KnowsRight(p)'
  BY DEF KnowsRight
<1> SUFFICES ASSUME p \notin unguarded'  PROVE OneOpen(p)' /\ FirstJob(p)'
  BY <1>2 DEF DiagnosisLoop
<1>3. /\ p \notin unguarded /\ Trigger("diagnosis", p, m)
      /\ Guarded("diagnosis", m) => ~ Overtaken(p, Shown(m))
  BY BeginsGuarded
<1>4. OneOpen(p) /\ KeyedFirst(p)
  BY <1>3 DEF Loop, RowsLoop, DiagnosisLoop
<1>5. CASE ChallengeTrigger(p, m)
  <2>1. Knows(p).submitted
    BY <1>5 DEF ChallengeTrigger, Knows
  <2>2. Diagnosed(p)' /\ \A x \in Assessed(p) : x.message # 0
    BY <1>1, <1>4, <2>1, Lasting DEF KnowsRight, OneOpen
  <2> QED
    BY <1>1, <2>2 DEF OneOpen, FirstJob
<1>6. CASE DiagnosisTrigger(p, m)
  <2>1. Routes(p, m) /\ ~ Knows(p).known
    BY <1>1, <1>6 DEF DiagnosisTrigger, Routes, Knows
  <2>2. ~ Overtaken(p, Shown(m))
    BY <1>3, <2>1 DEF Routes, Guarded, Shows
  <2>3. FirstRoute(p, m) /\ ~ Diagnosed(p)
    BY <1>1, <2>1, <2>2, RouteTaken
  <2>4. ASSUME NEW x \in Assessed(p)  PROVE x.key = KeyOf("diagnosis", m)
    <3>1. PICK k \in RoomOf(p) : x.key = KeyOf("diagnosis", k) /\ FirstRoute(p, k)
      BY <1>4, <2>3 DEF KeyedFirst
    <3>2. k \in Nat /\ m \in Nat /\ k <= m /\ m <= k
      BY <1>1, <2>3, <3>1 DEF FirstRoute, Routes, RoomOf, WorkInv, SubmissionInv,
                              SubmissionTypeOK
    <3> QED
      BY <3>1, <3>2
  <2>5. FirstRoute(p, m)'
    BY <1>1, <2>3, Lasting
  <2> QED
    BY <1>1, <2>4, <2>5 DEF OneOpen, FirstJob
<1> QED
  BY <1>3, <1>5, <1>6 DEF Trigger


LEMMA BeginsLoop ==
  ASSUME WorkInv, WorkInv', RoomInv, JobsSourced, Grew, NEW p \in Proposals,
         Loop(p), NEW r \in Agents, NEW q \in Proposals,
         NEW m \in DOMAIN messages, NextMessage(r, q, m), ReadsUpTo(r, q, m),
         Begins(r, q, m), UNCHANGED submissionVars, job[r].phase = "idle"
  PROVE  Loop(p)'
<1>1. /\ MessagesInv /\ OffsetOK /\ JobsOK /\ MemoryOK /\ messages \in Seq(Messages)
      /\ messages' = messages /\ submissions' = submissions
      /\ unguarded \subseteq unguarded' /\ Trigger(r, q, m)
  BY BeginsGuarded DEF RoomInv, WorkInv, AgentsInv, SubmissionInv,
     SubmissionTypeOK, submissionVars
<1>2. \A a \in Agents, s \in Proposals :
        a # r \/ s # q => offset'[a][s] = offset[a][s]
  BY <1>1, OffsetMoves
<1>3. /\ OldAssessed(p) /\ OldVerdicts(p)
      /\ \A s : Closed(p, s)' <=> Closed(p, s)
  BY <1>1, SameRows
<1>4. PICK j, c :
        /\ c = Learned(r, q, m) /\ Learns(r, q, c) /\ Pursue(r, j)
        /\ j.prop = q /\ j.source = m
  BY BeginsIs
<1>5. /\ memory'[r][q] = c
      /\ \A a \in Agents, s \in Proposals :
           a # r \/ s # q => memory'[a][s] = memory[a][s]
  BY <1>1, <1>4, ContextChanges
<1>6. /\ \A a \in Agents : \A k :
           WorksOn(a, p, k)' => WorksOn(a, p, k) \/ (a = r /\ p = q /\ k = m)
      /\ \A k : WorksOn(r, p, k)' => p = q /\ k = m
  <2>1. job' = [a \in Agents |-> IF a = r THEN j ELSE job[a]]
    BY <1>1, <1>4 DEF Pursue, JobsOK
  <2> QED
    BY <1>4, <2>1 DEF WorksOn
<1>7. RowsLoop(p)'
  BY <1>1, <1>3, RowsCarry DEF Loop
<1>8. CASE q # p \/ r = "triage"
  <2>1. /\ Knows(p)' = Knows(p)
        /\ offset'["diagnosis"][p] = offset["diagnosis"][p]
    BY <1>2, <1>5, <1>8 DEF Knows, Agents
  <2>2. \A a \in {"diagnosis", "safety_reviewer"} :
          \A k : WorksOn(a, p, k)' => WorksOn(a, p, k)
    BY <1>6, <1>8 DEF Agents
  <2>3. Calm(p)
    BY <1>1, <2>1, <2>2 DEF Calm
  <2> QED
    BY <1>3, <2>3, StaysCalm
<1>9. CASE q = p /\ r = "safety_reviewer"
  <2>1. /\ Knows(p)' = Knows(p)
        /\ offset'["diagnosis"][p] = offset["diagnosis"][p]
    BY <1>2, <1>5, <1>9 DEF Knows, Agents
  <2>2. \A k : WorksOn("diagnosis", p, k)' => WorksOn("diagnosis", p, k)
    BY <1>6, <1>9 DEF Agents
  <2>3. DiagnosisLoop(p)'
    BY <1>1, <1>3, <2>1, <2>2, DiagnosisCarry DEF Loop
  <2>4. ReviewLoop(p)'
    <3> SUFFICES ASSUME p \notin unguarded', NEW k,
                        WorksOn("safety_reviewer", p, k)'
                 PROVE  ~ Closed(p, Shown(k))'
      BY DEF ReviewLoop
    <3>1. k = m
      BY <1>6, <1>9
    <3>2. PICK s : s = Shown(m)
      OBVIOUS
    <3>3. ~ Overtaken(p, s)
      <4>1. Guarded("safety_reviewer", m)
        BY DEF Guarded
      <4> QED
        BY <1>9, <3>2, <4>1, BeginsGuarded
    <3>4. ~ Closed(p, s)
      <4> SUFFICES ASSUME NEW u \in Verdicts(p), u.message # 0, s < u.card
                   PROVE  FALSE
        BY DEF Closed
      <4>1. u \in RowsOf(p)
        BY DEF Verdicts
      <4> QED
        BY <3>3, <4>1, ConfirmedOvertakes
    <3>5. ~ Closed(p, s)' /\ Shown(k)' = s
      BY <1>1, <1>3, <3>1, <3>2, <3>4, Lasting
    <3> QED
      BY <3>5 DEF Closed
  <2> QED
    BY <1>7, <2>3, <2>4 DEF Loop
<1>10. CASE q = p /\ r = "diagnosis"
  <2>1. ReviewLoop(p)'
    BY <1>1, <1>3, <1>6, <1>10, ReviewCarry DEF Loop, Agents
  <2>2. Knows(p)'.known /\ ~ Knows(p)'.submitted
    BY <1>4, <1>5, <1>10 DEF Knows, Learned, Context
  <2>3. DiagnosisLoop(p)'
    BY <1>6, <1>10, <2>2, DiagnosisBegins
  <2> QED
    BY <1>7, <2>1, <2>3 DEF Loop
<1> QED
  BY <1>8, <1>9, <1>10 DEF Agents

LEMMA ReadLoop ==
  ASSUME WorkInv, WorkInv', RoomInv, JobsSourced, Grew, NEW p \in Proposals,
         Loop(p), NEW r \in Agents, NEW q \in Proposals, Read(r, q)
  PROVE  Loop(p)'
<1>1. PICK m \in DOMAIN messages :
        /\ NextMessage(r, q, m) /\ ReadsUpTo(r, q, m)
        /\ Begins(r, q, m) \/ PassesOver(r, q, m)
        /\ UNCHANGED submissionVars /\ job[r].phase = "idle"
  BY ReadIs
<1> QED
  BY <1>1, PassLoop, BeginsLoop

LEMMA LoopStarts == CouncilInit => LoopInv
<1> SUFFICES ASSUME CouncilInit, NEW p \in Proposals  PROVE Loop(p)
  BY DEF LoopInv
<1>1. /\ Assessed(p) = {} /\ Verdicts(p) = {} /\ RoomOf(p) = {}
  BY DEF CouncilInit, SubmissionInit, Assessed, Verdicts, RowsOf, RoomOf
<1>2. \A r \in Agents : \A k : ~ WorksOn(r, p, k)
  BY DEF CouncilInit, WorksOn, NoJob
<1>3. Knows(p) = NoContext
  BY DEF CouncilInit, Knows, Agents
<1>4. RowsLoop(p)
  BY <1>1 DEF RowsLoop, KeyedFirst, ClosedAll, JudgesLast
<1>5. ReviewLoop(p)
  BY <1>2 DEF ReviewLoop, Agents
<1>6. DiagnosisLoop(p)
  BY <1>1, <1>2, <1>3 DEF DiagnosisLoop, KnowsRight, OneOpen, FirstJob, NoContext,
                          Agents
<1> QED
  BY <1>4, <1>5, <1>6 DEF Loop

LEMMA LoopStep ==
  ASSUME WorkInv, RoomInv, JobsSourced, LoopInv, [CouncilNext]_agentVars
  PROVE  LoopInv'
<1> SUFFICES ASSUME NEW p \in Proposals  PROVE Loop(p)'
  BY DEF LoopInv
<1>1. WorkInv' /\ Grew /\ Loop(p)
  BY WorkStep DEF LoopInv
<1> QED
  BY <1>1, StepKinds, QuietLoop, ReadLoop, ConfirmLoop, CrashLoop

\* The invariant of the council: what the agents work on, what they may still
\* challenge, what the rooms show and what the loop has come to.
CouncilInv == WorkInv /\ CountInv /\ RoomInv /\ JobsSourced /\ LoopInv

\* CouncilAgents keeps it, for every number of proposals, messages, deaths and
\* lost requests.
THEOREM CouncilInvariant == CouncilSpec => []CouncilInv
<1>1. CouncilInit => CouncilInv
  BY CouncilStarts, CountStarts, RoomStarts, LoopStarts DEF CouncilInv
<1>2. CouncilInv /\ [CouncilNext]_agentVars => CouncilInv'
  BY WorkStep, CountStep, RoomStep, LoopStep DEF CouncilInv
<1> QED
  BY <1>1, <1>2, PTL DEF CouncilSpec

\* However the reviewer and the diagnosis overlap, die and read the room again,
\* a confirmed verdict judges the Assessment that stands, where no stale card
\* was let pass for want of an answer.
THEOREM VerdictCorrect == CouncilSpec => []VerdictJudgesLatestAssessment
<1>1. CouncilInv => VerdictJudgesLatestAssessment
  <2> SUFFICES ASSUME CouncilInv, NEW p \in Proposals \ unguarded,
                      NEW x \in Verdicts(p), NEW y \in RowsOf(p),
                      y.body.type = "Assessment", y.card < x.card
               PROVE  y.card <= Judged(x)
    BY DEF VerdictJudgesLatestAssessment
  <2>1. y \in Assessed(p)
    BY DEF Assessed
  <2> QED
    BY <2>1 DEF CouncilInv, LoopInv, Loop, RowsLoop, JudgesLast
<1> QED
  BY <1>1, CouncilInvariant, PTL


=============================================================================
