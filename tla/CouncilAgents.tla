---------------------------- MODULE CouncilAgents ----------------------------
(***************************************************************************)
(* The three agents that turn a signal into a reviewed diagnosis:          *)
(* agents/rowan (triage), agents/mercer (diagnosis) and agents/verity      *)
(* (safety_reviewer) on shared/local_room_runtime.py, as clients of the    *)
(* submission protocol.                                                    *)
(*                                                                         *)
(* Every agent polls the Council Chambers and handles their messages one   *)
(* by one.  A message with the card it waits for starts a submission:      *)
(* prepare (a 409 is tried again, for the sender may not have confirmed    *)
(* yet), post, confirm.  The idempotency key is derived from the message,  *)
(* so a message read twice cannot make two cards.  What an agent knows of  *)
(* a proposal is in its memory; a message that fails is not read again,    *)
(* and a restarted agent reads every room from its first message.          *)
(*                                                                         *)
(* An agent polls the rooms it participates in: whoever hands it a card    *)
(* adds it to the room in the request before the one that posts the card.  *)
(***************************************************************************)
EXTENDS CardSubmission

CONSTANTS
  ReviewMode,     \* "local": run_local_safety_review decides;
                  \* "tool": any decision handle_submit_verdict accepts
  Impacts,        \* the impacts the evidence can show
  MaxAttempts,    \* of a prepare request that is answered 409
  MaxChallenges,  \* after which the reviewer escalates
  MaxCrashes,     \* bound: deaths of agents
  MaxLosses       \* bound: requests or answers of agents that are lost

Agents == {"triage", "diagnosis", "safety_reviewer"}

\* The room message id and the source card give the key; here the message's
\* place in the room stands for both.
KeyOf(r, m) == <<r, m>>

ASSUME CouncilAssumption ==
  /\ ReviewMode \in {"local", "tool"}
  /\ Impacts \subseteq Levels
  /\ {MaxChallenges, MaxCrashes, MaxLosses} \subseteq Nat
  /\ MaxAttempts \in [Agents -> Nat \ {0}]
  /\ Proposals # {}
  /\ {KeyOf(r, m) : r \in Agents \cup {"recorder"}, m \in 0 .. MaxMessages}
       \subseteq Keys
  /\ (0 .. MaxMessages) \X (0 .. MaxCrashes) \subseteq Takes

VARIABLES
  members,   \* proposal_room_participants
  offset,    \* how far each agent has read each room
  memory,    \* _trusted_context of each agent
  job,       \* the submission each agent is working on
  gaveUp,    \* proposals on which an agent dropped a submission
  unguarded, \* proposals of which a stale card was let pass unseen
  crashes, losses

councilVars ==
  <<members, offset, memory, job, gaveUp, unguarded, crashes, losses>>
agentVars == <<submissionVars, councilVars>>

\* `source` is the message that started the work, `revision` that of the
\* Assessment, `challenges` the reviewer's challenge_count.
NoContext == [known |-> FALSE, submitted |-> FALSE, revision |-> 0,
              challenges |-> 0]

Context(revision, challenges) ==
  [known |-> TRUE, submitted |-> FALSE, revision |-> revision,
   challenges |-> challenges]

NoJob == [phase |-> "idle"]

CouncilTypeOK ==
  /\ SubmissionTypeOK
  /\ members \subseteq (Proposals \X Roles)
  /\ offset \in [Agents -> [Proposals -> 0 .. MaxMessages]]
  /\ \A r \in Agents : job[r].phase \in {"idle", "preparing", "posting", "confirming"}
  /\ gaveUp \subseteq Proposals /\ unguarded \subseteq Proposals
  /\ crashes \in 0 .. MaxCrashes /\ losses \in 0 .. MaxLosses

CouncilInit ==
  /\ SubmissionInit
  /\ members = {}
  /\ offset = [r \in Agents |-> [p \in Proposals |-> 0]]
  /\ memory = [r \in Agents |-> [p \in Proposals |-> NoContext]]
  /\ job = [r \in Agents |-> NoJob]
  /\ gaveUp = {} /\ unguarded = {}
  /\ crashes = 0 /\ losses = 0

-----------------------------------------------------------------------------
(***************************************************************************)
(* The recorder announces a signal.                                        *)
(***************************************************************************)

Signal == [type |-> "ProposalCard", outcome |-> "none", level |-> "none",
           take |-> <<0, 0>>]

\* The messages of a proposal's Council Chamber: the recorder and the agents post
\* its cards nowhere else.
RoomOf(p) == {m \in DOMAIN messages : messages[m].prop = p}

\* add_participant: adding a participant again changes nothing.
Invite(p, invited) == members' = members \cup ({p} \X invited)

Announce(p) ==
  /\ \/ /\ PrepareCard(p, "recorder", KeyOf("recorder", 0), Signal)
        /\ UNCHANGED members
     \/ \E x \in Under(p, KeyOf("recorder", 0)) :
          \/ /\ chamber[p] = NoRoom
             /\ \E r \in Chambers : CreateRoom(r, p)
             /\ UNCHANGED members
          \/ /\ \A m \in RoomOf(p) : x.card \notin messages[m].cards
             /\ Invite(p, {"triage"})
             /\ PostCard(p, "recorder", x.card, FALSE, chamber[p])
          \/ \E m \in DOMAIN messages : ConfirmCard(x, "recorder", m, chamber[p])
                                        /\ UNCHANGED members
  /\ UNCHANGED <<offset, memory, job, gaveUp, unguarded, crashes, losses>>

-----------------------------------------------------------------------------
(***************************************************************************)
(* Reading the rooms.                                                      *)
(***************************************************************************)

\* GET /rooms names the rooms an agent was recruited into.
Participates(r, p) == <<p, r>> \in members

NextMessage(r, p, m) ==
  /\ m \in RoomOf(p) /\ m > offset[r][p]
  /\ \A n \in RoomOf(p) : n > offset[r][p] => m <= n

\* The card a message shows.
Shown(m) == CHOOSE s \in messages[m].cards : \A t \in messages[m].cards : t <= s

\* should_skip_stale_card: a later card of the proposal has been confirmed.
Overtaken(p, s) == NewerConfirmed(p, s)

\* The revision an Assessment carries.
RevisionOf(p, s) ==
  CHOOSE n \in 0 .. MaxMessages :
    \E x \in RowsOf(p) : x.card = s /\ x.body.take[1] = n

Shows(m, role, t) ==
  messages[m].role = role /\ cards[messages[m].prop][Shown(m)].type = t

Decides(m, o) == cards[messages[m].prop][Shown(m)].outcome = o

\* rowan: a ProposalCard of the recorder.
TriageTrigger(p, m) == Shows(m, "recorder", "ProposalCard")

\* mercer: a TriageDecision that routes, for a proposal it does not know.
DiagnosisTrigger(p, m) ==
  /\ Shows(m, "triage", "TriageDecision") /\ Decides(m, "route")
  /\ ~ memory["diagnosis"][p].known

\* mercer: a challenge of an Assessment it knows to be submitted.
ChallengeTrigger(p, m) ==
  /\ Shows(m, "safety_reviewer", "Verdict") /\ Decides(m, "CHALLENGE")
  /\ memory["diagnosis"][p].submitted

\* Mutant: a proposal is reviewed once.
ReviewTrigger_Once(p, m) ==
  Shows(m, "diagnosis", "Assessment") /\ ~ memory["safety_reviewer"][p].known

\* verity: the Assessment of a proposal it does not know, or a later revision
\* while its last verdict was no terminal one.
ReviewTrigger(p, m) ==
  LET known == memory["safety_reviewer"][p] IN
  /\ Shows(m, "diagnosis", "Assessment")
  /\ \/ ~ known.known
     \/ ~ known.submitted /\ RevisionOf(p, Shown(m)) > known.revision

\* The cards whose staleness an agent checks before it works on them; mercer
\* does not for a challenge.
Guarded(r, m) == ~ (r = "diagnosis" /\ Shows(m, "safety_reviewer", "Verdict"))

Trigger(r, p, m) ==
  CASE r = "triage"          -> TriageTrigger(p, m)
    [] r = "diagnosis"       -> DiagnosisTrigger(p, m) \/ ChallengeTrigger(p, m)
    [] r = "safety_reviewer" -> ReviewTrigger(p, m)

\* The wording of a body: another process of the agent may word it anew, for
\* it holds a model's reasoning or the age of the evidence.
Wordings == 0 .. crashes

Body(t, o, l, revision, w) ==
  [type |-> t, outcome |-> o, level |-> l, take |-> <<revision, w>>]

\* What the deterministic cross-check finds: issues, or issues that a revision
\* capped by the policy leaves to a human's judgement of the plan.
Findings(c) ==
  {f \in [issues : BOOLEAN, capped : BOOLEAN] :
     f.capped => c.challenges > 0 /\ c.revision > 1}

\* The decision run_local_safety_review comes to.
LocalDecision(c, f) ==
  CASE f.issues /\ c.challenges < 1               -> "CHALLENGE"
    [] f.issues /\ c.challenges > 0 /\ ~ f.capped -> "NEEDS_HUMAN"
    [] OTHER                                      -> "CONFIRM"

\* What handle_submit_verdict makes of a decision: out of challenges the
\* reviewer calls a human, and issues are never confirmed unchallenged.
Enforced(c, f, o) ==
  CASE c.challenges >= MaxChallenges -> "NEEDS_HUMAN"
    [] c.challenges < MaxChallenges /\ f.issues /\ ~ f.capped /\ o = "CONFIRM"
                                     -> "CHALLENGE"
    [] OTHER                         -> o

\* The decisions the reviewer may submit.
Decisions(c) ==
  UNION {{Enforced(c, f, o) : o \in IF ReviewMode = "local"
                                   THEN {LocalDecision(c, f)}
                                   ELSE Outcomes("Verdict")} : f \in Findings(c)}

\* What each agent makes of its trigger: what it then knows, and the body it
\* will submit.
Learned(r, p, m) ==
  CASE r = "triage" -> NoContext
    [] r = "diagnosis" -> Context(memory[r][p].revision + 1, 0)
    [] r = "safety_reviewer" ->
         Context(RevisionOf(p, Shown(m)), memory[r][p].challenges)

BodiesOf(r, c) ==
  CASE r = "triage" ->
         {Body("TriageDecision", o, "none", 0, w) :
            o \in Outcomes("TriageDecision"), w \in Wordings}
    [] r = "diagnosis" ->
         {Body("Assessment", "none", l, c.revision, w) :
            l \in Impacts, w \in Wordings}
    [] r = "safety_reviewer" ->
         {Body("Verdict", o, "none", 0, w) : o \in Decisions(c), w \in Wordings}

Take(r, p, m) ==
  \E body \in BodiesOf(r, Learned(r, p, m)) :
    /\ memory' = [memory EXCEPT ![r][p] = Learned(r, p, m)]
    /\ job' = [job EXCEPT ![r] =
                 [phase |-> "preparing", prop |-> p, source |-> m, body |-> body,
                  attempts |-> 0, card |-> 0, message |-> 0]]

\* The stale-card guard is fail-open: when its request is lost, it lets pass.
Read(r, p) ==
  /\ job[r].phase = "idle"
  /\ Participates(r, p)
  /\ \E m \in DOMAIN messages :
       /\ NextMessage(r, p, m)
       /\ offset' = [offset EXCEPT ![r][p] = m]
       /\ \/ /\ Trigger(r, p, m)
             /\ Guarded(r, m) => ~ Overtaken(p, Shown(m))
             /\ Take(r, p, m)
             /\ UNCHANGED <<unguarded, losses>>
          \/ /\ Trigger(r, p, m)
             /\ Guarded(r, m) /\ Overtaken(p, Shown(m))
             /\ losses < MaxLosses /\ losses' = losses + 1
             /\ unguarded' = unguarded \cup {p}
             /\ Take(r, p, m)
          \/ /\ Trigger(r, p, m) => Guarded(r, m) /\ Overtaken(p, Shown(m))
             /\ UNCHANGED <<memory, job, unguarded, losses>>
  /\ UNCHANGED <<submissionVars, members, gaveUp, crashes>>

-----------------------------------------------------------------------------
(***************************************************************************)
(* The submission: SubmissionClient.prepare, ProposalRoomClient            *)
(* .post_message, SubmissionClient.confirm.  A request or an answer that   *)
(* stays lost after the client's retries ends it; so does a refusal.       *)
(***************************************************************************)

\* The room an agent works in is the one it read the message in.
RoomOfJob(r) == messages[job[r].source].room

Row(r) == CHOOSE x \in RowsOf(job[r].prop) : x.card = job[r].card

Pursue(r, j) == job' = [job EXCEPT ![r] = j]

Drop(r) == Pursue(r, NoJob)

\* The gateway took a request of r: its agent goes on, or never learns of it.
Answered(r, j) ==
  \/ Pursue(r, j) /\ UNCHANGED losses
  \/ losses < MaxLosses /\ losses' = losses + 1 /\ Drop(r)

SealOfJob(r) ==
  LET j == job[r] IN
  /\ j.phase = "preparing"
  /\ PrepareCard(j.prop, r, KeyOf(r, j.source), j.body)
  /\ Answered(r, [j EXCEPT !.phase = "posting",
                           !.card = Len(cards[j.prop]) + 1])
  /\ UNCHANGED <<members, offset, memory, gaveUp, unguarded, crashes>>

\* The card was sealed by an earlier life of the agent.
SealedBefore(r) ==
  LET j == job[r] IN
  /\ j.phase = "preparing"
  /\ \E x \in Under(j.prop, KeyOf(r, j.source)) :
       /\ x.body = j.body
       /\ Pursue(r, [j EXCEPT !.phase = "posting", !.card = x.card])
  /\ UNCHANGED <<submissionVars, members, offset, memory, gaveUp, unguarded, crashes, losses>>

GivesUp(r) == Drop(r) /\ gaveUp' = gaveUp \cup {job[r].prop}

\* 409: the state does not allow the card, or its key holds another body.
SealRefused(r) ==
  LET j == job[r]  tried == j.attempts + 1 IN
  /\ j.phase = "preparing"
  /\ \/ \E x \in Under(j.prop, KeyOf(r, j.source)) : x.body # j.body
     \/ /\ Under(j.prop, KeyOf(r, j.source)) = {}
        /\ ~ Allowed(j.prop, j.body.type)
  /\ \/ tried < MaxAttempts[r] /\ Pursue(r, [j EXCEPT !.attempts = tried])
                             /\ UNCHANGED gaveUp
     \/ tried = MaxAttempts[r] /\ GivesUp(r)
  /\ UNCHANGED <<submissionVars, members, offset, memory, unguarded, crashes, losses>>

\* Whom each agent hands its card to.
InvitedBy(r) ==
  LET o == job[r].body.outcome IN
  CASE r = "triage"          -> IF o = "route" THEN {"diagnosis"} ELSE {}
    [] r = "diagnosis"       -> {"safety_reviewer"}
    [] r = "safety_reviewer" -> IF o = "CONFIRM" THEN {"commander"} ELSE {}

\* They are added to the room, then the card is posted; `tagged`: with its
\* card_hash in the metadata of the message.
Post(r, tagged) ==
  LET j == job[r] IN
  /\ j.phase = "posting"
  /\ Invite(j.prop, InvitedBy(r))
  /\ PostCard(j.prop, r, j.card, tagged, RoomOfJob(r))
  /\ Answered(r, [j EXCEPT !.phase = "confirming",
                           !.message = Len(messages) + 1])
  /\ UNCHANGED <<offset, memory, gaveUp, unguarded, crashes>>

\* The participants are added and the message is lost.
InviteOnly(r) ==
  /\ job[r].phase = "posting"
  /\ Invite(job[r].prop, InvitedBy(r))
  /\ losses < MaxLosses /\ losses' = losses + 1
  /\ Drop(r)
  /\ UNCHANGED <<submissionVars, offset, memory, gaveUp, unguarded, crashes>>

\* Mutant: a challenge does not count.
Settled_Uncounted(r, c, body) == [c EXCEPT !.submitted = body.outcome # "CHALLENGE"]

\* What an agent remembers of a submission that succeeded.  A challenge leaves
\* the reviewer's context open for the next revision.
Settled(r, c, body) ==
  IF r = "triage" THEN c
  ELSE IF body.outcome = "CHALLENGE" THEN [c EXCEPT !.challenges = @ + 1]
  ELSE [c EXCEPT !.submitted = TRUE]

ConfirmOfJob(r) ==
  LET j == job[r] IN
  /\ j.phase = "confirming"
  /\ ConfirmCard(Row(r), r, j.message, RoomOfJob(r))
  /\ Drop(r)
  /\ \/ /\ memory' = [memory EXCEPT ![r][j.prop] = Settled(r, @, j.body)]
        /\ UNCHANGED losses
     \/ losses < MaxLosses /\ losses' = losses + 1 /\ UNCHANGED memory
  /\ UNCHANGED <<members, offset, gaveUp, unguarded, crashes>>

\* The message is fresh, so what can fail is the card's own standing.
ConfirmRefused(r) ==
  LET j == job[r]  c == cards[j.prop][j.card] IN
  /\ j.phase = "confirming"
  /\ c.published \/ ~ Allowed(j.prop, c.type) \/ NewerConfirmed(j.prop, j.card)
  /\ GivesUp(r)
  /\ UNCHANGED <<submissionVars, members, offset, memory, unguarded, crashes, losses>>

\* A request that never arrives.
Lose(r) ==
  /\ job[r].phase # "idle"
  /\ losses < MaxLosses /\ losses' = losses + 1
  /\ Drop(r)
  /\ UNCHANGED <<submissionVars, members, offset, memory, gaveUp, unguarded, crashes>>

\* The process of an agent dies and is started again by its supervisor.
Crash(r) ==
  /\ crashes < MaxCrashes /\ crashes' = crashes + 1
  /\ Drop(r)
  /\ memory' = [memory EXCEPT ![r] = [p \in Proposals |-> NoContext]]
  /\ offset' = [offset EXCEPT ![r] = [p \in Proposals |-> 0]]
  /\ UNCHANGED <<submissionVars, members, gaveUp, unguarded, losses>>

-----------------------------------------------------------------------------

\* Rowan, like the recorder, names no card_hash in the metadata of its message.
Submission(r, tagged) ==
  \/ SealOfJob(r) \/ SealedBefore(r) \/ SealRefused(r)
  \/ Post(r, tagged)
  \/ ConfirmOfJob(r) \/ ConfirmRefused(r)

SubmitTriageDecision == Submission("triage", FALSE)
SubmitAssessment == Submission("diagnosis", TRUE)
SubmitVerdict == Submission("safety_reviewer", TRUE)

Working(r) ==
  \/ \E p \in Proposals : Read(r, p)
  \/ r = "triage" /\ SubmitTriageDecision
  \/ r = "diagnosis" /\ SubmitAssessment
  \/ r = "safety_reviewer" /\ SubmitVerdict

CouncilNext ==
  \/ \E p \in Proposals : Announce(p)
  \/ \E r \in Agents : Working(r) \/ Lose(r) \/ InviteOnly(r) \/ Crash(r)

CouncilSpec == CouncilInit /\ [][CouncilNext]_agentVars

\* The runtime polls for ever and bounds every request.
FairCouncilSpec == CouncilSpec /\ \A r \in Agents : WF_agentVars(Working(r))

-----------------------------------------------------------------------------

Verdicts(p) == {x \in RowsOf(p) : x.body.type = "Verdict"}

\* The review ends: whatever is reworded, lost, repeated and restarted, one life
\* of the reviewer challenges a diagnosis at most MaxChallenges times before it
\* calls a human, and once when it works without a model ("Max challenges (2)
\* reached").
ChallengesAreBounded ==
  \A p \in Proposals :
    Cardinality({x \in Verdicts(p) : x.body.outcome = "CHALLENGE" /\ x.message # 0})
      <= (IF ReviewMode = "local" THEN 1 ELSE MaxChallenges) * (crashes + 1) + losses

\* The Assessment a verdict answers.
Judged(x) == Shown(x.key[2])

\* A confirmed verdict judges the Assessment that stands: no later one was
\* confirmed before it, although the reviewer reads the room and answers while
\* the diagnosis goes on; unless should_skip_stale_card, which is fail-open, let
\* an overtaken card of the proposal pass.
VerdictJudgesLatestAssessment ==
  \A p \in Proposals \ unguarded : \A x \in Verdicts(p) : \A y \in RowsOf(p) :
    /\ x.message # 0 /\ y.message # 0 /\ y.body.type = "Assessment"
    /\ y.card < x.card
    => y.card <= Judged(x)

Reviewed == {"SUPPRESSED", "REVIEWED", "ESCALATED_HUMAN", "CLOSED_FALSE_ALARM"}

Announced(p) == \E m \in RoomOf(p) : messages[m].role = "recorder"

\* A signal in the room comes to a decision, unless a process died, a request
\* stayed lost or an agent ran out of attempts.
SignalIsSettled ==
  \A p \in Proposals :
    Announced(p) ~> \/ state[p] \in Reviewed
                    \/ crashes + losses > 0 \/ gaveUp # {}

=============================================================================
