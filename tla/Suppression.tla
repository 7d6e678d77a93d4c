----------------------------- MODULE Suppression -----------------------------
(***************************************************************************)
(* Bounded suppression learning: the suppression rules of the gateway      *)
(* (gateway/app.py), the triage agent that spends them (agents/rowan), and *)
(* the two places that learn a rule from a false alarm (the approval page  *)
(* and agents/verity through the gateway).  POST /demo/reset               *)
(* (gateway/routes/demo_cleanup.py) deletes the rules learned from demo    *)
(* proposals; ids are never given out twice.                               *)
(*                                                                         *)
(* A triage agent looks a rule up and increments its count in two          *)
(* requests.  Several agents may do so at once: a redeployed triage agent  *)
(* overlaps the old one, and the gateway's own key may increment too.      *)
(***************************************************************************)
EXTENDS Naturals, Sequences, FiniteSets

CONSTANTS
  Signals,          \* the signals announced
  Prints,           \* their fingerprints
  PrintOf,          \* the fingerprint of each
  Urgent,           \* the signals of severity P1 or relevant to security
  Triagers,         \* triage processes
  MaxSuppressions,  \* max_suppressions of a rule
  MaxRules,         \* bound: rules learned
  MaxLostAnswers    \* bound: requests that fail or stay unanswered

ASSUME SuppressionAssumption ==
  /\ PrintOf \in [Signals -> Prints]
  /\ Urgent \subseteq Signals
  /\ MaxSuppressions \in Nat \ {0} /\ MaxRules \in Nat /\ MaxLostAnswers \in Nat

VARIABLES
  rules,     \* suppression_rules ever inserted, by id: fingerprint, the kind of
             \* proposal it was learned from, count
  deleted,   \* the ids of those a reset deleted
  work,      \* the signal each worker classifies, and the rule it found
  decision,  \* what triage decided on each signal
  lostAnswers

suppressionVars == <<rules, deleted, work, decision, lostAnswers>>

Sources == {"demo", "real"}

NoWork == [stage |-> "idle"]
Verdict(v) == [verdict |-> v, rule |-> 0]
SuppressedUnder(i) == [verdict |-> "ruled", rule |-> i]

SuppressionTypeOK ==
  /\ rules \in Seq([print : Prints, source : Sources, count : 0 .. MaxSuppressions])
  /\ deleted \subseteq DOMAIN rules
  /\ \A w \in Triagers : work[w].stage \in {"idle", "lookup", "spend"}
  /\ decision \in [Signals -> {Verdict(v) : v \in {"none", "route", "unruled"}}
                               \cup {SuppressedUnder(i) : i \in DOMAIN rules}]
  /\ lostAnswers \in 0 .. MaxLostAnswers

SuppressionInit ==
  /\ rules = <<>> /\ deleted = {}
  /\ work = [w \in Triagers |-> NoWork]
  /\ decision = [x \in Signals |-> Verdict("none")]
  /\ lostAnswers = 0

-----------------------------------------------------------------------------

\* Mutant: an exhausted rule does not stand in the way of a new one.
HasRule_Live(f) ==
  \E i \in DOMAIN rules \ deleted :
    rules[i].print = f /\ rules[i].count < MaxSuppressions

\* Nothing makes a rule inactive: an exhausted one stays in the way of another
\* until it is deleted.
HasRule(f) == \E i \in DOMAIN rules \ deleted : rules[i].print = f

\* A false alarm: POST /suppression-rules, or the decision on the page.  The
\* source is demo when a reset finds its proposal among the DAO-PROP-* rows.
Learn(f, source) ==
  /\ ~ HasRule(f)
  /\ Len(rules) < MaxRules
  /\ rules' = Append(rules, [print |-> f, source |-> source, count |-> 0])
  /\ UNCHANGED <<deleted, work, decision, lostAnswers>>

\* POST /demo/reset, in remove_demo_proposals.
DeleteDemoRules ==
  /\ deleted' = {i \in DOMAIN rules : rules[i].source = "demo"}
  /\ UNCHANGED <<rules, work, decision, lostAnswers>>

\* _apply_deterministic_guards: P1 and security signals are routed whatever the
\* model says.
MaySuppress(x) == x \notin Urgent

\* The model classifies a signal: routed at once, or to be suppressed.
Classify(w, x) ==
  /\ work[w] = NoWork /\ decision[x] = Verdict("none")
  /\ \A v \in Triagers : work[v] # NoWork => work[v].signal # x
  /\ \/ decision' = [decision EXCEPT ![x] = Verdict("route")] /\ UNCHANGED work
     \/ /\ MaySuppress(x)
        /\ work' = [work EXCEPT ![w] = [stage |-> "lookup", signal |-> x]]
        /\ UNCHANGED decision
  /\ UNCHANGED <<rules, deleted, lostAnswers>>

Decide(w, d) ==
  /\ decision' = [decision EXCEPT ![work[w].signal] = d]
  /\ work' = [work EXCEPT ![w] = NoWork]

\* GET /suppression-rules: active rules that are not exhausted.
Usable(f) ==
  {i \in DOMAIN rules \ deleted : rules[i].print = f /\ rules[i].count < MaxSuppressions}

\* Without a usable rule the model's decision stands.
LookUpRule(w) ==
  /\ work[w].stage = "lookup"
  /\ LET found == Usable(PrintOf[work[w].signal]) IN
     \/ \E i \in found :
          /\ work' = [work EXCEPT ![w] =
               [stage |-> "spend", signal |-> @.signal, rule |-> i]]
          /\ UNCHANGED decision
     \/ found = {} /\ Decide(w, Verdict("unruled"))
  /\ UNCHANGED <<rules, deleted, lostAnswers>>

Spendable(i) == i \notin deleted /\ rules[i].count < MaxSuppressions

\* POST /suppression-rules/{id}/increment: one UPDATE with the bound in its
\* WHERE.  Only a 200 suppresses.
Spend(w) ==
  /\ work[w].stage = "spend"
  /\ LET i == work[w].rule IN
     IF Spendable(i)
     THEN rules' = [rules EXCEPT ![i].count = @ + 1] /\ Decide(w, SuppressedUnder(i))
     ELSE UNCHANGED rules /\ Decide(w, Verdict("route"))
  /\ UNCHANGED <<deleted, lostAnswers>>

\* A lookup or an increment without an answer: the signal is routed, and the
\* count may have been spent on nothing.  A lookup that is answered with an error
\* counts as no rule.
AnswerLost(w) ==
  /\ work[w] # NoWork
  /\ lostAnswers < MaxLostAnswers /\ lostAnswers' = lostAnswers + 1
  /\ \/ UNCHANGED rules
     \/ /\ work[w].stage = "spend" /\ Spendable(work[w].rule)
        /\ rules' = [rules EXCEPT ![work[w].rule].count = @ + 1]
  /\ \/ Decide(w, Verdict("route"))
     \/ work[w].stage = "lookup" /\ Decide(w, Verdict("unruled"))
  /\ UNCHANGED deleted

SuppressionNext ==
  \/ \E f \in Prints, source \in Sources : Learn(f, source)
  \/ DeleteDemoRules
  \/ \E w \in Triagers :
       \/ \E x \in Signals : Classify(w, x)
       \/ LookUpRule(w) \/ Spend(w) \/ AnswerLost(w)

SuppressionSpec == SuppressionInit /\ [][SuppressionNext]_suppressionVars

-----------------------------------------------------------------------------

SuppressedBy(i) == {x \in Signals : decision[x] = SuppressedUnder(i)}

\* The rules for a fingerprint that no reset deleted.
RulesFor(f) == {i \in DOMAIN rules \ deleted : rules[i].print = f}

\* "Bounded - max 3 suppressions per rule": the signals a rule suppressed never
\* outnumber its count, at most MaxSuppressions, and all have its fingerprint,
\* also when a reset deletes the rule between a triage agent's lookup and its
\* increment and a new one is learned.  The rules for a fingerprint that are in
\* force cost no more than one of them, however often a false alarm is
\* reported; only a reset of the demo makes room for MaxSuppressions more, and
\* never where a false alarm of a real proposal taught the rule.
PrintIsBounded ==
  /\ \A i \in DOMAIN rules :
       /\ Cardinality(SuppressedBy(i)) <= rules[i].count
       /\ rules[i].count <= MaxSuppressions
       /\ \A x \in SuppressedBy(i) : PrintOf[x] = rules[i].print
  /\ \A f \in Prints :
       Cardinality(UNION {SuppressedBy(i) : i \in RulesFor(f)}) <= MaxSuppressions
  /\ \A i \in deleted : rules[i].source = "demo"

=============================================================================
