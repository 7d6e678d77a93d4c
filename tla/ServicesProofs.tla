--------------------------- MODULE ServicesProofs ---------------------------
(***************************************************************************)
(* Proofs about the components beside the council, each on its own: a      *)
(* deploy and its finality, a demonstration session, the settlement of a   *)
(* payment, the suppression rules, the rate limiter, the earlier receipt   *)
(* contract and the daily budget of model tokens.                          *)
(***************************************************************************)
EXTENDS Services, FiniteSetTheorems, WellFoundedInduction, TLAPS

-----------------------------------------------------------------------------
(***************************************************************************)
(* CasperDeploy.                                                           *)
(***************************************************************************)

\* The chain knows no deploy before its call, a view shows executed deploys
\* only, and a call ends with what the chain did or without any word of it.
DeployInv ==
  /\ DeployTypeOK
  /\ \A d \in Deploys :
       /\ call[d] = Ready => chain[d] = "unsent"
       /\ indexed[d] # {} => chain[d] \in Executed
  /\ FinalityIsTrue

\* The shapes of a call are told apart by their phase.
LEMMA CallShapes ==
  ASSUME NEW d, call[d] \in {Ready} \cup Reports
                   \cup {Polling(k, v) : k \in 1 .. Rounds, v \in 1 .. Views}
  PROVE  /\ call[d].phase = "ready" <=> call[d] = Ready
         /\ call[d].phase = "polling" =>
              \E k \in 1 .. Rounds, v \in 1 .. Views : call[d] = Polling(k, v)
         /\ call[d].phase = "done" => call[d] \in Reports
  BY DEF Ready, Polling, Done, Reports

\* One call changes.
LEMMA Concluded ==
  ASSUME DeployInv, NEW d \in Deploys, NEW report, Conclude(d, report),
         chain' \in [Deploys -> Fates],
         \A e \in Deploys : e # d => chain'[e] = chain[e],
         UNCHANGED indexed,
         report \in Reports
                    \cup {Polling(k, v) : k \in 1 .. Rounds, v \in 1 .. Views},
         indexed[d] # {} => chain'[d] \in Executed,
         report.phase = "done" =>
           /\ report.attempt > 0 /\ report.status = "failed" => chain'[d] = "failure"
           /\ report.finality \in Executed =>
                /\ chain'[d] = report.finality
                /\ d \notin Relayed /\ chain'[d] = "failure"
                     => report.status = "failed"
  PROVE  DeployInv'
<1>1. /\ call' \in [Deploys -> {Ready} \cup Reports
                 \cup {Polling(k, v) : k \in 1 .. Rounds, v \in 1 .. Views}]
      /\ \A e \in Deploys : e # d => call'[e] = call[e]
      /\ call'[d] = report
  BY DEF DeployInv, DeployTypeOK, Conclude
<1>2. DeployTypeOK'
  BY <1>1 DEF DeployInv, DeployTypeOK
<1>3. report # Ready
  BY DEF Ready, Polling, Done, Reports
<1>4. \A e \in Deploys : /\ call'[e] = Ready => chain'[e] = "unsent"
                         /\ indexed'[e] # {} => chain'[e] \in Executed
  BY <1>1, <1>3 DEF DeployInv
<1>5. FinalityIsTrue'
  BY <1>1 DEF DeployInv, FinalityIsTrue
<1> QED
  BY <1>2, <1>4, <1>5 DEF DeployInv

LEMMA DeployStep == DeployInv /\ [DeployNext]_deployVars => DeployInv'
<1> SUFFICES ASSUME DeployInv, [DeployNext]_deployVars  PROVE DeployInv'
  OBVIOUS
<1> USE DeployAssumption DEF DeployAssumption
<1>0. /\ DeployTypeOK
      /\ \A d \in Deploys :
           /\ call[d] \in {Ready} \cup Reports
                \cup {Polling(k, v) : k \in 1 .. Rounds, v \in 1 .. Views}
           /\ chain[d] \in Fates /\ indexed[d] \subseteq 1 .. Views
  BY DEF DeployInv, DeployTypeOK
<1>1. ASSUME NEW d \in Deploys, Rejected(d)  PROVE DeployInv'
  <2>1. Done("failed", "none", 0) \in Reports
    BY DEF Reports
  <2>2. indexed[d] # {} => chain[d] \in Executed
    BY DEF DeployInv
  <2> QED
    BY <1>0, <1>1, <2>1, <2>2, Concluded DEF Rejected, DeployTypeOK, Done, Executed
<1>2. ASSUME NEW d \in Deploys, Sent(d)  PROVE DeployInv'
  <2>1. Polling(1, 1) \in {Polling(k, v) : k \in 1 .. Rounds, v \in 1 .. Views}
    OBVIOUS
  <2>2. indexed[d] = {}
    BY <1>2 DEF DeployInv, Sent, Executed
  <2>3. /\ chain' \in [Deploys -> Fates]
        /\ \A e \in Deploys : e # d => chain'[e] = chain[e]
    BY <1>0, <1>2 DEF Sent, DeployTypeOK, Fates
  <2>4. Polling(1, 1).phase # "done"
    BY DEF Polling
  <2> QED
    BY <1>2, <2>1, <2>2, <2>3, <2>4, Concluded DEF Sent
<1>3. ASSUME NEW d \in Deploys, NoAnswer(d)  PROVE DeployInv'
  <2>1. Done("failed", "none", 0) \in Reports
    BY DEF Reports
  <2>2. indexed[d] = {}
    BY <1>3 DEF DeployInv, NoAnswer, Executed
  <2>3. /\ chain' \in [Deploys -> Fates]
        /\ \A e \in Deploys : e # d => chain'[e] = chain[e]
    BY <1>0, <1>3 DEF NoAnswer, DeployTypeOK, Fates
  <2> QED
    BY <1>3, <2>1, <2>2, <2>3, Concluded DEF NoAnswer, Done, Executed
<1>4. ASSUME NEW d \in Deploys, Seen(d)  PROVE DeployInv'
  <2>1. PICK k \in 1 .. Rounds, v \in 1 .. Views : call[d] = Polling(k, v)
    BY <1>0, <1>4, CallShapes DEF Seen
  <2>2. chain[d] \in Executed /\ k \in 1 .. Rounds /\ call[d].attempt = k
    BY <1>4, <2>1 DEF Seen, DeployInv, Polling
  <2> DEFINE report == Done(StatusOf(d, chain[d]), chain[d], k)
  <2>3. report \in Reports
    BY <2>2 DEF Reports, Executed, StatusOf
  <2>4. /\ report.status = "failed" => chain[d] = "failure"
        /\ report.finality = chain[d]
        /\ d \notin Relayed /\ chain[d] = "failure" => report.status = "failed"
    BY DEF Done, StatusOf
  <2>5. Conclude(d, report) /\ UNCHANGED <<chain, indexed>>
    BY <1>4, <2>2 DEF Seen, Finality
  <2> HIDE DEF report
  <2> QED
    BY <1>0, <2>2, <2>3, <2>4, <2>5, Concluded DEF DeployTypeOK
<1>5. ASSUME NEW d \in Deploys, Unseen(d)  PROVE DeployInv'
  <2>1. PICK k \in 1 .. Rounds, v \in 1 .. Views : call[d] = Polling(k, v)
    BY <1>0, <1>5, CallShapes DEF Unseen
  <2> DEFINE report == IF v < Views THEN Polling(k, v + 1) ELSE NextRound(k)
  <2>2. /\ report \in Reports
             \cup {Polling(j, w) : j \in 1 .. Rounds, w \in 1 .. Views}
        /\ report.phase = "done" =>
             report.status = "success" /\ report.finality = "pending"
    <3>1. CASE v < Views
      <4>1. report = Polling(k, v + 1) /\ v + 1 \in 1 .. Views
        BY <3>1
      <4> QED
        BY <4>1 DEF Polling
    <3>2. CASE ~ v < Views /\ k < Rounds
      BY <3>2 DEF Polling, NextRound
    <3>3. CASE ~ v < Views /\ ~ k < Rounds
      <4>1. report = Done("success", "pending", k) /\ k = Rounds
        BY <3>3 DEF NextRound, AfterWindow
      <4> QED
        BY <4>1 DEF Reports, Done
    <3> QED
      BY <3>1, <3>2, <3>3
  <2>3. Conclude(d, report) /\ UNCHANGED <<chain, indexed>>
    BY <1>5, <2>1 DEF Unseen, Polling
  <2>4. indexed[d] # {} => chain[d] \in Executed
    BY DEF DeployInv
  <2> HIDE DEF report
  <2> QED
    BY <1>0, <2>2, <2>3, <2>4, Concluded DEF DeployTypeOK, Executed
<1>6. ASSUME NEW d \in Deploys, chain[d] = "pending", NEW fate \in Fates,
             chain' = [chain EXCEPT ![d] = fate], UNCHANGED <<indexed, call>>
      PROVE  DeployInv'
  <2>1. indexed[d] = {}
    BY <1>6 DEF DeployInv, Executed
  <2>2. DeployTypeOK'
    BY <1>0, <1>6 DEF DeployTypeOK
  <2>3. \A e \in Deploys : /\ call'[e] = Ready => chain'[e] = "unsent"
                           /\ indexed'[e] # {} => chain'[e] \in Executed
    BY <1>0, <1>6, <2>1 DEF DeployInv, DeployTypeOK
  <2>4. ASSUME NEW e \in Deploys, call[e].phase = "done"
        PROVE  /\ call[e].attempt > 0 /\ call[e].status = "failed"
                    => chain'[e] = "failure"
               /\ call[e].finality \in Executed =>
                    /\ chain'[e] = call[e].finality
                    /\ e \notin Relayed /\ chain'[e] = "failure"
                         => call[e].status = "failed"
    BY <1>0, <1>6, <2>4 DEF DeployInv, FinalityIsTrue, DeployTypeOK, Executed
  <2> QED
    BY <1>6, <2>2, <2>3, <2>4 DEF DeployInv, FinalityIsTrue
<1>7. ASSUME NEW d \in Deploys, Execute(d) \/ Expire(d)  PROVE DeployInv'
  BY <1>6, <1>7 DEF Execute, Expire, Fates, Executed
<1>8. ASSUME NEW d \in Deploys, NEW v \in 1 .. Views, Index(d, v)
      PROVE  DeployInv'
  <2>1. DeployTypeOK'
    BY <1>0, <1>8 DEF Index, DeployTypeOK
  <2>2. FinalityIsTrue'
    BY <1>8 DEF DeployInv, FinalityIsTrue, Index
  <2>3. \A e \in Deploys : /\ call'[e] = Ready => chain'[e] = "unsent"
                           /\ indexed'[e] # {} => chain'[e] \in Executed
    BY <1>0, <1>8 DEF DeployInv, DeployTypeOK, Index
  <2> QED
    BY <2>1, <2>2, <2>3 DEF DeployInv
<1>9. CASE UNCHANGED deployVars
  BY <1>9 DEF deployVars, DeployInv, DeployTypeOK, FinalityIsTrue
<1>10. CASE DeployNext
  BY <1>1, <1>2, <1>3, <1>4, <1>5, <1>7, <1>8, <1>10 DEF DeployNext, Poll
<1> QED
  BY <1>9, <1>10

LEMMA DeployInvariant == DeploySpec => []DeployInv
<1>1. DeployInit => DeployInv
  BY DEF DeployInit, DeployInv, DeployTypeOK, FinalityIsTrue, Ready, Fates
<1> QED
  BY <1>1, DeployStep, PTL DEF DeploySpec

\* A call that was told of finality was told what the chain did, and a deploy
\* the node took is reported failed only if it failed, however far the views lag.
THEOREM FinalityCorrect == DeploySpec => []FinalityIsTrue
<1>1. DeployInv => FinalityIsTrue
  BY DEF DeployInv
<1> QED
  BY <1>1, DeployInvariant, PTL

-----------------------------------------------------------------------------
(***************************************************************************)
(* DemoSession.                                                            *)
(***************************************************************************)

Rooms == [attached : BOOLEAN, triage : BOOLEAN, card : BOOLEAN]

Steps == TriggerSteps \cup {"compensate"}

\* How far a trigger is, and what the requests before it have done.
TriggerIsAt(step, p) ==
  /\ step \in {"room", "invite", "post", "confirm"} => rows[p] = "detected"
  /\ step \in {"invite", "post", "confirm"} => room[p].attached
  /\ step \in {"post", "confirm"} => room[p].triage
  /\ step = "confirm" => room[p].card

\* A trigger and a reset are never under way at once; a reset deletes when the
\* simulator runs nothing.
DemoInv ==
  /\ simulator \subseteq started /\ started \subseteq Demos
  /\ rows \in [Demos -> {"none", "detected", "confirmed"}]
  /\ room \in [Demos -> Rooms]
  /\ trigger \in {Idle} \cup [step : Steps, prop : started]
  /\ reset \in {"idle", "clear", "delete"}
  /\ trigger # Idle => reset = "idle" /\ TriggerIsAt(trigger.step, trigger.prop)
  /\ reset = "delete" => simulator = {}
  /\ ConfirmedIsStaffed

LEMMA IdleShape ==
  ASSUME NEW p, NEW step
  PROVE  /\ Idle.step = "idle"
         /\ At(step, p).step = step /\ At(step, p).prop = p
         /\ step # "idle" => At(step, p) # Idle
  BY DEF Idle, At

\* What a served request leaves behind is what the next one builds on.
LEMMA EffectKeeps ==
  ASSUME DemoInv, NEW p \in started, NEW step \in TriggerSteps,
         trigger = At(step, p), Effect(step, p)
  PROVE  /\ simulator' \subseteq started
         /\ rows' \in [Demos -> {"none", "detected", "confirmed"}]
         /\ room' \in [Demos -> Rooms]
         /\ \A next : step # "confirm" /\ next = Following[step]
                       => TriggerIsAt(next, p)'
         /\ \A q \in Demos : rows'[q] = "confirmed" => room'[q].triage /\ room'[q].card
         /\ \A q \in Demos : rows[q] # "none" => rows'[q] # "none"
<1>0. /\ p \in Demos /\ TriggerIsAt(step, p)
      /\ rows \in [Demos -> {"none", "detected", "confirmed"}]
      /\ room \in [Demos -> Rooms] /\ simulator \subseteq started
      /\ \A q \in Demos : rows[q] = "confirmed" => room[q].triage /\ room[q].card
  <2>1. trigger # Idle /\ trigger.step = step /\ trigger.prop = p
    BY IdleShape DEF TriggerSteps
  <2> QED
    BY <2>1 DEF DemoInv, ConfirmedIsStaffed
<1>2. CASE step = "activate" /\ Activated(p)
  BY <1>0, <1>2 DEF Activated, Following, TriggerIsAt
<1>3. CASE step = "prepare" /\ Prepared(p)
  BY <1>0, <1>3 DEF Prepared, Following, TriggerIsAt
<1>4. CASE step = "room" /\ RoomOpened(p)
  BY <1>0, <1>4 DEF RoomOpened, Following, TriggerIsAt, Rooms
<1>5. CASE step = "invite" /\ Invited(p)
  BY <1>0, <1>5 DEF Invited, Following, TriggerIsAt, Rooms
<1>6. CASE step = "post" /\ CardPosted(p)
  BY <1>0, <1>6 DEF CardPosted, Following, TriggerIsAt, Rooms
<1>7. CASE step = "confirm" /\ Confirmed(p)
  BY <1>0, <1>7 DEF Confirmed, TriggerIsAt
<1> QED
  BY <1>2, <1>3, <1>4, <1>5, <1>6, <1>7 DEF Effect

LEMMA DemoStep ==
  DemoInv /\ [DemoNext]_demoVars
    => /\ DemoInv'
       /\ \A p \in Demos : rows[p] # "none" /\ rows'[p] = "none" => p \notin simulator
<1> SUFFICES ASSUME DemoInv, [DemoNext]_demoVars
             PROVE  /\ DemoInv'
                    /\ \A p \in Demos :
                         rows[p] # "none" /\ rows'[p] = "none" => p \notin simulator
  OBVIOUS
<1> USE IdleShape
<1>1. ASSUME NEW p \in Demos, Trigger(p)
      PROVE  DemoInv' /\ rows' = rows
  BY <1>1 DEF Trigger, Unlocked, DemoInv, ConfirmedIsStaffed, Steps, TriggerSteps,
              TriggerIsAt, At
<1>2. ASSUME NEW p \in Demos, Answered(p)
      PROVE  DemoInv' /\ \A q \in Demos : rows[q] # "none" => rows'[q] # "none"
  <2>1. PICK step \in TriggerSteps :
           /\ step = trigger.step /\ trigger = At(step, p) /\ p \in started
           /\ Effect(step, p) /\ reset = "idle" /\ reset' = reset
           /\ started' = started
           /\ trigger' = IF step = "confirm" THEN Idle ELSE At(Following[step], p)
    BY <1>2 DEF Answered, DemoInv, At, TriggerSteps
  <2>2. /\ simulator' \subseteq started
        /\ rows' \in [Demos -> {"none", "detected", "confirmed"}]
        /\ room' \in [Demos -> Rooms]
        /\ \A next : step # "confirm" /\ next = Following[step]
                      => TriggerIsAt(next, p)'
        /\ \A q \in Demos : rows'[q] = "confirmed" => room'[q].triage /\ room'[q].card
        /\ \A q \in Demos : rows[q] # "none" => rows'[q] # "none"
    BY <2>1, EffectKeeps
  <2>3. CASE step = "confirm"
    BY <2>1, <2>2, <2>3 DEF DemoInv, ConfirmedIsStaffed
  <2>4. CASE step # "confirm"
    <3>1. PICK next \in TriggerSteps : next = Following[step]
      BY <2>1, <2>4 DEF Following, TriggerSteps
    <3>2. trigger' = At(next, p) /\ TriggerIsAt(next, p)'
      BY <2>1, <2>2, <2>4, <3>1
    <3>3. trigger' \in [step : Steps, prop : started]
      BY <2>1, <3>2 DEF At, Steps
    <3>4. trigger'.step = next /\ trigger'.prop = p
      BY <3>2
    <3>5. TriggerIsAt(trigger.step, trigger.prop)'
      BY <3>2, <3>4 DEF TriggerIsAt
    <3> QED
      BY <2>1, <2>2, <3>3, <3>5 DEF DemoInv, ConfirmedIsStaffed
  <2> QED
    BY <2>2, <2>3, <2>4
<1>3. ASSUME NEW p \in Demos, Failed(p)
      PROVE  DemoInv' /\ \A q \in Demos : rows[q] # "none" => rows'[q] # "none"
  <2>1. PICK step \in TriggerSteps :
           /\ step = trigger.step /\ trigger = At(step, p) /\ p \in started
           /\ reset = "idle" /\ reset' = reset /\ started' = started
           /\ Effect(step, p) \/ UNCHANGED <<simulator, rows, room>>
    BY <1>3 DEF Failed, DemoInv, At, TriggerSteps
  <2>2. /\ simulator' \subseteq started
        /\ rows' \in [Demos -> {"none", "detected", "confirmed"}]
        /\ room' \in [Demos -> Rooms]
        /\ \A q \in Demos : rows'[q] = "confirmed" => room'[q].triage /\ room'[q].card
        /\ \A q \in Demos : rows[q] # "none" => rows'[q] # "none"
    <3>1. CASE Effect(step, p)
      BY <2>1, <3>1, EffectKeeps
    <3>2. CASE UNCHANGED <<simulator, rows, room>>
      BY <3>2 DEF DemoInv, ConfirmedIsStaffed
    <3> QED
      BY <2>1, <3>1, <3>2
  <2>3. trigger' \in {Idle, At("compensate", p)}
    BY <1>3 DEF Failed, AfterFailure
  <2> QED
    BY <2>1, <2>2, <2>3
       DEF DemoInv, ConfirmedIsStaffed, At, Steps, TriggerIsAt
<1>4. ASSUME NEW p \in Demos, Compensate(p)
      PROVE  DemoInv' /\ rows' = rows
  BY <1>4 DEF Compensate, Released, DemoInv, ConfirmedIsStaffed, At
<1>5. CASE Warm
  BY <1>5 DEF Warm, DemoInv, ConfirmedIsStaffed, TriggerIsAt
<1>6. CASE Reset
  BY <1>6 DEF Reset, MayReset, Unlocked, DemoInv, ConfirmedIsStaffed
<1>7. CASE ClearSimulator
  BY <1>7 DEF ClearSimulator, AfterClear, DemoInv, ConfirmedIsStaffed
<1>8. CASE DeleteRows
  <2>1. simulator = {} /\ trigger = Idle
    BY <1>8 DEF DeleteRows, DemoInv
  <2>2. /\ rows' \in [Demos -> {"none", "detected", "confirmed"}]
        /\ room' \in [Demos -> Rooms]
        /\ \A q \in Demos : rows'[q] = "confirmed" => room'[q].triage /\ room'[q].card
    <3>1. CASE UNCHANGED <<rows, room>>
      BY <3>1 DEF DemoInv, ConfirmedIsStaffed
    <3>2. CASE /\ rows' = [q \in Demos |-> "none"]
               /\ room' = [q \in Demos |-> [room[q] EXCEPT !.attached = FALSE]]
      <4>1. ASSUME NEW q \in Demos  PROVE [room[q] EXCEPT !.attached = FALSE] \in Rooms
        <5>1. room[q] \in Rooms
          BY DEF DemoInv
        <5> QED
          BY <5>1 DEF Rooms
      <4>2. room' \in [Demos -> Rooms]
        BY <3>2, <4>1
      <4>3. \A q \in Demos : rows'[q] = "none"
        BY <3>2
      <4> QED
        BY <3>2, <4>2, <4>3
    <3> QED
      BY <1>8, <3>1, <3>2 DEF DeleteRows
  <2> QED
    BY <1>8, <2>1, <2>2 DEF DeleteRows, DemoInv, ConfirmedIsStaffed
<1>9. CASE Restart
  BY <1>9 DEF Restart, DemoInv, ConfirmedIsStaffed
<1>10. CASE UNCHANGED demoVars
  BY <1>10 DEF demoVars, DemoInv, ConfirmedIsStaffed, TriggerIsAt
<1> QED
  BY <1>1, <1>2, <1>3, <1>4, <1>5, <1>6, <1>7, <1>8, <1>9, <1>10
     DEF DemoNext, Working

LEMMA DemoInvariant == DemoSpec => []DemoInv
<1>1. DemoInit => DemoInv
  BY DEF DemoInit, DemoInv, ConfirmedIsStaffed, NoRoom, Rooms
<1>2. DemoInv /\ [DemoNext]_demoVars => DemoInv'
  BY DemoStep
<1> QED
  BY <1>1, <1>2, PTL DEF DemoSpec

\* What is half-made is paid for by a failure each.
FailuresPay ==
  /\ failures \in Nat /\ restarts \in Nat
  /\ IsFiniteSet(HalfMade) /\ HalfMadeIsAFailure

LEMMA SumGrows ==
  ASSUME NEW a \in Nat, NEW b \in Nat, NEW c \in Nat, c >= a
  PROVE  c + b >= a + b
  OBVIOUS

LEMMA SumIsNat ==
  ASSUME NEW a \in Nat, NEW b \in Nat
  PROVE  a + b \in Nat
  OBVIOUS

\* One more half-made proposal and one more failure, or no more of the first.
LEMMA HalfMadeGrows ==
  ASSUME FailuresPay, failures' \in Nat, restarts' \in Nat,
         \/ /\ HalfMade' \subseteq HalfMade
            /\ failures' + restarts' >= failures + restarts
         \/ \E p : /\ HalfMade' \subseteq HalfMade \cup {p}
                  /\ failures' + restarts' = failures + restarts + 1
  PROVE  FailuresPay'
<1>1. /\ IsFiniteSet(HalfMade) /\ Cardinality(HalfMade) \in Nat
      /\ Cardinality(HalfMade) <= failures + restarts
      /\ failures + restarts \in Nat /\ failures' + restarts' \in Nat
  <2>1. failures \in Nat /\ restarts \in Nat
    BY DEF FailuresPay
  <2>2. failures + restarts \in Nat /\ failures' + restarts' \in Nat
    BY <2>1, SumIsNat
  <2> QED
    BY <2>2, FS_CardinalityType DEF FailuresPay, HalfMadeIsAFailure
<1>2. ASSUME IsFiniteSet(HalfMade'), Cardinality(HalfMade') <= failures' + restarts'
      PROVE  FailuresPay'
  BY <1>2 DEF FailuresPay, HalfMadeIsAFailure
<1>3. CASE /\ HalfMade' \subseteq HalfMade
           /\ failures' + restarts' >= failures + restarts
  <2>1. IsFiniteSet(HalfMade') /\ Cardinality(HalfMade') <= Cardinality(HalfMade)
    BY <1>1, <1>3, FS_Subset
  <2>2. Cardinality(HalfMade') \in Nat
    BY <2>1, FS_CardinalityType
  <2>3. Cardinality(HalfMade') <= failures' + restarts'
    BY <1>1, <1>3, <2>1, <2>2
  <2> QED
    BY <1>2, <2>1, <2>3
<1>4. ASSUME NEW p, HalfMade' \subseteq HalfMade \cup {p},
             failures' + restarts' = failures + restarts + 1
      PROVE  FailuresPay'
  <2>1. /\ IsFiniteSet(HalfMade \cup {p})
        /\ \/ Cardinality(HalfMade \cup {p}) = Cardinality(HalfMade)
           \/ Cardinality(HalfMade \cup {p}) = Cardinality(HalfMade) + 1
    BY <1>1, FS_AddElement
  <2>2. /\ IsFiniteSet(HalfMade')
        /\ Cardinality(HalfMade') <= Cardinality(HalfMade \cup {p})
    BY <1>4, <2>1, FS_Subset
  <2>3. Cardinality(HalfMade') \in Nat /\ Cardinality(HalfMade \cup {p}) \in Nat
    BY <2>1, <2>2, FS_CardinalityType
  <2>4. Cardinality(HalfMade') <= failures' + restarts'
    BY <1>1, <1>4, <2>1, <2>2, <2>3
  <2> QED
    BY <1>2, <2>2, <2>4
<1> QED
  BY <1>3, <1>4

\* A served request touches the row of its own proposal only.
LEMMA EffectIsLocal ==
  ASSUME DemoInv, NEW p \in Demos, NEW step, Effect(step, p)
  PROVE  /\ \A q \in Demos : q # p => rows'[q] = rows[q]
         /\ step = "confirm" => rows'[p] = "confirmed"
  BY DEF DemoInv, Effect, Activated, Prepared, RoomOpened, Invited, CardPosted, Confirmed

LEMMA FailuresPayStep ==
  DemoInv /\ FailuresPay /\ [DemoNext]_demoVars => FailuresPay'
<1> SUFFICES ASSUME DemoInv, FailuresPay, [DemoNext]_demoVars
             PROVE  FailuresPay'
  OBVIOUS
<1>1. failures \in Nat /\ restarts \in Nat
  BY DEF FailuresPay
<1>2. ASSUME UNCHANGED <<failures, restarts>>, HalfMade' \subseteq HalfMade
      PROVE  FailuresPay'
  BY <1>1, <1>2, HalfMadeGrows
<1>3. ASSUME NEW p \in Demos, Trigger(p)  PROVE FailuresPay'
  <2>1. HalfMade' \subseteq HalfMade
    BY <1>3, IdleShape DEF Trigger, Unlocked, HalfMade, BeingMade, TriggerSteps
  <2> QED
    BY <1>2, <1>3, <2>1 DEF Trigger
<1>4. ASSUME NEW p \in Demos, Answered(p)  PROVE FailuresPay'
  <2>1. PICK step \in TriggerSteps :
           /\ step = trigger.step /\ trigger.prop = p /\ Effect(step, p)
           /\ trigger' = IF step = "confirm" THEN Idle ELSE At(Following[step], p)
    BY <1>4 DEF Answered
  <2>2. \A q \in Demos : q # p => rows'[q] = rows[q] /\ ~ BeingMade(q)
    BY <2>1, EffectIsLocal DEF BeingMade
  <2>3. p \notin HalfMade'
    <3>1. CASE step = "confirm"
      <4>1. rows'[p] = "confirmed"
        BY <2>1, <3>1, EffectIsLocal
      <4> QED
        BY <4>1 DEF HalfMade
    <3>2. CASE step # "confirm"
      <4>1. PICK next \in TriggerSteps : next = Following[step]
        BY <2>1, <3>2 DEF Following, TriggerSteps
      <4>2. trigger'.step = next /\ trigger'.prop = p
        BY <2>1, <3>2, <4>1, IdleShape
      <4>3. BeingMade(p)'
        BY <4>2 DEF BeingMade, TriggerSteps
      <4> QED
        BY <4>3 DEF HalfMade
    <3> QED
      BY <3>1, <3>2
  <2>4. HalfMade' \subseteq HalfMade
    BY <2>2, <2>3 DEF HalfMade
  <2> QED
    BY <1>2, <1>4, <2>4 DEF Answered
<1>5. ASSUME NEW p \in Demos, Failed(p)  PROVE FailuresPay'
  <2>1. PICK step \in TriggerSteps :
           /\ step = trigger.step /\ trigger.prop = p
           /\ Effect(step, p) \/ UNCHANGED <<simulator, rows, room>>
    BY <1>5 DEF Failed
  <2>2. \A q \in Demos : q # p => rows'[q] = rows[q] /\ ~ BeingMade(q)
    BY <2>1, EffectIsLocal DEF BeingMade
  <2>3. HalfMade' \subseteq HalfMade \cup {p}
    BY <2>2 DEF HalfMade
  <2>4. failures' = failures + 1 /\ restarts' = restarts
    BY <1>5 DEF Failed, Lose
  <2> QED
    BY <1>1, <2>3, <2>4, HalfMadeGrows
<1>6. ASSUME NEW p \in Demos, Compensate(p)  PROVE FailuresPay'
  <2>1. HalfMade' \subseteq HalfMade
    BY <1>6, IdleShape DEF Compensate, Released, HalfMade, BeingMade, TriggerSteps
  <2>2. failures' \in Nat /\ failures' >= failures /\ restarts' = restarts
    BY <1>1, <1>6 DEF Compensate, Lose
  <2>3. restarts' \in Nat /\ failures' + restarts' >= failures + restarts
    BY <1>1, <2>2, SumGrows
  <2> QED
    BY <2>1, <2>2, <2>3, HalfMadeGrows
<1>7. CASE ClearSimulator \/ DeleteRows
  <2>1. HalfMade' \subseteq HalfMade
    <3>1. UNCHANGED trigger /\ (UNCHANGED rows \/ rows' = [q \in Demos |-> "none"])
      BY <1>7 DEF ClearSimulator, DeleteRows
    <3>2. \A q \in Demos : rows'[q] = rows[q] \/ rows'[q] = "none"
      BY <3>1
    <3>3. \A q \in Demos : BeingMade(q)' = BeingMade(q)
      BY <3>1 DEF BeingMade
    <3>4. ASSUME NEW q \in HalfMade'  PROVE q \in HalfMade
      <4>1. q \in Demos /\ rows'[q] = "detected" /\ ~ BeingMade(q)'
        BY DEF HalfMade
      <4> QED
        BY <3>2, <3>3, <4>1 DEF HalfMade
    <3> QED
      BY <3>4
  <2>2. failures' \in Nat /\ failures' >= failures /\ restarts' = restarts
    <3>1. failures' = failures \/ failures' = failures + 1
      BY <1>7 DEF ClearSimulator, DeleteRows, Lose
    <3>2. restarts' = restarts
      BY <1>7 DEF ClearSimulator, DeleteRows
    <3> QED
      BY <1>1, <3>1, <3>2
  <2>3. restarts' \in Nat /\ failures' + restarts' >= failures + restarts
    BY <1>1, <2>2, SumGrows
  <2> QED
    BY <2>1, <2>2, <2>3, HalfMadeGrows
<1>8. CASE Warm \/ Reset \/ UNCHANGED demoVars
  <2>1. UNCHANGED <<rows, trigger, failures, restarts>>
    BY <1>8 DEF Warm, Reset, demoVars
  <2>2. HalfMade' \subseteq HalfMade
    BY <2>1 DEF HalfMade, BeingMade
  <2> QED
    BY <1>2, <2>1, <2>2
<1>9. CASE Restart
  <2>1. HalfMade' \subseteq HalfMade \cup {trigger.prop}
    BY <1>9, IdleShape DEF Restart, HalfMade, BeingMade
  <2>2. restarts' = restarts + 1 /\ failures' = failures
    BY <1>9 DEF Restart
  <2> QED
    BY <1>1, <2>1, <2>2, HalfMadeGrows
<1> QED
  BY <1>3, <1>4, <1>5, <1>6, <1>7, <1>8, <1>9 DEF DemoNext, Working

\* Whatever request fails, whenever the gateway dies and however triggers and
\* resets cross: nothing half-made is confirmed, there are no more half-made
\* proposals than failures, and nothing that is being created or still runs is
\* deleted.
THEOREM SessionCorrect == DemoSpec => SessionIsWhole
<1>1. DemoInv => ConfirmedIsStaffed /\ TriggerKeepsItsRows
  <2>1. ASSUME DemoInv  PROVE TriggerKeepsItsRows
    BY <2>1, IdleShape DEF DemoInv, TriggerKeepsItsRows, TriggerIsAt
  <2> QED
    BY <2>1 DEF DemoInv
<1>2. DemoInv /\ [DemoNext]_demoVars =>
        [\A p \in Demos : rows[p] # "none" /\ rows'[p] = "none"
                            => p \notin simulator]_demoVars
  BY DemoStep
<1>3. DemoInit => FailuresPay
  <2> SUFFICES ASSUME DemoInit  PROVE FailuresPay
    OBVIOUS
  <2>1. HalfMade = {}
    BY DEF DemoInit, HalfMade
  <2>2. IsFiniteSet(HalfMade) /\ Cardinality(HalfMade) = 0
    BY <2>1, FS_EmptySet
  <2> QED
    BY <2>2 DEF DemoInit, FailuresPay, HalfMadeIsAFailure
<1>4. FailuresPay => HalfMadeIsAFailure
  BY DEF FailuresPay
<1> QED
  BY <1>1, <1>2, <1>3, <1>4, FailuresPayStep, DemoInvariant, PTL
     DEF DemoSpec, SessionIsWhole, ActiveIsKept

-----------------------------------------------------------------------------
(***************************************************************************)
(* PaymentSettlement.                                                      *)
(***************************************************************************)

Requested == [stage : Stages, payment : Payments, attempt : 1 .. Attempts,
              lookup : 1 .. Attempts]

Statuses == {"none", "settled", "pending", "rejected", "stranded"}

\* What is known of a request b that has been answered s.  Of a good payment, an
\* attempt is spent on a question that came too early, on a delay of the
\* provider or on a loss, and each of these is counted: there are no others.
JudgedAs(b, s) ==
  LET p == b.payment IN
  /\ s = "settled" => p \in Good /\ early[p] = 0
  /\ b.stage = "settling" => p \in Good /\ early[p] = 0
  /\ b.stage \in {"asking", "settling"} => route # "direct"
  /\ b.stage = "lookup" => route # "facilitator"
  /\ b.lookup + early[p] <= MaxLag + lostRequests + 1
  /\ p \in Good /\ Patience =>
       /\ s \in {"none", "settled"}
       /\ route = "provider" => b.attempt <= held[p] + lostRequests + 1
       /\ route = "facilitator"
            => b.attempt + early[p] <= MaxLag + lostRequests + 1

PaymentTyped ==
  /\ route \in {"direct", "provider", "facilitator"}
  /\ early \in [Payments -> 0 .. MaxLag]
  /\ held \in [Payments -> 0 .. ProviderLag]
  /\ request \in [Requests -> Requested]
  /\ answer \in [Requests -> Statuses]
  /\ lostRequests \in 0 .. MaxLostRequests

PaymentInv ==
  PaymentTyped /\ \A r \in Requests : JudgedAs(request[r], answer[r])

\* Time only works for a payment that was judged: transfers show up, and what
\* was lost stays counted.
TimeGoesOn ==
  /\ route' = route
  /\ early' \in [Payments -> 0 .. MaxLag] /\ held' \in [Payments -> 0 .. ProviderLag]
  /\ lostRequests' \in 0 .. MaxLostRequests
  /\ \A p \in Payments : early'[p] <= early[p] /\ held'[p] >= held[p]
  /\ lostRequests' >= lostRequests

LEMMA PatienceEnds ==
  ASSUME PaymentTyped, TimeGoesOn, Patience'
  PROVE  Patience
  BY PaymentAssumption DEF PaymentAssumption, PaymentTyped, TimeGoesOn, Patience

LEMMA JudgedStays ==
  ASSUME PaymentTyped, TimeGoesOn, NEW b \in Requested, NEW s \in Statuses,
         JudgedAs(b, s)
  PROVE  JudgedAs(b, s)'
<1>1. /\ b.payment \in Payments /\ b.lookup \in Nat /\ b.attempt \in Nat
      /\ early[b.payment] \in Nat /\ early'[b.payment] \in Nat
      /\ held[b.payment] \in Nat /\ held'[b.payment] \in Nat
      /\ lostRequests \in Nat /\ lostRequests' \in Nat /\ MaxLag \in Nat
      /\ early'[b.payment] <= early[b.payment] /\ held'[b.payment] >= held[b.payment]
      /\ lostRequests' >= lostRequests /\ route' = route
  BY PaymentAssumption DEF PaymentAssumption, PaymentTyped, TimeGoesOn, Requested
<1>2. Patience' => Patience
  BY PatienceEnds
<1> QED
  BY <1>1, <1>2 DEF JudgedAs

\* One request goes on to b and its answer to s.
LEMMA OneRequest ==
  ASSUME PaymentInv, TimeGoesOn, NEW r \in Requests, NEW b \in Requested,
         NEW s \in Statuses,
         request' = [request EXCEPT ![r] = b], answer' = [answer EXCEPT ![r] = s],
         JudgedAs(b, s)'
  PROVE  PaymentInv'
<1>1. PaymentTyped'
  BY DEF PaymentInv, PaymentTyped, TimeGoesOn
<1>2. ASSUME NEW q \in Requests  PROVE JudgedAs(request[q], answer[q])'
  <2>1. CASE q = r
    <3>1. request'[q] = b /\ answer'[q] = s
      BY <2>1 DEF PaymentInv, PaymentTyped
    <3> QED
      BY <3>1 DEF JudgedAs
  <2>2. CASE q # r
    <3>1. PICK c \in Requested, t \in Statuses : c = request[q] /\ t = answer[q]
      BY DEF PaymentInv, PaymentTyped
    <3>2. request'[q] = c /\ answer'[q] = t
      BY <2>2, <3>1 DEF PaymentInv, PaymentTyped
    <3>3. JudgedAs(c, t)'
      BY <3>1, JudgedStays DEF PaymentInv
    <3> QED
      BY <3>2, <3>3 DEF JudgedAs
  <2> QED
    BY <2>1, <2>2
<1> QED
  BY <1>1, <1>2 DEF PaymentInv

\* What the gateway may make of a request.
LEMMA Fields ==
  ASSUME PaymentTyped, NEW r \in Requests, NEW b, b = request[r], NEW st, NEW l
  PROVE  /\ [request EXCEPT ![r].stage = st]
               = [request EXCEPT ![r] = [b EXCEPT !.stage = st]]
         /\ [request EXCEPT ![r].lookup = l]
               = [request EXCEPT ![r] = [b EXCEPT !.lookup = l]]
  BY DEF PaymentTyped

\* A request before a step, what is known of it, and the numbers it is about.
LEMMA Known ==
  ASSUME PaymentInv, TimeGoesOn, NEW r \in Requests
  PROVE  \E b \in Requested, s \in Statuses :
           /\ b = request[r] /\ s = answer[r]
           /\ JudgedAs(b, s) /\ JudgedAs(b, s)'
           /\ b.payment \in Payments
           /\ {b.lookup, b.attempt} \subseteq 1 .. Attempts
           /\ {early[b.payment], early'[b.payment]} \subseteq 0 .. MaxLag
           /\ {held[b.payment], held'[b.payment]} \subseteq 0 .. ProviderLag
<1>1. PICK b \in Requested, s \in Statuses : b = request[r] /\ s = answer[r]
  BY DEF PaymentInv, PaymentTyped
<1>2. JudgedAs(b, s)
  BY <1>1 DEF PaymentInv
<1>3. JudgedAs(b, s)'
  BY <1>2, JudgedStays DEF PaymentInv
<1> QED
  BY <1>1, <1>2, <1>3 DEF PaymentInv, PaymentTyped, TimeGoesOn, Requested

\* An answer is given only when it is due.
LEMMA AnswerKeeps ==
  ASSUME PaymentInv, TimeGoesOn, NEW r \in Requests, NEW s \in Statuses, Answer(r, s),
         LET p == request[r].payment IN
           /\ s = "settled" => p \in Good /\ early'[p] = 0
           /\ p \in Good /\ Patience' => s = "settled"
  PROVE  PaymentInv'
<1>1. PICK b \in Requested, t \in Statuses :
        /\ b = request[r] /\ JudgedAs(b, t)'
        /\ b.payment \in Payments /\ {b.lookup, b.attempt} \subseteq 1 .. Attempts
  BY Known
<1> DEFINE c == [b EXCEPT !.stage = "over"]
<1>2. c \in Requested /\ request' = [request EXCEPT ![r] = c]
  <2>1. "over" \in Stages
    BY DEF Stages
  <2>2. c \in Requested
    BY <2>1 DEF Requested
  <2>3. 1 \in 1 .. Attempts
    BY PaymentAssumption DEF PaymentAssumption
  <2>4. request' = [request EXCEPT ![r] = c]
    BY <1>1, Fields DEF Answer, To, PaymentInv
  <2> QED
    BY <2>2, <2>4
<1>3. /\ c.payment = b.payment /\ c.lookup = b.lookup /\ c.attempt = b.attempt
      /\ c.stage = "over"
  BY DEF Requested
<1>4. JudgedAs(c, s)'
  BY <1>1, <1>3 DEF JudgedAs
<1> HIDE DEF c
<1> QED
  BY <1>2, <1>4, OneRequest DEF Answer

LEMMA Exhausted ==
  ASSUME NEW attempts \in Nat, NEW lag \in Nat, NEW n \in Nat, NEW m \in Nat,
         NEW lost \in Nat, NEW more \in Nat,
         attempts + n <= lag + lost + 1, more + n > lost + m
  PROVE  ~ (lag + more < attempts)
  OBVIOUS

LEMMA OneMore ==
  ASSUME NEW looked \in Nat, NEW lag \in Nat, NEW n \in Nat, NEW m \in Nat,
         NEW lost \in Nat, NEW more \in Nat,
         looked + n <= lag + lost + 1, more + n > lost + m
  PROVE  looked + 1 + m <= lag + more + 1
  OBVIOUS

\* Every further attempt of the gateway is accounted for.
LEMMA RetryKeeps ==
  ASSUME PaymentInv, TimeGoesOn, NEW r \in Requests, Retry(r), route # "direct",
         LET p == request[r].payment IN
           p \in Good /\ Patience' =>
             /\ route = "provider" => held'[p] + lostRequests' > held[p] + lostRequests
             /\ route = "facilitator"
                  => lostRequests' + early[p] > lostRequests + early'[p]
  PROVE  PaymentInv'
<1>1. PICK b \in Requested, s \in Statuses :
        /\ b = request[r] /\ s = answer[r]
        /\ JudgedAs(b, s) /\ JudgedAs(b, s)'
        /\ b.payment \in Payments
        /\ {b.lookup, b.attempt} \subseteq 1 .. Attempts
        /\ {early[b.payment], early'[b.payment]} \subseteq 0 .. MaxLag
        /\ {held[b.payment], held'[b.payment]} \subseteq 0 .. ProviderLag
  BY Known
<1>2. /\ lostRequests \in Nat /\ lostRequests' \in Nat /\ Attempts \in Nat
      /\ MaxLag \in Nat /\ ProviderLag \in Nat /\ route' = route
  BY PaymentAssumption DEF PaymentAssumption, PaymentInv, PaymentTyped, TimeGoesOn
<1>3. Patience' => Patience
  BY PatienceEnds DEF PaymentInv
<1>4. /\ answer' = [answer EXCEPT ![r] = answer'[r]]
      /\ answer \in [Requests -> Statuses]
  BY DEF Retry, Answer, PaymentInv, PaymentTyped
<1>5. CASE Again(b.attempt)
  <2> DEFINE c == [b EXCEPT !.stage = "asking", !.attempt = b.attempt + 1]
  <2>1. b.attempt + 1 \in 1 .. Attempts /\ 1 \in 1 .. Attempts /\ "asking" \in Stages
    BY <1>1, <1>2, <1>5 DEF Again, Stages
  <2>2. c \in Requested
    BY <2>1 DEF Requested
  <2>3. request' = [request EXCEPT ![r] = c]
    <3>1. request' = [request EXCEPT ![r].stage = "asking", ![r].attempt = b.attempt + 1]
      BY <1>1, <1>5 DEF Retry, PaymentInv, PaymentTyped
    <3>2. [request EXCEPT ![r].stage = "asking", ![r].attempt = b.attempt + 1]
            = [request EXCEPT ![r] = c]
      BY <1>1 DEF PaymentInv, PaymentTyped
    <3> QED
      BY <3>1, <3>2
  <2>4. /\ c.payment = b.payment /\ c.lookup = b.lookup
        /\ c.attempt = b.attempt + 1 /\ c.stage = "asking"
    BY DEF Requested
  <2>5. JudgedAs(c, s)'
    BY <1>1, <1>2, <1>3, <2>4 DEF JudgedAs
  <2>6. answer' = [answer EXCEPT ![r] = s]
    BY <1>1, <1>4, <1>5 DEF Retry
  <2> HIDE DEF c
  <2> QED
    BY <2>2, <2>3, <2>5, <2>6, OneRequest
<1>6. CASE ~ Again(b.attempt)
  <2>1. Answer(r, "stranded") /\ "stranded" \in Statuses
    BY <1>1, <1>6 DEF Retry, Statuses
  <2>2. ~ (b.payment \in Good /\ Patience')
    <3>1. SUFFICES ASSUME b.payment \in Good, Patience'  PROVE FALSE
      OBVIOUS
    <3>2. b.attempt = Attempts
      BY <1>1, <1>2, <1>6 DEF Again
    <3>3. CASE route = "provider"
      BY <1>1, <1>2, <1>3, <3>1, <3>2, <3>3 DEF JudgedAs, Patience
    <3>4. CASE route = "facilitator"
      <4>1. MaxLag + lostRequests' < Attempts
        BY <3>1 DEF Patience
      <4>2. b.attempt + early[b.payment] <= MaxLag + lostRequests + 1
        BY <1>1, <1>3, <3>1, <3>4 DEF JudgedAs
      <4>3. lostRequests' + early[b.payment] > lostRequests + early'[b.payment]
        BY <1>1, <3>1, <3>4
      <4>4. early[b.payment] \in Nat /\ early'[b.payment] \in Nat
        BY <1>1, <1>2
      <4> QED
        BY <1>2, <3>2, <4>1, <4>2, <4>3, <4>4, Exhausted
    <3> QED
      BY <3>3, <3>4 DEF PaymentInv, PaymentTyped
  <2> QED
    BY <1>1, <2>1, <2>2, AnswerKeeps
<1> QED
  BY <1>5, <1>6

\* A transfer that is looked for and not found: while there are attempts left, it
\* is looked for again, and a patient request has some left.
LEMMA LookAgainKeeps ==
  ASSUME PaymentInv, TimeGoesOn, NEW r \in Requests, NEW last \in {"stranded", "pending"},
         LookAgain(r, last), request[r].stage = "lookup",
         LET p == request[r].payment IN
           lostRequests' + early[p] > lostRequests + early'[p]
  PROVE  PaymentInv'
<1>1. PICK b \in Requested, s \in Statuses :
        /\ b = request[r] /\ s = answer[r]
        /\ JudgedAs(b, s) /\ JudgedAs(b, s)'
        /\ b.payment \in Payments
        /\ {b.lookup, b.attempt} \subseteq 1 .. Attempts
        /\ {early[b.payment], early'[b.payment]} \subseteq 0 .. MaxLag
        /\ {held[b.payment], held'[b.payment]} \subseteq 0 .. ProviderLag
  BY Known
<1>2. /\ lostRequests \in Nat /\ lostRequests' \in Nat /\ Attempts \in Nat
      /\ MaxLag \in Nat /\ ProviderLag \in Nat /\ route' = route
  BY PaymentAssumption DEF PaymentAssumption, PaymentInv, PaymentTyped, TimeGoesOn
<1>3. CASE Again(b.lookup)
  <2> DEFINE c == [b EXCEPT !.lookup = b.lookup + 1]
  <2>1. b.lookup + 1 \in 1 .. Attempts /\ 1 \in 1 .. Attempts /\ "over" \in Stages
    BY <1>1, <1>2, <1>3 DEF Again, Stages
  <2>2. c \in Requested
    BY <2>1 DEF Requested
  <2>3. request' = [request EXCEPT ![r] = c]
    <3>1. request' = [request EXCEPT ![r].lookup = b.lookup + 1]
      BY <1>1, <1>3 DEF LookAgain, PaymentInv, PaymentTyped
    <3> QED
      BY <1>1, <3>1, Fields DEF PaymentInv
  <2>4. /\ c.payment = b.payment /\ c.lookup = b.lookup + 1
        /\ c.attempt = b.attempt /\ c.stage = "lookup" /\ b.stage = "lookup"
    BY <1>1 DEF Requested
  <2>5. c.lookup + early'[b.payment] <= MaxLag + lostRequests' + 1
    <3>1. b.lookup + early[b.payment] <= MaxLag + lostRequests + 1
      BY <1>1 DEF JudgedAs
    <3>2. lostRequests' + early[b.payment] > lostRequests + early'[b.payment]
      BY <1>1
    <3>3. /\ early[b.payment] \in Nat /\ early'[b.payment] \in Nat
          /\ b.lookup \in Nat
      BY <1>1, <1>2
    <3> QED
      BY <1>2, <2>4, <3>1, <3>2, <3>3, OneMore
  <2>6. JudgedAs(c, s)'
    BY <1>1, <2>4, <2>5 DEF JudgedAs
  <2>7. answer' = [answer EXCEPT ![r] = s]
    BY <1>1, <1>3 DEF LookAgain, PaymentInv, PaymentTyped
  <2> HIDE DEF c
  <2> QED
    BY <2>2, <2>3, <2>6, <2>7, OneRequest
<1>4. CASE ~ Again(b.lookup)
  <2>1. Found(r, last)
    BY <1>1, <1>4 DEF LookAgain
  <2>2. ~ (b.payment \in Good /\ Patience')
    <3>1. SUFFICES ASSUME b.payment \in Good, Patience'  PROVE FALSE
      OBVIOUS
    <3>2. b.lookup = Attempts
      BY <1>1, <1>2, <1>4 DEF Again
    <3>3. b.lookup + early[b.payment] <= MaxLag + lostRequests + 1
      BY <1>1 DEF JudgedAs
    <3>4. lostRequests' + early[b.payment] > lostRequests + early'[b.payment]
      BY <1>1
    <3>5. /\ early[b.payment] \in Nat /\ early'[b.payment] \in Nat
      BY <1>1, <1>2
    <3>6. MaxLag + lostRequests' < Attempts
      BY <3>1 DEF Patience
    <3> QED
      BY <1>2, <3>2, <3>3, <3>4, <3>5, <3>6, Exhausted
  <2>3. last \in Statuses /\ last # "settled"
    BY DEF Statuses
  <2>4. CASE route = "direct" /\ Answer(r, last)
    BY <1>1, <2>2, <2>3, <2>4, AnswerKeeps
  <2>5. CASE route = "provider" /\ Retry(r)
    BY <1>1, <2>2, <2>5, RetryKeeps
  <2> QED
    BY <2>1, <2>3, <2>4, <2>5 DEF Found, Refused
<1> QED
  BY <1>3, <1>4

LEMMA ToKeeps ==
  ASSUME PaymentInv, TimeGoesOn, NEW r \in Requests, NEW st \in Stages \ {"new"},
         To(r, st), UNCHANGED answer,
         st = "settling" => LET p == request[r].payment IN p \in Good /\ early'[p] = 0,
         st \in {"asking", "settling"} => route # "direct",
         st = "lookup" => route # "facilitator"
  PROVE  PaymentInv'
<1>1. PICK b \in Requested, s \in Statuses :
        b = request[r] /\ s = answer[r] /\ JudgedAs(b, s)'
  BY Known
<1> DEFINE c == [b EXCEPT !.stage = st]
<1>2. c \in Requested
  BY DEF Requested
<1>3. request' = [request EXCEPT ![r] = c]
  <2>1. 1 \in 1 .. Attempts
    BY PaymentAssumption DEF PaymentAssumption
  <2> QED
    BY <1>1, Fields DEF To, PaymentInv
<1>4. /\ c.payment = b.payment /\ c.lookup = b.lookup /\ c.attempt = b.attempt
      /\ c.stage = st
  BY DEF Requested
<1>5. route' = route
  BY DEF TimeGoesOn
<1>6. JudgedAs(c, s)'
  BY <1>1, <1>4, <1>5 DEF JudgedAs
<1>7. answer' = [answer EXCEPT ![r] = s]
  BY <1>1 DEF PaymentInv, PaymentTyped
<1> HIDE DEF c
<1> QED
  BY <1>2, <1>3, <1>6, <1>7, OneRequest

LEMMA TimeStands ==
  ASSUME PaymentInv, UNCHANGED <<route, early, held>>,
         lostRequests' = lostRequests \/ Lost
  PROVE  TimeGoesOn
  BY PaymentAssumption
     DEF PaymentAssumption, PaymentInv, PaymentTyped, TimeGoesOn, Lost

LEMMA TimeAsks ==
  ASSUME PaymentInv, NEW r \in Requests, Asked(r), UNCHANGED <<route, held, lostRequests>>
  PROVE  /\ TimeGoesOn
         /\ LET p == request[r].payment IN
              /\ p \in Payments /\ early[p] \in Nat
              /\ early'[p] = IF early[p] = 0 THEN 0 ELSE early[p] - 1
<1>1. request[r].payment \in Payments
  BY DEF PaymentInv, PaymentTyped, Requested
<1>2. /\ early \in [Payments -> 0 .. MaxLag] /\ held \in [Payments -> 0 .. ProviderLag]
      /\ lostRequests \in 0 .. MaxLostRequests /\ MaxLag \in Nat /\ ProviderLag \in Nat
      /\ MaxLostRequests \in Nat
  BY PaymentAssumption DEF PaymentAssumption, PaymentInv, PaymentTyped
<1>3. early' \in [Payments -> 0 .. MaxLag]
      /\ \A p \in Payments : early'[p] <= early[p]
  BY <1>1, <1>2 DEF Asked
<1> QED
  BY <1>1, <1>2, <1>3 DEF Asked, TimeGoesOn

\* A failure of the gateway's own request is counted.
LEMMA LossKeeps ==
  ASSUME PaymentInv, NEW r \in Requests, Lost, UNCHANGED <<route, early, held>>,
         \/ Retry(r) /\ route # "direct"
         \/ LookAgain(r, "stranded") /\ request[r].stage = "lookup"
  PROVE  PaymentInv'
<1>1. TimeGoesOn
  BY TimeStands
<1>2. request[r].payment \in Payments
  BY DEF PaymentInv, PaymentTyped, Requested
<1>3. /\ lostRequests' > lostRequests /\ lostRequests \in Nat
      /\ \A p \in Payments : /\ early[p] \in Nat /\ early'[p] = early[p]
                             /\ held[p] \in Nat /\ held'[p] = held[p]
  BY PaymentAssumption DEF PaymentAssumption, PaymentInv, PaymentTyped, Lost
<1>4. CASE Retry(r) /\ route # "direct"
  BY <1>1, <1>2, <1>3, <1>4, RetryKeeps DEF Lost
<1>5. CASE LookAgain(r, "stranded") /\ request[r].stage = "lookup"
  BY <1>1, <1>2, <1>3, <1>5, LookAgainKeeps DEF Lost
<1> QED
  BY <1>4, <1>5

LEMMA PaymentStep == PaymentInv /\ [PaymentNext]_paymentVars => PaymentInv'
<1> SUFFICES ASSUME PaymentInv, [PaymentNext]_paymentVars  PROVE PaymentInv'
  OBVIOUS
<1>1. ASSUME NEW r \in Requests, Present(r)  PROVE PaymentInv'
  <2>1. TimeGoesOn
    BY <1>1, TimeStands DEF Present
  <2>2. /\ route \in {"direct", "provider", "facilitator"}
        /\ {"lookup", "asking"} \subseteq Stages \ {"new"}
    BY DEF PaymentInv, PaymentTyped, Stages
  <2>3. CASE route = "direct"
    BY <1>1, <2>1, <2>2, <2>3, ToKeeps DEF Present
  <2>4. CASE route # "direct"
    BY <1>1, <2>1, <2>2, <2>4, ToKeeps DEF Present
  <2> QED
    BY <2>3, <2>4
<1>2. ASSUME NEW r \in Requests, LookUp(r)  PROVE PaymentInv'
  <2> DEFINE p == request[r].payment
  <2>1. /\ TimeGoesOn /\ p \in Payments /\ early[p] \in Nat
        /\ early'[p] = IF early[p] = 0 THEN 0 ELSE early[p] - 1
    BY <1>2, TimeAsks DEF LookUp
  <2>2. lostRequests' = lostRequests /\ lostRequests \in Nat
    BY <1>2, PaymentAssumption
       DEF PaymentAssumption, LookUp, PaymentInv, PaymentTyped
  <2>3. {"settled", "rejected"} \subseteq Statuses
    BY DEF Statuses
  <2>4. CASE Shown(p) /\ p \in Good
    <3>1. Answer(r, "settled")
      BY <1>2, <2>4 DEF LookUp, Found, Shown
    <3> QED
      BY <2>1, <2>3, <2>4, <3>1, AnswerKeeps DEF Shown
  <2>5. CASE Shown(p) /\ p \notin Good
    <3>1. \/ Answer(r, "rejected")
          \/ Retry(r) /\ route = "provider"
      BY <1>2, <2>5 DEF LookUp, Found, Shown, Refused
    <3>2. CASE Answer(r, "rejected")
      BY <2>1, <2>3, <2>5, <3>2, AnswerKeeps
    <3>3. CASE Retry(r) /\ route = "provider"
      BY <2>1, <2>5, <3>3, RetryKeeps
    <3> QED
      BY <3>1, <3>2, <3>3
  <2>6. CASE ~ Shown(p)
    <3>1. PICK last \in {"stranded", "pending"} : LookAgain(r, last)
      BY <1>2, <2>6 DEF LookUp
    <3>2. lostRequests' + early[p] > lostRequests + early'[p]
      BY <2>1, <2>2, <2>6 DEF Shown
    <3>3. request[r].stage = "lookup"
      BY <1>2 DEF LookUp
    <3> QED
      BY <2>1, <3>1, <3>2, <3>3, LookAgainKeeps
  <2> QED
    BY <2>4, <2>5, <2>6
<1>3. ASSUME NEW r \in Requests, LookUpFails(r)  PROVE PaymentInv'
  BY <1>3, LossKeeps DEF LookUpFails
<1>4. ASSUME NEW r \in Requests, Redeem(r)  PROVE PaymentInv'
  <2> DEFINE p == request[r].payment
  <2>1. /\ p \in Payments /\ held[p] \in Nat /\ lostRequests \in Nat
        /\ MaxLag \in Nat /\ ProviderLag \in Nat /\ MaxLostRequests \in Nat
    BY PaymentAssumption DEF PaymentAssumption, PaymentInv, PaymentTyped, Requested
  <2>2. CASE held[p] < ProviderLag
    <3>1. held' = [held EXCEPT ![p] = held[p] + 1] /\ Retry(r) /\ route = "provider"
          /\ UNCHANGED <<route, early, lostRequests>>
      BY <1>4, <2>2 DEF Redeem, Refused
    <3>2. held' \in [Payments -> 0 .. ProviderLag] /\ held'[p] = held[p] + 1
          /\ \A q \in Payments : held'[q] >= held[q]
      BY <2>1, <2>2, <3>1 DEF PaymentInv, PaymentTyped
    <3>3. TimeGoesOn
      BY <2>1, <3>1, <3>2 DEF TimeGoesOn, PaymentInv, PaymentTyped
    <3>4. held'[p] + lostRequests' > held[p] + lostRequests
      BY <2>1, <3>1, <3>2
    <3> QED
      BY <3>1, <3>3, <3>4, RetryKeeps
  <2>3. CASE ~ held[p] < ProviderLag
    <3>1. TimeGoesOn
      BY <1>4, <2>3, TimeStands DEF Redeem
    <3>2. PICK b \in Requested, s \in Statuses :
            b = request[r] /\ s = answer[r] /\ JudgedAs(b, s)'
      BY <3>1, Known
    <3> DEFINE c == [b EXCEPT !.stage = "lookup", !.lookup = 1]
    <3>3. 1 \in 1 .. Attempts /\ "lookup" \in Stages
      BY PaymentAssumption DEF PaymentAssumption, Stages
    <3>4. c \in Requested
      BY <3>3 DEF Requested
    <3>5. request' = [request EXCEPT ![r] = c] /\ route = "provider" /\ route' = route
      <4>1. /\ request' = [request EXCEPT ![r].stage = "lookup", ![r].lookup = 1]
            /\ route = "provider" /\ route' = route
        BY <1>4, <2>3 DEF Redeem
      <4>2. [request EXCEPT ![r].stage = "lookup", ![r].lookup = 1] = [request EXCEPT ![r] = c]
        BY <3>2 DEF PaymentInv, PaymentTyped
      <4> QED
        BY <4>1, <4>2
    <3>6. /\ c.payment = b.payment /\ c.lookup = 1
          /\ c.attempt = b.attempt /\ c.stage = "lookup"
      BY DEF Requested
    <3>7. c.lookup + early'[p] <= MaxLag + lostRequests' + 1
      <4>1. early'[p] \in 0 .. MaxLag /\ lostRequests' \in Nat
        BY <2>1, <3>1 DEF TimeGoesOn
      <4> QED
        BY <2>1, <3>6, <4>1
    <3>8. JudgedAs(c, s)'
      BY <3>2, <3>5, <3>6, <3>7 DEF JudgedAs
    <3>9. answer' = [answer EXCEPT ![r] = s]
      BY <1>4, <2>3, <3>2 DEF Redeem, PaymentInv, PaymentTyped
    <3> HIDE DEF c
    <3> QED
      BY <3>1, <3>4, <3>5, <3>8, <3>9, OneRequest
  <2> QED
    BY <2>2, <2>3
<1>5. ASSUME NEW r \in Requests, RedeemFails(r)  PROVE PaymentInv'
  BY <1>5, LossKeeps DEF RedeemFails
<1>6. ASSUME NEW r \in Requests, Verify(r)  PROVE PaymentInv'
  <2> DEFINE p == request[r].payment
  <2>1. /\ TimeGoesOn /\ p \in Payments /\ early[p] \in Nat
        /\ early'[p] = IF early[p] = 0 THEN 0 ELSE early[p] - 1
        /\ lostRequests' = lostRequests /\ lostRequests \in Nat
    BY <1>6, TimeAsks, PaymentAssumption
       DEF Verify, PaymentAssumption, PaymentInv, PaymentTyped
  <2>2. route = "facilitator" /\ "rejected" \in Statuses /\ "settling" \in Stages
    BY <1>6 DEF Verify, Statuses, Stages
  <2>3. CASE early[p] > 0
    <3>1. Retry(r)
      BY <1>6, <2>1, <2>3 DEF Verify, Shown
    <3>2. lostRequests' + early[p] > lostRequests + early'[p]
      BY <2>1, <2>3
    <3> QED
      BY <2>1, <2>2, <3>1, <3>2, RetryKeeps
  <2>4. CASE early[p] = 0 /\ p \notin Good
    <3>1. Answer(r, "rejected")
      BY <1>6, <2>4 DEF Verify, Shown
    <3> QED
      BY <2>1, <2>2, <2>4, <3>1, AnswerKeeps
  <2>5. CASE early[p] = 0 /\ p \in Good
    <3>1. To(r, "settling") /\ UNCHANGED answer
      BY <1>6, <2>5 DEF Verify, Shown
    <3> QED
      BY <2>1, <2>2, <2>5, <3>1, ToKeeps
  <2> QED
    BY <2>1, <2>3, <2>4, <2>5
<1>7. ASSUME NEW r \in Requests, Settle(r)  PROVE PaymentInv'
  <2>1. TimeGoesOn /\ early' = early
    BY <1>7, TimeStands DEF Settle
  <2>2. JudgedAs(request[r], answer[r]) /\ "settled" \in Statuses
    BY DEF PaymentInv, Statuses
  <2> QED
    BY <1>7, <2>1, <2>2, AnswerKeeps DEF Settle, JudgedAs
<1>8. ASSUME NEW r \in Requests, FacilitatorFails(r)  PROVE PaymentInv'
  BY <1>8, LossKeeps DEF FacilitatorFails
<1>9. CASE UNCHANGED paymentVars
  BY <1>9 DEF paymentVars, PaymentInv, PaymentTyped, JudgedAs, Patience
<1> QED
  BY <1>1, <1>2, <1>3, <1>4, <1>5, <1>6, <1>7, <1>8, <1>9 DEF PaymentNext, Handling

LEMMA PaymentInvariant == PaymentSpec => []PaymentInv
<1>1. PaymentInit => PaymentInv
  <2> SUFFICES ASSUME PaymentInit  PROVE PaymentInv
    OBVIOUS
  <2> USE PaymentAssumption DEF PaymentAssumption
  <2>1. request \in [Requests -> Requested]
    BY DEF PaymentInit, Requested, Stages
  <2>2. PaymentTyped
    BY <2>1 DEF PaymentInit, PaymentTyped, Statuses
  <2>3. ASSUME NEW r \in Requests  PROVE JudgedAs(request[r], answer[r])
    <3>1. /\ request[r].stage = "new" /\ request[r].attempt = 1
          /\ request[r].lookup = 1 /\ request[r].payment \in Payments
          /\ answer[r] = "none" /\ lostRequests = 0
      BY DEF PaymentInit
    <3>2. /\ early[request[r].payment] \in 0 .. MaxLag
          /\ held[request[r].payment] \in 0 .. ProviderLag
      BY <2>2, <3>1 DEF PaymentTyped
    <3> QED
      BY <3>1, <3>2 DEF JudgedAs
  <2> QED
    BY <2>2, <2>3 DEF PaymentInv
<1> QED
  BY <1>1, PaymentStep, PTL DEF PaymentSpec

\* Every way to settle, whatever is lost and however many requests present the
\* same transfer: what is called settled is on the chain and passes the check, and a
\* good payment that shows up within the attempts is never refused.
THEOREM PaymentCorrect == PaymentSpec => []PaymentIsJudged
<1>1. PaymentInv => PaymentIsJudged
  BY DEF PaymentInv, PaymentIsJudged, JudgedAs
<1> QED
  BY <1>1, PaymentInvariant, PTL

-----------------------------------------------------------------------------
(***************************************************************************)
(* Suppression.                                                            *)
(***************************************************************************)

Rules == [print : Prints, source : Sources, count : 0 .. MaxSuppressions]

Decisions == {Verdict(v) : v \in {"none", "route", "unruled"}}
               \cup {SuppressedUnder(i) : i \in DOMAIN rules}

Undecided(x) == x \in Signals /\ decision[x] = Verdict("none")

LookingUp(w) == \E x \in Signals :
  work[w] = [stage |-> "lookup", signal |-> x] /\ Undecided(x)

Spending(w) == \E x \in Signals, i \in DOMAIN rules :
  /\ work[w] = [stage |-> "spend", signal |-> x, rule |-> i]
  /\ Undecided(x) /\ PrintOf[x] = rules[i].print

\* The signals a rule suppressed are paid for by its count.
Paid(i) ==
  /\ IsFiniteSet(SuppressedBy(i))
  /\ Cardinality(SuppressedBy(i)) <= rules[i].count
  /\ \A x \in SuppressedBy(i) : PrintOf[x] = rules[i].print

\* No fingerprint has two rules in force, and no signal is in two hands.
SuppressionInv ==
  /\ rules \in Seq(Rules)
  /\ deleted \subseteq DOMAIN rules
  /\ \A i \in deleted : rules[i].source = "demo"
  /\ DOMAIN work = Triagers
  /\ decision \in [Signals -> Decisions]
  /\ \A i, j \in DOMAIN rules \ deleted : rules[i].print = rules[j].print => i = j
  /\ \A w \in Triagers : work[w] = NoWork \/ LookingUp(w) \/ Spending(w)
  /\ \A v, w \in Triagers :
       work[v] # NoWork /\ work[w] # NoWork /\ work[v].signal = work[w].signal
         => v = w
  /\ \A i \in DOMAIN rules : Paid(i)

LEMMA VerdictsDiffer ==
  /\ \A i, v : SuppressedUnder(i) # Verdict("none") /\ SuppressedUnder(i) # Verdict("route")
               /\ SuppressedUnder(i) # Verdict("unruled")
  /\ \A i, j : SuppressedUnder(i) = SuppressedUnder(j) => i = j
  /\ Verdict("none") # Verdict("route") /\ Verdict("none") # Verdict("unruled")
  BY DEF SuppressedUnder, Verdict

LEMMA WorkShape ==
  ASSUME NEW x, NEW i
  PROVE  /\ NoWork.stage = "idle"
         /\ [stage |-> "lookup", signal |-> x] # NoWork
         /\ [stage |-> "spend", signal |-> x, rule |-> i] # NoWork
         /\ [stage |-> "lookup", signal |-> x].stage = "lookup"
         /\ [stage |-> "lookup", signal |-> x].signal = x
         /\ [stage |-> "spend", signal |-> x, rule |-> i].stage = "spend"
         /\ [stage |-> "spend", signal |-> x, rule |-> i].signal = x
         /\ [stage |-> "spend", signal |-> x, rule |-> i].rule = i
  BY DEF NoWork

\* The rules there are keep their fingerprints and sources, and their counts
\* only grow.
RulesGrow ==
  /\ rules' \in Seq(Rules)
  /\ DOMAIN rules' = DOMAIN rules
  /\ \A i \in DOMAIN rules :
       /\ rules'[i].print = rules[i].print /\ rules'[i].source = rules[i].source
       /\ rules'[i].count >= rules[i].count
  /\ UNCHANGED deleted

LEMMA CountGrows ==
  ASSUME SuppressionInv, NEW i \in DOMAIN rules, Spendable(i),
         rules' = [rules EXCEPT ![i].count = @ + 1], UNCHANGED deleted
  PROVE  RulesGrow /\ rules'[i].count = rules[i].count + 1
<1>1. /\ rules \in Seq(Rules) /\ i \in 1 .. Len(rules) /\ Len(rules) \in Nat
      /\ DOMAIN rules = 1 .. Len(rules)
      /\ \A j \in DOMAIN rules : rules[j] \in Rules
  BY DEF SuppressionInv
<1>2. MaxSuppressions \in Nat
  BY SuppressionAssumption DEF SuppressionAssumption
<1>3. [rules[i] EXCEPT !.count = rules[i].count + 1] \in Rules
  <2>1. rules[i].count + 1 \in 0 .. MaxSuppressions /\ rules[i] \in Rules
    BY <1>1, <1>2 DEF Spendable, Rules
  <2> QED
    BY <2>1 DEF Rules
<1>4. rules' = [rules EXCEPT ![i] = [rules[i] EXCEPT !.count = rules[i].count + 1]]
  OBVIOUS
<1>5. /\ rules' \in [1 .. Len(rules) -> Rules]
      /\ DOMAIN rules' = DOMAIN rules
  BY <1>1, <1>3, <1>4
<1>6. rules' \in Seq(Rules)
  BY <1>1, <1>5
<1>7. \A j \in DOMAIN rules : j # i => rules'[j] = rules[j]
  BY <1>1, <1>4
<1>8. rules'[i] = [rules[i] EXCEPT !.count = rules[i].count + 1] /\ rules[i] \in Rules
  BY <1>1, <1>4
<1>9. /\ rules'[i].count = rules[i].count + 1 /\ rules'[i].print = rules[i].print
      /\ rules'[i].source = rules[i].source /\ rules[i].count \in Nat
  BY <1>2, <1>8 DEF Rules
<1>10. \A j \in DOMAIN rules : rules[j].count \in Nat
  BY <1>1, <1>2 DEF Rules
<1> QED
  BY <1>5, <1>6, <1>7, <1>9, <1>10 DEF RulesGrow

\* A worker ends with a decision.  Only a suppression needs an increment.
LEMMA DecideKeeps ==
  ASSUME SuppressionInv, NEW w \in Triagers, work[w] # NoWork, NEW d,
         Decide(w, d), RulesGrow,
         \/ d \in {Verdict("route"), Verdict("unruled")}
         \/ /\ work[w].stage = "spend" /\ d = SuppressedUnder(work[w].rule)
            /\ rules'[work[w].rule].count = rules[work[w].rule].count + 1
  PROVE  SuppressionInv'
<1> DEFINE x == work[w].signal
<1>1. /\ Undecided(x)
      /\ work[w].stage = "spend" =>
           /\ work[w].rule \in DOMAIN rules
           /\ PrintOf[x] = rules[work[w].rule].print
  BY WorkShape DEF SuppressionInv, LookingUp, Spending
<1>2. /\ \A i \in DOMAIN rules : rules[i].count \in Nat /\ rules'[i].count \in Nat
      /\ MaxSuppressions \in Nat
  <2>1. \A i \in DOMAIN rules : rules[i] \in Rules /\ rules'[i] \in Rules
    BY DEF SuppressionInv, RulesGrow
  <2> QED
    BY <2>1, SuppressionAssumption DEF SuppressionAssumption, Rules
<1>3. /\ decision' = [decision EXCEPT ![x] = d] /\ work' = [work EXCEPT ![w] = NoWork]
      /\ x \in Signals /\ decision[x] = Verdict("none")
      /\ decision \in [Signals -> Decisions] /\ DOMAIN work = Triagers
  BY <1>1 DEF Decide, SuppressionInv, Undecided
<1>4. decision' \in [Signals -> Decisions']
  <2>1. d \in Decisions
    BY <1>1 DEF Decisions
  <2>2. Decisions' = Decisions
    BY DEF RulesGrow, Decisions, SuppressedUnder, Verdict
  <2> QED
    BY <1>3, <2>1, <2>2
<1>5. \A v \in Triagers : v # w => work'[v] = work[v]
  BY <1>3
<1>6. \A v \in Triagers : v # w /\ work[v] # NoWork => work[v].signal # x
  BY DEF SuppressionInv
<1>7. ASSUME NEW v \in Triagers
      PROVE  (work[v] = NoWork \/ LookingUp(v) \/ Spending(v))'
  <2>1. CASE v = w
    BY <1>3, <2>1
  <2>2. CASE v # w /\ work[v] = NoWork
    BY <1>5, <2>2
  <2>3. CASE v # w /\ LookingUp(v)
    <3>1. PICK y \in Signals :
            work[v] = [stage |-> "lookup", signal |-> y] /\ Undecided(y)
      BY <2>3 DEF LookingUp
    <3>2. y # x
      BY <1>6, <2>3, <3>1, WorkShape
    <3>3. Undecided(y)'
      BY <1>3, <3>1, <3>2 DEF Undecided
    <3> QED
      BY <1>5, <2>3, <3>1, <3>3 DEF LookingUp
  <2>4. CASE v # w /\ Spending(v)
    <3>1. PICK y \in Signals, i \in DOMAIN rules :
            /\ work[v] = [stage |-> "spend", signal |-> y, rule |-> i]
            /\ Undecided(y) /\ PrintOf[y] = rules[i].print
      BY <2>4 DEF Spending
    <3>2. y # x
      BY <1>6, <2>4, <3>1, WorkShape
    <3>3. Undecided(y)'
      BY <1>3, <3>1, <3>2 DEF Undecided
    <3> QED
      BY <1>5, <2>4, <3>1, <3>3 DEF Spending, RulesGrow
  <2> QED
    BY <2>1, <2>2, <2>3, <2>4 DEF SuppressionInv
<1>8. ASSUME NEW i \in DOMAIN rules  PROVE Paid(i)'
  <2>1. CASE d = SuppressedUnder(i)
    <3>1. /\ i = work[w].rule /\ PrintOf[x] = rules[i].print
          /\ rules'[i].count = rules[i].count + 1
      BY <1>1, <2>1, VerdictsDiffer
    <3>2. SuppressedBy(i)' = SuppressedBy(i) \cup {x}
      BY <1>3, <2>1 DEF SuppressedBy, SuppressedUnder
    <3>3. /\ IsFiniteSet(SuppressedBy(i)) /\ Cardinality(SuppressedBy(i)) \in Nat
          /\ Cardinality(SuppressedBy(i)) <= rules[i].count
          /\ \A y \in SuppressedBy(i) : PrintOf[y] = rules[i].print
      BY FS_CardinalityType DEF SuppressionInv, Paid
    <3>4. /\ IsFiniteSet(SuppressedBy(i) \cup {x})
          /\ Cardinality(SuppressedBy(i) \cup {x}) <= Cardinality(SuppressedBy(i)) + 1
      <4>1. /\ IsFiniteSet(SuppressedBy(i) \cup {x})
            /\ \/ Cardinality(SuppressedBy(i) \cup {x}) = Cardinality(SuppressedBy(i))
               \/ Cardinality(SuppressedBy(i) \cup {x}) = Cardinality(SuppressedBy(i)) + 1
        BY <3>3, FS_AddElement
      <4> QED
        BY <3>3, <4>1
    <3>5. Cardinality(SuppressedBy(i) \cup {x}) \in Nat
      BY <3>4, FS_CardinalityType
    <3>6. Cardinality(SuppressedBy(i) \cup {x}) <= rules'[i].count
      BY <1>2, <3>1, <3>3, <3>4, <3>5
    <3> QED
      BY <3>1, <3>2, <3>3, <3>4, <3>6 DEF Paid, RulesGrow
  <2>2. CASE d # SuppressedUnder(i)
    <3>1. SuppressedBy(i)' = SuppressedBy(i)
      BY <1>3, <2>2, VerdictsDiffer DEF SuppressedBy, SuppressedUnder
    <3>2. /\ IsFiniteSet(SuppressedBy(i)) /\ Cardinality(SuppressedBy(i)) \in Nat
          /\ Cardinality(SuppressedBy(i)) <= rules[i].count
          /\ \A y \in SuppressedBy(i) : PrintOf[y] = rules[i].print
      BY FS_CardinalityType DEF SuppressionInv, Paid
    <3>3. rules'[i].print = rules[i].print /\ rules'[i].count >= rules[i].count
      BY DEF RulesGrow
    <3>4. Cardinality(SuppressedBy(i)) <= rules'[i].count
      BY <1>2, <3>2, <3>3
    <3> QED
      BY <3>1, <3>2, <3>3, <3>4 DEF Paid
  <2> QED
    BY <2>1, <2>2
<1>9. \A u, v \in Triagers :
        work'[u] # NoWork /\ work'[v] # NoWork /\ work'[u].signal = work'[v].signal
          => u = v
  BY <1>3, <1>5 DEF SuppressionInv
<1>10. /\ rules' \in Seq(Rules) /\ DOMAIN work' = Triagers
       /\ deleted' \subseteq DOMAIN rules' /\ \A i \in deleted' : rules'[i].source = "demo"
       /\ \A i, j \in DOMAIN rules' \ deleted' : rules'[i].print = rules'[j].print => i = j
  BY <1>3 DEF RulesGrow, SuppressionInv
<1>11. \A i \in DOMAIN rules' : Paid(i)'
  BY <1>8 DEF RulesGrow
<1> QED
  BY <1>4, <1>7, <1>9, <1>10, <1>11 DEF SuppressionInv, Rules, NoWork

LEMMA RulesStand ==
  ASSUME SuppressionInv, UNCHANGED <<rules, deleted>>
  PROVE  RulesGrow
<1>1. \A i \in DOMAIN rules : rules[i].count \in Nat
  <2>1. \A i \in DOMAIN rules : rules[i] \in Rules
    BY DEF SuppressionInv
  <2> QED
    BY <2>1, SuppressionAssumption DEF SuppressionAssumption, Rules
<1> QED
  BY <1>1 DEF SuppressionInv, RulesGrow

JobFor(job, x) ==
  \/ job = [stage |-> "lookup", signal |-> x]
  \/ \E i \in DOMAIN rules :
       /\ job = [stage |-> "spend", signal |-> x, rule |-> i]
       /\ PrintOf[x] = rules[i].print

\* A worker takes up a signal nobody has, or a rule for the signal it has.
LEMMA WorkKeeps ==
  ASSUME SuppressionInv, NEW w \in Triagers, NEW job, NEW x \in Signals,
         work' = [work EXCEPT ![w] = job], UNCHANGED <<rules, deleted, decision>>,
         Undecided(x), job # NoWork, job.signal = x,
         \A v \in Triagers : v # w /\ work[v] # NoWork => work[v].signal # x,
         JobFor(job, x)
  PROVE  SuppressionInv'
<1>1. /\ DOMAIN work' = Triagers /\ work'[w] = job
      /\ \A v \in Triagers : v # w => work'[v] = work[v]
  BY DEF SuppressionInv
<1>2. ASSUME NEW v \in Triagers
      PROVE  (work[v] = NoWork \/ LookingUp(v) \/ Spending(v))'
  <2>1. CASE v # w
    BY <1>1, <2>1 DEF SuppressionInv, LookingUp, Spending, Undecided, NoWork
  <2>2. CASE v = w /\ job = [stage |-> "lookup", signal |-> x]
    BY <1>1, <2>2 DEF LookingUp, Undecided
  <2>3. ASSUME v = w, NEW i \in DOMAIN rules,
               job = [stage |-> "spend", signal |-> x, rule |-> i],
               PrintOf[x] = rules[i].print
        PROVE  Spending(v)'
    BY <1>1, <2>3 DEF Spending, Undecided
  <2> QED
    BY <2>1, <2>2, <2>3 DEF JobFor
<1>3. \A u, v \in Triagers :
        work'[u] # NoWork /\ work'[v] # NoWork /\ work'[u].signal = work'[v].signal
          => u = v
  BY <1>1 DEF SuppressionInv
<1>4. \A i \in DOMAIN rules' : Paid(i)'
  BY DEF SuppressionInv, Paid, SuppressedBy
<1>5. /\ rules' \in Seq(Rules) /\ decision' \in [Signals -> Decisions']
      /\ deleted' \subseteq DOMAIN rules' /\ \A i \in deleted' : rules'[i].source = "demo"
      /\ \A i, j \in DOMAIN rules' \ deleted' : rules'[i].print = rules'[j].print => i = j
  BY DEF SuppressionInv, Decisions
<1> QED
  BY <1>1, <1>2, <1>3, <1>4, <1>5 DEF SuppressionInv, Rules, NoWork

LEMMA LearnKeeps ==
  ASSUME SuppressionInv, NEW f \in Prints, NEW source \in Sources, Learn(f, source)
  PROVE  SuppressionInv'
<1> DEFINE new == [print |-> f, source |-> source, count |-> 0]
<1>1. /\ rules \in Seq(Rules) /\ Len(rules) \in Nat /\ DOMAIN rules = 1 .. Len(rules)
      /\ rules' = Append(rules, new)
      /\ deleted \subseteq DOMAIN rules
      /\ \A i \in DOMAIN rules \ deleted : rules[i].print # f
      /\ UNCHANGED <<deleted, work, decision>>
  BY DEF SuppressionInv, Learn, HasRule
<1>2. new \in Rules
  BY SuppressionAssumption DEF SuppressionAssumption, Rules
<1>3. /\ rules' \in Seq(Rules) /\ DOMAIN rules' = 1 .. Len(rules) + 1
      /\ \A i \in DOMAIN rules : rules'[i] = rules[i]
      /\ rules'[Len(rules) + 1] = new
  <2> HIDE DEF new
  <2> QED
    BY <1>1, <1>2
<1>4. \A i \in DOMAIN rules' : i \in DOMAIN rules \/ i = Len(rules) + 1
  BY <1>1, <1>3
<1>5. DOMAIN rules \subseteq DOMAIN rules' /\ Len(rules) + 1 \notin DOMAIN rules
  BY <1>1, <1>3
<1>6. /\ deleted' \subseteq DOMAIN rules' /\ \A i \in deleted' : rules'[i].source = "demo"
      /\ \A i, j \in DOMAIN rules' \ deleted' : rules'[i].print = rules'[j].print => i = j
  <2>1. new.print = f
    OBVIOUS
  <2> HIDE DEF new
  <2> QED
    BY <1>1, <1>3, <1>4, <1>5, <2>1 DEF SuppressionInv
<1>7. decision' \in [Signals -> Decisions']
  BY <1>1, <1>5 DEF SuppressionInv, Decisions, SuppressedUnder, Verdict
<1>8. ASSUME NEW w \in Triagers
      PROVE  (work[w] = NoWork \/ LookingUp(w) \/ Spending(w))'
  <2>1. CASE work[w] = NoWork \/ LookingUp(w)
    BY <1>1, <2>1 DEF LookingUp, Undecided, NoWork, Verdict
  <2>2. CASE Spending(w)
    <3>1. PICK x \in Signals, i \in DOMAIN rules :
            /\ work[w] = [stage |-> "spend", signal |-> x, rule |-> i]
            /\ Undecided(x) /\ PrintOf[x] = rules[i].print
      BY <2>2 DEF Spending
    <3>2. i \in DOMAIN rules' /\ rules'[i] = rules[i] /\ Undecided(x)'
      BY <1>1, <1>3, <1>5, <3>1 DEF Undecided, Verdict
    <3> QED
      BY <1>1, <3>1, <3>2 DEF Spending
  <2> QED
    BY <2>1, <2>2 DEF SuppressionInv
<1>9. ASSUME NEW i \in DOMAIN rules'  PROVE Paid(i)'
  <2>1. SuppressedBy(i)' = SuppressedBy(i)
    BY <1>1 DEF SuppressedBy, SuppressedUnder
  <2>2. CASE i \in DOMAIN rules
    BY <1>3, <2>1, <2>2 DEF SuppressionInv, Paid
  <2>3. CASE i \notin DOMAIN rules
    <3>1. SuppressedBy(i) = {}
      <4>1. \A x \in Signals : decision[x] # SuppressedUnder(i)
        BY <2>3, VerdictsDiffer DEF SuppressionInv, Decisions
      <4> QED
        BY <4>1 DEF SuppressedBy
    <3>2. rules'[i].count = 0
      BY <1>3, <1>4, <2>3
    <3> QED
      BY <2>1, <3>1, <3>2, FS_EmptySet DEF Paid
  <2> QED
    BY <2>2, <2>3
<1>10. /\ DOMAIN work' = Triagers
       /\ \A u, v \in Triagers :
            work'[u] # NoWork /\ work'[v] # NoWork /\ work'[u].signal = work'[v].signal
              => u = v
  BY <1>1 DEF SuppressionInv
<1> QED
  BY <1>3, <1>6, <1>7, <1>8, <1>9, <1>10 DEF SuppressionInv, Rules, NoWork

\* A reset only adds to the deleted rules, and only demo ones.
LEMMA DeleteKeeps ==
  ASSUME SuppressionInv, DeleteDemoRules
  PROVE  SuppressionInv'
<1>1. /\ UNCHANGED <<rules, work, decision>>
      /\ deleted' = {i \in DOMAIN rules : rules[i].source = "demo"}
  BY DEF DeleteDemoRules
<1>2. deleted \subseteq deleted' /\ deleted' \subseteq DOMAIN rules
      /\ \A i \in deleted' : rules[i].source = "demo"
  BY <1>1 DEF SuppressionInv
<1>3. \A i, j \in DOMAIN rules \ deleted' : rules[i].print = rules[j].print => i = j
  BY <1>2 DEF SuppressionInv
<1>4. \A w : LookingUp(w)' = LookingUp(w) /\ Spending(w)' = Spending(w)
  BY <1>1 DEF LookingUp, Spending, Undecided
<1>5. \A i \in DOMAIN rules : Paid(i)' = Paid(i)
  BY <1>1 DEF Paid, SuppressedBy
<1>6. Decisions' = Decisions
  BY <1>1 DEF Decisions
<1> QED
  BY <1>1, <1>2, <1>3, <1>4, <1>5, <1>6 DEF SuppressionInv

LEMMA SuppressionStep ==
  SuppressionInv /\ [SuppressionNext]_suppressionVars => SuppressionInv'
<1> SUFFICES ASSUME SuppressionInv, [SuppressionNext]_suppressionVars
             PROVE  SuppressionInv'
  OBVIOUS
<1>1. ASSUME NEW w \in Triagers, NEW x \in Signals, Classify(w, x)
      PROVE  SuppressionInv'
  <2>1. work[w] = NoWork /\ Undecided(x) /\ UNCHANGED <<rules, deleted>>
        /\ \A v \in Triagers : work[v] # NoWork => work[v].signal # x
    BY <1>1 DEF Classify, Undecided
  <2>2. CASE work' = [work EXCEPT ![w] = [stage |-> "lookup", signal |-> x]]
             /\ UNCHANGED decision
    <3> DEFINE job == [stage |-> "lookup", signal |-> x]
    <3>1. job # NoWork /\ job.signal = x
      BY WorkShape
    <3>2. JobFor(job, x)
      BY DEF JobFor
    <3> HIDE DEF job
    <3>3. work' = [work EXCEPT ![w] = job]
      BY <2>2 DEF job
    <3> QED
      BY <2>1, <2>2, <3>1, <3>2, <3>3, WorkKeeps
  <2>3. CASE decision' = [decision EXCEPT ![x] = Verdict("route")] /\ UNCHANGED work
    <3>1. \A v \in Triagers : LookingUp(v) \/ Spending(v) => work[v] # NoWork
      <4>1. \A v : LookingUp(v) => work[v] # NoWork
        BY WorkShape DEF LookingUp
      <4>2. \A v : Spending(v) => work[v] # NoWork
        BY WorkShape DEF Spending
      <4> QED
        BY <4>1, <4>2
    <3>2. decision \in [Signals -> Decisions] /\ Verdict("route") \in Decisions
      BY DEF SuppressionInv, Decisions
    <3>3. decision' \in [Signals -> Decisions']
      BY <2>1, <2>3, <3>2 DEF Decisions
    <3>4. ASSUME NEW i \in DOMAIN rules  PROVE Paid(i)'
      <4>1. SuppressedBy(i)' = SuppressedBy(i)
        BY <2>1, <2>3, <3>2, VerdictsDiffer DEF SuppressedBy, Undecided, SuppressedUnder
      <4> QED
        BY <2>1, <4>1 DEF SuppressionInv, Paid
    <3>5. ASSUME NEW v \in Triagers
          PROVE  (work[v] = NoWork \/ LookingUp(v) \/ Spending(v))'
      <4>1. CASE work[v] = NoWork
        BY <2>3, <4>1
      <4>2. CASE LookingUp(v)
        <5>1. PICK y \in Signals :
                work[v] = [stage |-> "lookup", signal |-> y] /\ Undecided(y)
          BY <4>2 DEF LookingUp
        <5>2. y # x
          BY <2>1, <3>1, <4>2, <5>1, WorkShape
        <5>3. Undecided(y)'
          BY <2>3, <3>2, <5>1, <5>2 DEF Undecided, Verdict
        <5> QED
          BY <2>3, <5>1, <5>3 DEF LookingUp
      <4>3. CASE Spending(v)
        <5>1. PICK y \in Signals, i \in DOMAIN rules :
                /\ work[v] = [stage |-> "spend", signal |-> y, rule |-> i]
                /\ Undecided(y) /\ PrintOf[y] = rules[i].print
          BY <4>3 DEF Spending
        <5>2. y # x
          BY <2>1, <3>1, <4>3, <5>1, WorkShape
        <5>3. Undecided(y)'
          BY <2>3, <3>2, <5>1, <5>2 DEF Undecided, Verdict
        <5> QED
          BY <2>1, <2>3, <5>1, <5>3 DEF Spending
      <4> QED
        BY <4>1, <4>2, <4>3 DEF SuppressionInv
    <3> QED
      BY <2>1, <2>3, <3>3, <3>4, <3>5 DEF SuppressionInv, Rules, NoWork
  <2> QED
    BY <1>1, <2>2, <2>3 DEF Classify
<1>2. ASSUME NEW w \in Triagers, LookUpRule(w)  PROVE SuppressionInv'
  <2>1. PICK x \in Signals :
          work[w] = [stage |-> "lookup", signal |-> x] /\ Undecided(x)
    BY <1>2, WorkShape DEF LookUpRule, SuppressionInv, LookingUp, Spending
  <2>2. work[w] # NoWork /\ work[w].signal = x /\ UNCHANGED <<rules, deleted>>
    BY <1>2, <2>1, WorkShape DEF LookUpRule
  <2>3. CASE Decide(w, Verdict("unruled"))
    BY <2>2, <2>3, RulesStand, DecideKeeps
  <2>4. ASSUME NEW i \in Usable(PrintOf[x]),
               work' = [work EXCEPT ![w] =
                         [stage |-> "spend", signal |-> work[w].signal, rule |-> i]],
               UNCHANGED decision
        PROVE  SuppressionInv'
    <3>1. PICK job : job = [stage |-> "spend", signal |-> x, rule |-> i]
      OBVIOUS
    <3>2. /\ work' = [work EXCEPT ![w] = job] /\ i \in DOMAIN rules
          /\ PrintOf[x] = rules[i].print
      BY <2>2, <2>4, <3>1 DEF Usable
    <3>3. \A v \in Triagers : v # w /\ work[v] # NoWork => work[v].signal # x
      BY <2>2 DEF SuppressionInv
    <3>4. job # NoWork /\ job.signal = x
      BY <3>1, WorkShape
    <3>5. JobFor(job, x)
      BY <3>1, <3>2 DEF JobFor
    <3>6. Undecided(x) /\ UNCHANGED <<rules, deleted, decision>> /\ x \in Signals
      BY <2>1, <2>2, <2>4
    <3> QED
      BY <3>2, <3>3, <3>4, <3>5, <3>6, WorkKeeps
  <2> QED
    BY <1>2, <2>2, <2>3, <2>4 DEF LookUpRule
<1>3. ASSUME NEW w \in Triagers, Spend(w)  PROVE SuppressionInv'
  <2>1. work[w] # NoWork /\ work[w].stage = "spend" /\ work[w].rule \in DOMAIN rules
    BY <1>3, WorkShape DEF Spend, SuppressionInv, LookingUp, Spending
  <2>2. CASE Spendable(work[w].rule)
    <3>1. /\ rules' = [rules EXCEPT ![work[w].rule].count = @ + 1] /\ UNCHANGED deleted
          /\ Decide(w, SuppressedUnder(work[w].rule))
      BY <1>3, <2>2 DEF Spend
    <3>2. RulesGrow /\ rules'[work[w].rule].count = rules[work[w].rule].count + 1
      BY <2>1, <2>2, <3>1, CountGrows
    <3> QED
      BY <2>1, <3>1, <3>2, DecideKeeps
  <2>3. CASE ~ Spendable(work[w].rule)
    BY <1>3, <2>1, <2>3, RulesStand, DecideKeeps DEF Spend
  <2> QED
    BY <2>2, <2>3
<1>4. ASSUME NEW w \in Triagers, AnswerLost(w)  PROVE SuppressionInv'
  <2>1. /\ work[w] # NoWork
        /\ work[w].stage = "spend" => work[w].rule \in DOMAIN rules
    BY <1>4, WorkShape DEF AnswerLost, SuppressionInv, LookingUp, Spending
  <2>2. RulesGrow
    BY <1>4, <2>1, RulesStand, CountGrows DEF AnswerLost
  <2> QED
    BY <1>4, <2>1, <2>2, DecideKeeps DEF AnswerLost
<1>5. CASE UNCHANGED suppressionVars
  <2>1. UNCHANGED <<rules, deleted, work, decision>>
    BY <1>5 DEF suppressionVars
  <2>2. \A w : LookingUp(w)' = LookingUp(w) /\ Spending(w)' = Spending(w)
    BY <2>1 DEF LookingUp, Spending, Undecided
  <2>3. \A i \in DOMAIN rules : Paid(i)' = Paid(i)
    BY <2>1 DEF Paid, SuppressedBy
  <2>4. Decisions' = Decisions
    BY <2>1 DEF Decisions
  <2> QED
    BY <2>1, <2>2, <2>3, <2>4 DEF SuppressionInv
<1> QED
  BY <1>1, <1>2, <1>3, <1>4, <1>5, LearnKeeps, DeleteKeeps DEF SuppressionNext

LEMMA SuppressionInvariant == SuppressionSpec => []SuppressionInv
<1>1. SuppressionInit => SuppressionInv
  <2> SUFFICES ASSUME SuppressionInit  PROVE SuppressionInv
    OBVIOUS
  <2>1. rules \in Seq(Rules) /\ DOMAIN rules = {} /\ deleted = {}
    BY DEF SuppressionInit
  <2> QED
    BY <2>1 DEF SuppressionInit, SuppressionInv, Decisions
<1> QED
  BY <1>1, SuppressionStep, PTL DEF SuppressionSpec

\* However triage agents interleave their lookups and increments with each
\* other, with new rules and with the deletions of a demo reset, and whatever
\* answers are lost: a rule is never spent beyond MaxSuppressions, the rules in
\* force for a fingerprint cost no more than that together, and only rules
\* learned from demo proposals are ever deleted.
THEOREM SuppressionCorrect == SuppressionSpec => []PrintIsBounded
<1>1. SuppressionInv => PrintIsBounded
  <2> SUFFICES ASSUME SuppressionInv  PROVE PrintIsBounded
    OBVIOUS
  <2>1. ASSUME NEW f \in Prints
        PROVE  Cardinality(UNION {SuppressedBy(i) : i \in RulesFor(f)})
                 <= MaxSuppressions
    <3>1. MaxSuppressions \in Nat
      BY SuppressionAssumption DEF SuppressionAssumption
    <3>2. CASE RulesFor(f) = {}
      <4>1. UNION {SuppressedBy(i) : i \in RulesFor(f)} = {}
        BY <3>2
      <4> QED
        BY <3>1, <4>1, FS_EmptySet
    <3>3. ASSUME NEW i \in RulesFor(f)
          PROVE  Cardinality(UNION {SuppressedBy(j) : j \in RulesFor(f)})
                   <= MaxSuppressions
      <4>1. i \in DOMAIN rules /\ \A j \in RulesFor(f) : j = i
        BY DEF RulesFor, SuppressionInv
      <4>2. UNION {SuppressedBy(j) : j \in RulesFor(f)} = SuppressedBy(i)
        BY <4>1
      <4>3. /\ Cardinality(SuppressedBy(i)) \in Nat
            /\ Cardinality(SuppressedBy(i)) <= rules[i].count
        BY <4>1, FS_CardinalityType DEF SuppressionInv, Paid
      <4>4. rules[i].count \in 0 .. MaxSuppressions
        <5>1. rules[i] \in Rules
          BY <4>1 DEF SuppressionInv
        <5> QED
          BY <5>1 DEF Rules
      <4> QED
        BY <3>1, <4>2, <4>3, <4>4
    <3> QED
      BY <3>2, <3>3
  <2>2. \A i \in DOMAIN rules : rules[i].count <= MaxSuppressions
    <3>1. \A i \in DOMAIN rules : rules[i] \in Rules
      BY DEF SuppressionInv
    <3> QED
      BY <3>1, SuppressionAssumption DEF SuppressionAssumption, Rules
  <2> QED
    BY <2>1, <2>2 DEF PrintIsBounded, SuppressionInv, Paid
<1> QED
  BY <1>1, SuppressionInvariant, PTL

-----------------------------------------------------------------------------
(***************************************************************************)
(* OdraReceipt.                                                            *)
(***************************************************************************)

\* Approvals are by signers of a proposed envelope, nobody is a signer before the
\* quorum is configured, and receipts have their quorum.
OdraInv ==
  /\ OdraTypeOK
  /\ threshold = 0 => signers = {}
  /\ CountIsApprovers
  /\ \A p \in Proposals : receipts[p] # NoReceipt => threshold > 0 /\ counts[p] >= threshold

\* One more approval is one more approver, and only of that proposal.
LEMMA OneMoreApprover ==
  ASSUME NEW p \in Proposals, NEW a \in Callers, NEW q \in Proposals,
         <<p, a>> \notin markers, markers' = markers \cup {<<p, a>>}
  PROVE  /\ q # p => ApprovedBy(q)' = ApprovedBy(q)
         /\ ApprovedBy(p)' = ApprovedBy(p) \cup {a}
         /\ Cardinality(ApprovedBy(p)') = Cardinality(ApprovedBy(p)) + 1
<1>1. ApprovedBy(p)' = ApprovedBy(p) \cup {a}
  BY DEF ApprovedBy
<1>2. q # p => ApprovedBy(q)' = ApprovedBy(q)
  BY DEF ApprovedBy
<1>3. IsFiniteSet(ApprovedBy(p)) /\ a \notin ApprovedBy(p)
  BY FS_Subset, OdraAssumption DEF ApprovedBy, OdraAssumption
<1>4. Cardinality(ApprovedBy(p) \cup {a}) = Cardinality(ApprovedBy(p)) + 1
  BY <1>3, FS_AddElement
<1> QED
  BY <1>1, <1>2, <1>4

LEMMA OdraStarts == OdraInit => OdraInv
<1> SUFFICES ASSUME OdraInit PROVE OdraInv
  OBVIOUS
<1>1. OdraTypeOK
  BY DEF OdraInit, OdraTypeOK
<1>2. \A p \in Proposals : ApprovedBy(p) = {}
  BY DEF OdraInit, ApprovedBy
<1>3. CountIsApprovers
  BY <1>2, FS_EmptySet DEF OdraInit, CountIsApprovers
<1> QED
  BY <1>1, <1>3 DEF OdraInit, OdraInv

LEMMA OdraStep == OdraInv /\ [OdraNext]_odraVars => OdraInv'
<1> SUFFICES ASSUME OdraInv, [OdraNext]_odraVars PROVE OdraInv'
  OBVIOUS
<1> USE DEF OdraInv
<1>1. ASSUME NEW a \in Callers, NEW b \in Callers, NEW c \in Callers,
             NEW t \in 0 .. 4, configure_quorum(a, b, c, t)
      PROVE  OdraInv'
  <2>1. OdraTypeOK'
    BY <1>1 DEF configure_quorum, OdraTypeOK
  <2>2. threshold = 0 /\ t > 0
    BY <1>1 DEF configure_quorum, Configured, OdraTypeOK
  <2>3. \A p \in Proposals : ApprovedBy(p)' = ApprovedBy(p)
    BY <1>1 DEF configure_quorum, ApprovedBy
  <2>4. \A p \in Proposals : receipts[p] = NoReceipt
    BY <2>2
  <2>5. CountIsApprovers'
    BY <1>1, <2>2, <2>3 DEF configure_quorum, CountIsApprovers
  <2> QED
    BY <1>1, <2>1, <2>2, <2>4, <2>5 DEF configure_quorum
<1>2. ASSUME NEW caller \in Callers, NEW p \in Proposals, NEW e \in Roots,
             propose(caller, p, e)
      PROVE  OdraInv'
  <2>1. OdraTypeOK'
    BY <1>2 DEF propose, OdraTypeOK
  <2>2. \A q \in Proposals : ApprovedBy(q)' = ApprovedBy(q)
    BY <1>2 DEF propose, ApprovedBy
  <2>3. counts[p] = 0
    BY <1>2, FS_EmptySet DEF propose, CountIsApprovers
  <2>4. counts' = counts
    BY <1>2, <2>3 DEF propose, OdraTypeOK
  <2>5. CountIsApprovers'
    BY <1>2, <2>2, <2>4, OdraAssumption
       DEF propose, CountIsApprovers, OdraTypeOK, OdraAssumption
  <2> QED
    BY <1>2, <2>1, <2>4, <2>5 DEF propose
<1>3. ASSUME NEW caller \in Callers, NEW p \in Proposals, approve(caller, p)
      PROVE  OdraInv'
  <2>1. OdraTypeOK'
    BY <1>3 DEF approve, OdraTypeOK
  <2>2. /\ ApprovedBy(p)' = ApprovedBy(p) \cup {caller}
        /\ Cardinality(ApprovedBy(p)') = Cardinality(ApprovedBy(p)) + 1
    BY <1>3, OneMoreApprover DEF approve
  <2>3. \A q \in Proposals \ {p} : ApprovedBy(q)' = ApprovedBy(q)
    BY <1>3, OneMoreApprover DEF approve
  <2>4. /\ counts'[p] = counts[p] + 1
        /\ \A q \in Proposals \ {p} : counts'[q] = counts[q]
    BY <1>3 DEF approve, OdraTypeOK
  <2>5. CountIsApprovers'
    <3> SUFFICES ASSUME NEW q \in Proposals
                 PROVE  /\ counts'[q] = Cardinality(ApprovedBy(q)')
                        /\ ApprovedBy(q)' \subseteq signers'
                        /\ ApprovedBy(q)' # {} => proposed'[q] # NoEnvelope
      BY DEF CountIsApprovers
    <3>1. CASE q = p
      BY <1>3, <2>2, <2>4, <3>1 DEF approve, CountIsApprovers
    <3>2. CASE q # p
      BY <1>3, <2>3, <2>4, <3>2 DEF approve, CountIsApprovers
    <3> QED
      BY <3>1, <3>2
  <2>6. \A q \in Proposals : counts'[q] >= counts[q]
    BY <2>4 DEF OdraTypeOK
  <2>7. \A q \in Proposals : counts[q] \in Nat /\ counts'[q] \in Nat /\ threshold \in Nat
    BY <2>1 DEF OdraTypeOK
  <2> QED
    BY <1>3, <2>1, <2>5, <2>6, <2>7 DEF approve
<1>4. ASSUME NEW p \in Proposals, NEW c \in Contents, store_governance_receipt(p, c)
      PROVE  OdraInv'
  <2>1. OdraTypeOK'
    BY <1>4 DEF store_governance_receipt, OdraTypeOK
  <2>2. \A q \in Proposals : ApprovedBy(q)' = ApprovedBy(q)
    BY <1>4 DEF store_governance_receipt, ApprovedBy
  <2>3. CountIsApprovers'
    BY <1>4, <2>2 DEF store_governance_receipt, CountIsApprovers
  <2> QED
    BY <1>4, <2>1, <2>3 DEF store_governance_receipt, QuorumMet, OdraTypeOK
<1>5. CASE UNCHANGED odraVars
  <2>1. \A q \in Proposals : ApprovedBy(q)' = ApprovedBy(q)
    BY <1>5 DEF odraVars, ApprovedBy
  <2> QED
    BY <1>5, <2>1 DEF odraVars, OdraTypeOK, CountIsApprovers
<1> QED
  BY <1>1, <1>2, <1>3, <1>4, <1>5 DEF OdraNext

THEOREM OdraInvariant == OdraSpec => []OdraInv
<1> QED
  BY OdraStarts, OdraStep, PTL DEF OdraSpec

-----------------------------------------------------------------------------

\* The contract's storage stays well typed.
THEOREM OdraTypeCorrect == OdraSpec => []OdraTypeOK
<1>1. OdraInv => OdraTypeOK
  BY DEF OdraInv
<1> QED
  BY <1>1, OdraInvariant, PTL

\* approve counts every signer once.
THEOREM CountOfApproversCorrect == OdraSpec => []CountIsApprovers
<1>1. OdraInv => CountIsApprovers
  BY DEF OdraInv
<1> QED
  BY <1>1, OdraInvariant, PTL

\* require_quorum: no receipt without the threshold of distinct signers.
THEOREM ReceiptHasQuorumCorrect == OdraSpec => []ReceiptHasQuorum
<1>1. OdraInv => ReceiptHasQuorum
  <2> SUFFICES ASSUME OdraInv, NEW p \in Proposals, receipts[p] # NoReceipt
               PROVE  /\ proposed[p] # NoEnvelope /\ threshold > 0
                      /\ Cardinality(ApprovedBy(p) \cap signers) >= threshold
    BY DEF ReceiptHasQuorum
  <2>1. threshold > 0 /\ counts[p] >= threshold /\ threshold \in Nat
    BY DEF OdraInv, OdraTypeOK
  <2>2. ApprovedBy(p) \cap signers = ApprovedBy(p)
    BY DEF OdraInv, CountIsApprovers
  <2>3. counts[p] = Cardinality(ApprovedBy(p))
    BY DEF OdraInv, CountIsApprovers
  <2>4. ApprovedBy(p) # {}
    BY <2>1, <2>3, FS_EmptySet
  <2> QED
    BY <2>1, <2>2, <2>3, <2>4 DEF OdraInv, CountIsApprovers
<1> QED
  BY <1>1, OdraInvariant, PTL

\* configure_quorum and propose set their values once.
THEOREM ApprovedIsFixedCorrect == OdraSpec => ApprovedIsFixed
<1>1. ASSUME OdraTypeOK, [OdraNext]_odraVars
      PROVE  [/\ threshold > 0 => threshold' = threshold /\ signers' = signers
              /\ \A p \in Proposals :
                   /\ proposed[p] # NoEnvelope => proposed'[p] = proposed[p]
                   /\ receipts[p] # NoReceipt => receipts'[p] # NoReceipt]_odraVars
  BY <1>1, OdraAssumption DEF OdraAssumption, OdraTypeOK, OdraNext, odraVars, Configured,
     configure_quorum, propose, approve, store_governance_receipt
<1> QED
  BY <1>1, OdraTypeCorrect, PTL DEF OdraSpec, ApprovedIsFixed

-----------------------------------------------------------------------------
(***************************************************************************)
(* RateLimit.                                                              *)
(***************************************************************************)

\* How many requests are in the queue, and of how many others it has lost sight.
Queued(c) == Len(hits[c])
Gone(c) == Len(served[c]) - Len(hits[c])

\* The queue is the end of what was served, in the order of time, and what it has
\* lost sight of has expired.  Of the queue of a client refused just now, nothing
\* has, and it is full.
RateInv ==
  /\ now \in Times
  /\ hits \in [Clients -> Seq(Times)] /\ served \in [Clients -> Seq(Times)]
  /\ refused \in [Clients -> Times \cup {-1}]
  /\ \A c \in Clients :
       /\ Queued(c) <= Limit /\ Gone(c) >= 0
       /\ \A i \in 1 .. Queued(c) : hits[c][i] = served[c][Gone(c) + i]
       /\ \A i \in 1 .. Gone(c) : Expired(served[c][i])
       /\ \A i \in DOMAIN served[c] : served[c][i] <= now
       /\ \A i, j \in DOMAIN served[c] : i <= j => served[c][i] <= served[c][j]
       /\ refused[c] <= now
       /\ refused[c] = now =>
            /\ Queued(c) = Limit
            /\ \A i \in 1 .. Queued(c) : ~ Expired(hits[c][i])

\* The least-number principle, for sets.
LEMMA LeastNumber ==
  ASSUME NEW T, T \subseteq Nat, T # {}
  PROVE  \E n \in T : \A m \in T : n <= m
<1> DEFINE R == {ss \in Nat \X Nat : ss[1] < ss[2]}
<1>1. IsWellFoundedOn(R, Nat)
  BY NatLessThanWellFounded DEF OpToRel
<1>2. \A x, y \in Nat : y < x => <<y, x>> \in R
  OBVIOUS
<1> HIDE DEF R
<1>3. PICK x \in T : \A y \in T : ~ (<<y, x>> \in R)
  BY <1>1, WFMin
<1>4. ASSUME NEW m \in T  PROVE x <= m
  <2>1. x \in Nat /\ m \in Nat
    OBVIOUS
  <2>2. ~ (m < x)
    BY <1>2, <1>3, <2>1
  <2> QED
    BY <2>1, <2>2
<1> QED
  BY <1>4

\* What popping expired times off the head of a queue leaves.
LEMMA PrunedEnds ==
  ASSUME NEW q \in Seq(Times)
  PROVE  \E n \in 0 .. Len(q) :
           /\ Pruned(q) = SubSeq(q, n + 1, Len(q))
           /\ \A j \in 1 .. n : Expired(q[j])
           /\ n < Len(q) => ~ Expired(q[n + 1])
<1> DEFINE Split(i) == /\ \A j \in 1 .. i : Expired(q[j])
                       /\ i < Len(q) => ~ Expired(q[i + 1])
<1>1. \E i \in 0 .. Len(q) : Split(i)
  <2>1. CASE \A j \in 1 .. Len(q) : Expired(q[j])
    BY <2>1
  <2>2. CASE \E j \in 1 .. Len(q) : ~ Expired(q[j])
    <3> DEFINE T == {j \in 1 .. Len(q) : ~ Expired(q[j])}
    <3>1. T \subseteq Nat /\ T # {}
      BY <2>2
    <3> HIDE DEF T
    <3>2. PICK n \in T : \A m \in T : n <= m
      BY <3>1, LeastNumber
    <3>3. n \in 1 .. Len(q) /\ ~ Expired(q[n])
      BY DEF T
    <3>4. ASSUME NEW j \in 1 .. n - 1  PROVE Expired(q[j])
      <4>1. j \in 1 .. Len(q) /\ ~ (n <= j)
        BY <3>3
      <4> QED
        BY <3>2, <4>1 DEF T
    <3>5. n - 1 \in 0 .. Len(q) /\ (n - 1) + 1 = n
      BY <3>3
    <3> QED
      BY <3>3, <3>4, <3>5
  <2> QED
    BY <2>1, <2>2
<1> DEFINE n == CHOOSE i \in 0 .. Len(q) : Split(i)
<1>2. n \in 0 .. Len(q) /\ Split(n)
  BY <1>1
<1>3. Pruned(q) = SubSeq(q, n + 1, Len(q))
  BY DEF Pruned
<1> QED
  BY <1>2, <1>3

\* The pruned queue is the end of what was served, and the rest has expired.
LEMMA PrunedIsRecent ==
  ASSUME RateInv, NEW c \in Clients
  PROVE  LET q == Pruned(hits[c])
             k == Len(served[c]) - Len(q)
         IN  /\ q \in Seq(Times) /\ Len(q) <= Queued(c) /\ k \in Nat
             /\ \A i \in 1 .. Len(q) : q[i] = served[c][k + i] /\ ~ Expired(q[i])
             /\ \A i \in 1 .. k : Expired(served[c][i])
<1>1. /\ hits[c] \in Seq(Times) /\ served[c] \in Seq(Times)
      /\ Len(hits[c]) \in Nat /\ Len(served[c]) \in Nat
      /\ Len(hits[c]) <= Len(served[c])
      /\ DOMAIN served[c] = 1 .. Len(served[c])
      /\ now \in Int /\ Window \in Int
  BY RateAssumption DEF RateAssumption, RateInv, Gone, Times
<1>2. PICK n \in 0 .. Len(hits[c]) :
        /\ Pruned(hits[c]) = SubSeq(hits[c], n + 1, Len(hits[c]))
        /\ \A j \in 1 .. n : Expired(hits[c][j])
        /\ n < Len(hits[c]) => ~ Expired(hits[c][n + 1])
  BY <1>1, PrunedEnds
<1> DEFINE q == Pruned(hits[c])
           k == Len(served[c]) - Len(q)
<1>3. /\ q \in Seq(Times) /\ Len(q) = Len(hits[c]) - n
      /\ \A i \in 1 .. Len(q) : q[i] = hits[c][n + i]
  BY <1>1, <1>2
<1>4. /\ k = Gone(c) + n /\ k \in Nat /\ Gone(c) \in Nat /\ n \in Nat
      /\ Len(served[c]) = Gone(c) + Queued(c) /\ Queued(c) \in Nat
      /\ Len(q) \in Nat /\ Queued(c) = n + Len(q) /\ Queued(c) = Len(hits[c])
  BY <1>1, <1>3 DEF Gone, Queued
<1> HIDE DEF q, k
<1>5. \A i \in 1 .. Queued(c) : hits[c][i] = served[c][Gone(c) + i]
  BY DEF RateInv
<1>6. ASSUME NEW i \in 1 .. Len(q)  PROVE q[i] = served[c][k + i] /\ ~ Expired(q[i])
  <2>1. n + i \in 1 .. Queued(c) /\ Gone(c) + (n + i) = k + i
    BY <1>4
  <2>2. q[i] = served[c][k + i]
    BY <1>3, <1>5, <2>1
  <2>3. /\ n + 1 \in 1 .. Queued(c) /\ n < Len(hits[c])
        /\ Gone(c) + (n + 1) = k + 1 /\ k + 1 <= k + i
    BY <1>4, <2>1
  <2>4. ~ Expired(served[c][k + 1])
    BY <1>2, <1>5, <2>3
  <2>5. k + 1 \in DOMAIN served[c] /\ k + i \in DOMAIN served[c]
    <3>1. /\ i \in Nat /\ 1 <= i /\ i <= Len(q)
          /\ Len(served[c]) = k + Len(q)
      BY <1>4
    <3>2. k + 1 \in 1 .. Len(served[c]) /\ k + i \in 1 .. Len(served[c])
      <4>1. ASSUME NEW x \in Nat, NEW y \in Nat, NEW z \in Nat, 1 <= y, y <= z
            PROVE  x + 1 \in 1 .. x + z /\ x + y \in 1 .. x + z
        BY <4>1
      <4> QED
        BY <1>4, <3>1, <4>1
    <3> QED
      BY <1>1, <3>2
  <2>6. /\ served[c][k + 1] <= served[c][k + i]
        /\ served[c][k + 1] \in Times /\ served[c][k + i] \in Times
    <3>1. \A a, b \in DOMAIN served[c] : a <= b => served[c][a] <= served[c][b]
      BY DEF RateInv
    <3>2. \A a \in DOMAIN served[c] : served[c][a] \in Times
      BY <1>1
    <3> QED
      BY <2>3, <2>5, <3>1, <3>2
  <2>7. ~ Expired(served[c][k + i])
    BY <1>1, <2>4, <2>6 DEF Expired, Times
  <2> QED
    BY <2>2, <2>7
<1>7. ASSUME NEW i \in 1 .. k  PROVE Expired(served[c][i])
  <2>1. CASE i <= Gone(c)
    <3>1. i \in 1 .. Gone(c)
      BY <1>4, <2>1
    <3> QED
      BY <3>1 DEF RateInv
  <2>2. CASE i > Gone(c)
    <3>1. i - Gone(c) \in 1 .. n /\ i - Gone(c) \in 1 .. Queued(c)
          /\ Gone(c) + (i - Gone(c)) = i
      BY <1>4, <2>2
    <3> QED
      BY <1>2, <1>5, <3>1
  <2> QED
    BY <1>4, <2>1, <2>2
<1>8. Len(q) <= Queued(c)
  BY <1>4
<1> QED
  BY <1>3, <1>4, <1>6, <1>7, <1>8 DEF q, k

\* What is in the window is in the queue, and all of the queue is if nothing in it
\* has expired.
LEMMA RecentIsQueued ==
  ASSUME RateInv, NEW c \in Clients
  PROVE  /\ Recent(c) \subseteq Gone(c) + 1 .. Len(served[c])
         /\ (\A i \in 1 .. Queued(c) : ~ Expired(hits[c][i]))
              => Recent(c) = Gone(c) + 1 .. Len(served[c])
         /\ IsFiniteSet(Gone(c) + 1 .. Len(served[c]))
         /\ Cardinality(Gone(c) + 1 .. Len(served[c])) = Queued(c)
<1>1. /\ hits[c] \in Seq(Times) /\ served[c] \in Seq(Times)
      /\ Queued(c) \in Nat /\ Len(served[c]) \in Nat /\ Gone(c) \in Nat
      /\ Len(served[c]) = Gone(c) + Queued(c)
      /\ DOMAIN served[c] = 1 .. Len(served[c])
      /\ now \in Int /\ Window \in Int
      /\ \A i \in 1 .. Len(served[c]) : served[c][i] \in Int
  BY RateAssumption DEF RateAssumption, RateInv, Gone, Queued, Times
<1>2. Recent(c) \subseteq Gone(c) + 1 .. Len(served[c])
  <2>1. ASSUME NEW i \in Recent(c), i <= Gone(c)  PROVE FALSE
    <3>1. i \in 1 .. Gone(c) /\ ~ Expired(served[c][i])
      BY <1>1, <2>1 DEF Recent, Expired
    <3> QED
      BY <3>1 DEF RateInv
  <2>2. \A i \in Recent(c) : i \in 1 .. Len(served[c])
    BY <1>1 DEF Recent
  <2> QED
    BY <1>1, <2>1, <2>2
<1>3. ASSUME \A i \in 1 .. Queued(c) : ~ Expired(hits[c][i]),
             NEW i \in Gone(c) + 1 .. Len(served[c])
      PROVE  i \in Recent(c)
  <2>1. /\ i - Gone(c) \in 1 .. Queued(c) /\ Gone(c) + (i - Gone(c)) = i
        /\ i \in DOMAIN served[c]
    BY <1>1
  <2>2. ~ Expired(served[c][i]) /\ served[c][i] <= now
    BY <1>3, <2>1 DEF RateInv
  <2> QED
    BY <1>1, <2>1, <2>2 DEF Recent, Expired
<1>4. /\ IsFiniteSet(Gone(c) + 1 .. Len(served[c]))
      /\ Cardinality(Gone(c) + 1 .. Len(served[c])) = Queued(c)
  <2>1. ASSUME NEW a \in Nat, NEW b \in Nat, NEW m \in Nat, b = a + m
        PROVE  IsFiniteSet(a + 1 .. b) /\ Cardinality(a + 1 .. b) = m
    <3>1. a + 1 \in Int /\ b \in Int
      OBVIOUS
    <3>2. /\ IsFiniteSet(a + 1 .. b)
          /\ Cardinality(a + 1 .. b) = IF a + 1 > b THEN 0 ELSE b - (a + 1) + 1
      BY <3>1, FS_Interval
    <3> QED
      BY <2>1, <3>2
  <2> QED
    BY <1>1, <2>1
<1> QED
  BY <1>2, <1>3, <1>4

\* What is known of each client, with its queue q, the times t served and the
\* time r of a refusal.
Known1(q, t, r) ==
  LET gone == Len(t) - Len(q) IN
  /\ Len(q) <= Limit /\ gone >= 0
  /\ \A i \in 1 .. Len(q) : q[i] = t[gone + i]
  /\ \A i \in 1 .. gone : Expired(t[i])
  /\ \A i \in DOMAIN t : t[i] <= now
  /\ \A i, j \in DOMAIN t : i <= j => t[i] <= t[j]
  /\ r <= now
  /\ r = now => Len(q) = Limit /\ \A i \in 1 .. Len(q) : ~ Expired(q[i])

LEMMA RateInvIs ==
  RateInv <=>
    /\ now \in Times
    /\ hits \in [Clients -> Seq(Times)] /\ served \in [Clients -> Seq(Times)]
    /\ refused \in [Clients -> Times \cup {-1}]
    /\ \A c \in Clients : Known1(hits[c], served[c], refused[c])
  BY DEF RateInv, Known1, Queued, Gone

LEMMA ServeKeeps ==
  ASSUME RateInv, NEW c \in Clients, Serve(c)
  PROVE  RateInv'
<1>q. PICK q : q = Pruned(hits[c])
  OBVIOUS
<1>k. PICK k : k = Len(served[c]) - Len(q)
  OBVIOUS
<1>1. /\ q \in Seq(Times) /\ k \in Nat
      /\ \A i \in 1 .. Len(q) : q[i] = served[c][k + i] /\ ~ Expired(q[i])
      /\ \A i \in 1 .. k : Expired(served[c][i])
  BY PrunedIsRecent, <1>q, <1>k
<1>2. /\ hits' = [hits EXCEPT ![c] = Append(q, now)] /\ Len(q) < Limit
      /\ served' = [served EXCEPT ![c] = Append(served[c], now)]
      /\ refused' = [refused EXCEPT ![c] = -1] /\ now' = now
  BY <1>q DEF Serve
<1>3. /\ now \in Times /\ served[c] \in Seq(Times)
      /\ hits \in [Clients -> Seq(Times)] /\ served \in [Clients -> Seq(Times)]
      /\ refused \in [Clients -> Times \cup {-1}]
      /\ \A i \in DOMAIN served[c] : served[c][i] <= now
      /\ \A i, j \in DOMAIN served[c] : i <= j => served[c][i] <= served[c][j]
      /\ Limit \in Nat /\ now \in Nat
  BY RateAssumption DEF RateAssumption, RateInv, Times
<1>p. PICK p, t : p = Append(q, now) /\ t = Append(served[c], now)
  OBVIOUS
<1>m. PICK m, l : m = Len(q) /\ l = Len(served[c])
  OBVIOUS
<1>4. m \in Nat /\ l \in Nat /\ l = k + m
  BY <1>1, <1>3, <1>k, <1>m
<1>5. /\ p \in Seq(Times) /\ Len(p) = m + 1 /\ p[m + 1] = now
      /\ \A i \in 1 .. m : p[i] = q[i]
  BY <1>1, <1>3, <1>p, <1>m
<1>6. /\ t \in Seq(Times) /\ Len(t) = l + 1 /\ DOMAIN t = 1 .. l + 1 /\ t[l + 1] = now
      /\ \A i \in 1 .. l : t[i] = served[c][i] /\ i \in DOMAIN served[c]
  BY <1>3, <1>p, <1>m
<1>7. hits' = [hits EXCEPT ![c] = p] /\ served' = [served EXCEPT ![c] = t]
  BY <1>2, <1>p
<1>8. Known1(p, t, -1)'
  <2>1. Len(t) - Len(p) = k /\ Len(p) <= Limit /\ k >= 0
    BY <1>1, <1>2, <1>3, <1>4, <1>5, <1>6, <1>m
  <2>2. ASSUME NEW i \in 1 .. Len(p)  PROVE p[i] = t[k + i]
    <3>1. CASE i = m + 1
      BY <1>4, <1>5, <1>6, <3>1, <1>1
    <3>2. CASE i \in 1 .. m
      <4>1. k + i \in 1 .. l
        BY <1>1, <1>4, <3>2
      <4> QED
        BY <1>1, <1>5, <1>6, <3>2, <4>1, <1>m
    <3> QED
      BY <1>4, <1>5, <3>1, <3>2
  <2>3. \A i \in 1 .. k : Expired(t[i])
    <3>1. \A i \in 1 .. k : i \in 1 .. l
      BY <1>1, <1>4
    <3> QED
      BY <1>1, <1>6, <3>1
  <2>4. \A i \in DOMAIN t : i \in 1 .. l \/ i = l + 1
    BY <1>4, <1>6
  <2>5. \A i \in DOMAIN t : t[i] <= now
    BY <1>3, <1>6, <2>4
  <2>6. \A i, j \in DOMAIN t : i <= j => t[i] <= t[j]
    <3> SUFFICES ASSUME NEW i \in DOMAIN t, NEW j \in DOMAIN t, i <= j
                 PROVE  t[i] <= t[j]
      OBVIOUS
    <3>1. CASE j = l + 1
      BY <1>6, <2>5, <3>1
    <3>2. CASE j # l + 1
      <4>1. i \in 1 .. l /\ j \in 1 .. l
        BY <1>4, <1>6, <3>2
      <4> QED
        BY <1>3, <1>6, <4>1
    <3> QED
      BY <3>1, <3>2
  <2>7. now' = now /\ now # -1 /\ -1 <= now
    BY <1>2, <1>3
  <2> QED
    BY <2>1, <2>2, <2>3, <2>5, <2>6, <2>7 DEF Known1, Expired
<1>9. \A d \in Clients : d # c =>
        hits'[d] = hits[d] /\ served'[d] = served[d] /\ refused'[d] = refused[d]
  BY <1>2, <1>3, <1>7
<1>10. hits'[c] = p /\ served'[c] = t /\ refused'[c] = -1
  BY <1>2, <1>3, <1>7
<1>11. \A d \in Clients : Known1(hits[d], served[d], refused[d])'
  <2>1. ASSUME NEW d \in Clients, d # c
        PROVE  Known1(hits[d], served[d], refused[d])'
    <3>1. Known1(hits[d], served[d], refused[d])
      BY RateInvIs
    <3> QED
      BY <1>2, <1>9, <2>1, <3>1 DEF Known1, Expired
  <2>2. Known1(hits[c], served[c], refused[c])'
    BY <1>8, <1>10 DEF Known1, Expired
  <2> QED
    BY <2>1, <2>2
<1>12. /\ now' \in Times /\ hits' \in [Clients -> Seq(Times)]
       /\ served' \in [Clients -> Seq(Times)]
       /\ refused' \in [Clients -> Times \cup {-1}]
  <2>1. /\ now' = now /\ now \in Times
        /\ hits \in [Clients -> Seq(Times)] /\ served \in [Clients -> Seq(Times)]
        /\ p \in Seq(Times) /\ t \in Seq(Times)
    BY <1>2, <1>3, <1>5, <1>6
  <2>2. hits' \in [Clients -> Seq(Times)] /\ served' \in [Clients -> Seq(Times)]
    BY <1>7, <2>1
  <2>3. refused' \in [Clients -> Times \cup {-1}]
    BY <1>2, <1>3
  <2> QED
    BY <2>1, <2>2, <2>3
<1> QED
  BY <1>11, <1>12, RateInvIs DEF RateInv, Known1, Queued, Gone, Expired, Times

LEMMA RefuseKeeps ==
  ASSUME RateInv, NEW c \in Clients, Refuse(c)
  PROVE  RateInv'
<1>1. PICK q, k : q = Pruned(hits[c]) /\ k = Len(served[c]) - Len(q)
  OBVIOUS
<1>2. /\ q \in Seq(Times) /\ k \in Nat /\ Len(q) <= Queued(c)
      /\ \A i \in 1 .. Len(q) : q[i] = served[c][k + i] /\ ~ Expired(q[i])
      /\ \A i \in 1 .. k : Expired(served[c][i])
  BY PrunedIsRecent, <1>1
<1>3. /\ hits' = [hits EXCEPT ![c] = q] /\ Len(q) >= Limit
      /\ refused' = [refused EXCEPT ![c] = now] /\ UNCHANGED <<now, served>>
  BY <1>1 DEF Refuse
<1>4. /\ hits \in [Clients -> Seq(Times)] /\ refused \in [Clients -> Times \cup {-1}]
      /\ now \in Times /\ Limit \in Nat /\ now \in Nat
  BY RateAssumption DEF RateAssumption, RateInv, Times
<1>5. Len(q) = Limit
  <2>1. Queued(c) <= Limit /\ Queued(c) \in Nat /\ Len(q) \in Nat
    BY <1>2, <1>4 DEF RateInv, Queued
  <2> QED
    BY <1>2, <1>3, <1>4, <2>1
<1>6. ASSUME NEW d \in Clients  PROVE Known1(hits[d], served[d], refused[d])'
  <2>1. Known1(hits[d], served[d], refused[d])
    BY RateInvIs
  <2>2. CASE d # c
    <3>1. hits'[d] = hits[d] /\ served'[d] = served[d] /\ refused'[d] = refused[d]
      BY <1>3, <1>4, <2>2
    <3> QED
      BY <1>3, <2>1, <3>1 DEF Known1, Expired
  <2>3. CASE d = c
    <3>1. PICK t : t = served[c]
      OBVIOUS
    <3>2. /\ hits'[d] = q /\ served'[d] = t /\ refused'[d] = now /\ now' = now
          /\ t = served[d]
      BY <1>3, <1>4, <2>3, <3>1
    <3>3. Len(t) - Len(q) = k /\ k >= 0 /\ Len(q) <= Limit /\ now <= now
      BY <1>1, <1>2, <1>4, <1>5, <3>1
    <3>4. /\ \A i \in DOMAIN t : t[i] <= now
          /\ \A i, j \in DOMAIN t : i <= j => t[i] <= t[j]
      BY <2>1, <3>2 DEF Known1
    <3>5. /\ \A i \in 1 .. Len(q) : q[i] = t[k + i] /\ ~ Expired(q[i])
          /\ \A i \in 1 .. k : Expired(t[i])
      BY <1>2, <3>1
    <3>6. Known1(q, t, now)
      BY <1>5, <3>3, <3>4, <3>5 DEF Known1
    <3> QED
      BY <3>2, <3>6 DEF Known1, Expired
  <2> QED
    BY <2>2, <2>3
<1>7. /\ now' \in Times /\ hits' \in [Clients -> Seq(Times)]
      /\ served' \in [Clients -> Seq(Times)]
      /\ refused' \in [Clients -> Times \cup {-1}]
  BY <1>2, <1>3, <1>4 DEF RateInv, Times
<1> QED
  BY <1>6, <1>7, RateInvIs DEF RateInv, Known1, Queued, Gone, Expired, Times

LEMMA TickKeeps ==
  ASSUME RateInv, Tick
  PROVE  RateInv'
<1>1. /\ now' = now + 1 /\ now \in Nat /\ now' \in Times /\ Window \in Nat
      /\ UNCHANGED <<hits, served, refused>>
  BY RateAssumption DEF RateAssumption, RateInv, Tick, Times
<1>2. ASSUME NEW c \in Clients  PROVE Known1(hits[c], served[c], refused[c])'
  <2>1. /\ Known1(hits[c], served[c], refused[c])
        /\ hits[c] \in Seq(Times) /\ served[c] \in Seq(Times)
        /\ refused[c] \in Times \cup {-1}
    BY RateInvIs
  <2>2. \A i \in DOMAIN served[c] : served[c][i] \in Int
    <3>1. \A i \in DOMAIN served[c] : served[c][i] \in Times
      BY <2>1
    <3> QED
      BY <3>1 DEF Times
  <2>3. \A i \in 1 .. Len(served[c]) - Len(hits[c]) : i \in DOMAIN served[c]
    BY <2>1
  <2>4. refused[c] <= now /\ refused[c] \in Int
    BY <2>1 DEF Known1, Times
  <2>5. refused'[c] # now' /\ refused'[c] <= now'
    BY <1>1, <2>4
  <2>6. /\ \A i \in 1 .. Len(served[c]) - Len(hits[c]) : Expired(served[c][i])'
        /\ \A i \in DOMAIN served[c] : served[c][i] <= now'
    BY <1>1, <2>1, <2>2, <2>3 DEF Known1, Expired
  <2> QED
    BY <1>1, <2>1, <2>5, <2>6 DEF Known1, Expired
<1> QED
  BY <1>1, <1>2, RateInvIs DEF RateInv, Known1, Queued, Gone, Expired, Times

LEMMA RateStep == RateInv /\ [RateNext]_rateVars => RateInv'
<1>1. CASE UNCHANGED rateVars
  BY <1>1 DEF rateVars, RateInv, Queued, Gone, Expired
<1> QED
  BY <1>1, ServeKeeps, RefuseKeeps, TickKeeps DEF RateNext

LEMMA RateInvariant == RateSpec => []RateInv
<1>1. RateInit => RateInv
  <2> SUFFICES ASSUME RateInit  PROVE RateInv
    OBVIOUS
  <2>1. /\ now \in Times /\ now \in Nat /\ Limit \in Nat
        /\ hits \in [Clients -> Seq(Times)] /\ served \in [Clients -> Seq(Times)]
        /\ refused \in [Clients -> Times \cup {-1}]
        /\ \A c \in Clients : /\ hits[c] = <<>> /\ served[c] = <<>>
                              /\ refused[c] = -1 /\ refused[c] < now
    BY RateAssumption DEF RateAssumption, RateInit, Times
  <2>2. \A c \in Clients : Len(hits[c]) = 0 /\ Len(served[c]) = 0
    BY <2>1
  <2> QED
    BY <2>1, <2>2 DEF RateInv, Queued, Gone
<1> QED
  BY <1>1, RateStep, PTL DEF RateSpec

\* Of any client, limit and window: no window holds more requests than the limit,
\* and whoever is refused has used the limit up.
THEOREM LimitCorrect == RateSpec => []LimitIsExact
<1>1. RateInv => LimitIsExact
  <2> SUFFICES ASSUME RateInv, NEW c \in Clients
               PROVE  /\ Cardinality(Recent(c)) <= Limit
                      /\ refused[c] = now => Cardinality(Recent(c)) = Limit
    BY DEF LimitIsExact
  <2> DEFINE S == Gone(c) + 1 .. Len(served[c])
  <2>1. Recent(c) \subseteq S /\ IsFiniteSet(S) /\ Cardinality(S) = Queued(c)
    BY RecentIsQueued
  <2>2. Cardinality(Recent(c)) <= Queued(c) /\ Cardinality(Recent(c)) \in Nat
    BY <2>1, FS_Subset, FS_CardinalityType
  <2>3. Queued(c) <= Limit /\ Queued(c) \in Nat /\ Limit \in Nat
    BY RateAssumption DEF RateAssumption, RateInv, Queued
  <2>4. ASSUME refused[c] = now  PROVE Cardinality(Recent(c)) = Limit
    <3>1. Queued(c) = Limit /\ \A i \in 1 .. Queued(c) : ~ Expired(hits[c][i])
      BY <2>4 DEF RateInv
    <3>2. Recent(c) = S
      BY <3>1, RecentIsQueued
    <3> QED
      BY <2>1, <3>1, <3>2
  <2> QED
    BY <2>2, <2>3, <2>4
<1> QED
  BY <1>1, RateInvariant, PTL

-----------------------------------------------------------------------------
(***************************************************************************)
(* LlmBudget.                                                              *)
(***************************************************************************)

HoldingOK ==
  /\ holding \in [Processes -> [estimate : Nat, day : Nat]]
  /\ \A w \in Processes :
       \/ holding[w] = NoCall
       \/ holding[w].estimate \in Estimates /\ holding[w].day \in 1 .. today

MeterOK ==
  /\ meter \in [date : Nat, actual : Nat, reserved : Nat]
  /\ meter.date <= today

UsedOK ==
  /\ used \in [1 .. MaxDays -> Nat]
  /\ unforeseen \in [1 .. MaxDays -> Nat]
  /\ unmetered \in [1 .. MaxDays -> Nat]
  /\ \A d \in 1 .. MaxDays :
       /\ unforeseen[d] <= used[d]
       /\ d > today => used[d] = 0 /\ unforeseen[d] = 0

CountersOK == today \in 1 .. MaxDays /\ deaths \in Nat /\ tears \in Nat

\* The tokens held, by what each process holds.
HeldOf(f) == {h \in Processes \X Units : 0 < h[2] /\ h[2] <= f[h[1]].estimate}

Room == (today + tears) * DailyLimit

\* What the calls of the day used and all calls under way may use is within what
\* is allowed: the room there is, and what nobody could foresee.  But for the
\* room that yesterdays and torn files made, the meter says so too.
Budgeted(u, h, a, r, allowed) ==
  /\ u + h <= allowed
  /\ u + h + DailyLimit <= a + r + allowed

Allowed == Room + unforeseen[today]

\* The meter misses nothing but what it was not told.
Told(u, h, a, r, missed) == u + h <= a + r + missed

FirstDay == today = 1 /\ tears = 0

LlmInv ==
  /\ CountersOK /\ HoldingOK /\ MeterOK /\ UsedOK
  /\ IsFiniteSet(Held)
  /\ Budgeted(used[today], Cardinality(Held), Meter.actual, Meter.reserved, Allowed)
  /\ FirstDay => Told(used[today], Cardinality(Held), Meter.actual, Meter.reserved,
                      unmetered[today])
  /\ FirstDay /\ deaths = 0 => Meter.reserved = Cardinality(Held)

HeldBy(w, n) == {w} \X (1 .. n)

HeldByOthers(f, w) == {h \in HeldOf(f) : h[1] # w}

LEMMA Amounts ==
  /\ DailyLimit \in Nat \ {0} /\ MaxDays \in Nat \ {0}
  /\ Tokens \subseteq Nat /\ Units \subseteq Nat
  /\ \A e \in Estimates : e \in Nat
<1>1. /\ DailyLimit \in Nat \ {0} /\ MaxDays \in Nat \ {0}
      /\ \A e \in Estimates : e \in Nat
      /\ Tokens \subseteq Nat
  BY BudgetAssumption DEF BudgetAssumption
<1>2. ASSUME NEW t \in Units  PROVE t \in Nat
  <2>1. PICK e \in Estimates : t \in 0 .. e
    BY DEF Units
  <2> QED
    BY <1>1, <2>1
<1> QED
  BY <1>1, <1>2

LEMMA HeldByIs ==
  ASSUME NEW w, NEW n \in Nat
  PROVE  IsFiniteSet(HeldBy(w, n)) /\ Cardinality(HeldBy(w, n)) = n
<1>1. IsFiniteSet({w}) /\ Cardinality({w}) = 1
  BY FS_Singleton
<1>2. IsFiniteSet(1 .. n) /\ Cardinality(1 .. n) = n
  BY FS_Interval
<1>3. /\ IsFiniteSet({w} \X (1 .. n))
      /\ Cardinality({w} \X (1 .. n)) = Cardinality({w}) * Cardinality(1 .. n)
  BY <1>1, <1>2, FS_Product, Zenon
<1>4. Cardinality({w} \X (1 .. n)) = 1 * n
  BY <1>1, <1>2, <1>3
<1> QED
  BY <1>3, <1>4 DEF HeldBy

\* What is held is what one process holds and what the others hold.
LEMMA HeldSplits ==
  ASSUME NEW f, NEW w \in Processes, NEW n \in {0} \cup Estimates,
         f[w].estimate = n, IsFiniteSet(HeldByOthers(f, w))
  PROVE  /\ IsFiniteSet(HeldOf(f))
         /\ Cardinality(HeldOf(f)) = Cardinality(HeldByOthers(f, w)) + n
<1>1. n \in Nat /\ Units \subseteq Nat
  BY Amounts
<1>2. HeldOf(f) = HeldByOthers(f, w) \cup HeldBy(w, n)
  <2>1. ASSUME NEW h \in HeldOf(f)  PROVE h \in HeldByOthers(f, w) \cup HeldBy(w, n)
    <3>1. PICK v \in Processes, t \in Units : h = <<v, t>>
      BY DEF HeldOf
    <3>2. t \in Nat /\ 0 < t /\ t <= f[v].estimate
      BY <1>1, <3>1 DEF HeldOf
    <3>3. CASE v = w
      BY <1>1, <3>1, <3>2, <3>3 DEF HeldBy
    <3>4. CASE v # w
      BY <3>1, <3>4 DEF HeldByOthers
    <3> QED
      BY <3>3, <3>4
  <2>2. ASSUME NEW h \in HeldBy(w, n)  PROVE h \in HeldOf(f)
    <3>1. PICK t \in 1 .. n : h = <<w, t>>
      BY DEF HeldBy
    <3>2. t \in Units
      BY <1>1, <3>1 DEF Units
    <3> QED
      BY <1>1, <3>1, <3>2 DEF HeldOf
  <2> QED
    BY <2>1, <2>2 DEF HeldByOthers
<1>3. HeldByOthers(f, w) \cap HeldBy(w, n) = {}
  BY DEF HeldByOthers, HeldBy
<1>4. IsFiniteSet(HeldBy(w, n)) /\ Cardinality(HeldBy(w, n)) = n
  BY <1>1, HeldByIs
<1>5. Cardinality(HeldByOthers(f, w)) \in Nat
  BY FS_CardinalityType
<1>6. PICK S, T : S = HeldByOthers(f, w) /\ T = HeldBy(w, n)
  OBVIOUS
<1>7. /\ IsFiniteSet(S \cup T)
      /\ Cardinality(S \cup T)
           = Cardinality(S) + Cardinality(T) - Cardinality(S \cap T)
  BY <1>4, <1>6, FS_Union, Zenon
<1>8. Cardinality(S \cap T) = 0
  BY <1>3, <1>6, FS_EmptySet
<1> QED
  BY <1>1, <1>2, <1>4, <1>5, <1>6, <1>7, <1>8

\* One process takes or gives back a reservation.
LEMMA HeldOfChanges ==
  ASSUME NEW f, NEW g, NEW w \in Processes,
         f[w].estimate \in {0} \cup Estimates,
         g[w].estimate \in {0} \cup Estimates,
         \A v \in Processes : v # w => g[v] = f[v],
         IsFiniteSet(HeldOf(f))
  PROVE  /\ IsFiniteSet(HeldOf(g))
         /\ Cardinality(HeldOf(g)) + f[w].estimate
              = Cardinality(HeldOf(f)) + g[w].estimate
<1>1. HeldByOthers(g, w) = HeldByOthers(f, w)
  BY DEF HeldByOthers, HeldOf
<1>2. IsFiniteSet(HeldByOthers(f, w))
  BY FS_Subset DEF HeldByOthers
<1>3. Cardinality(HeldByOthers(f, w)) \in Nat
  BY <1>2, FS_CardinalityType
<1>4. Cardinality(HeldOf(f)) = Cardinality(HeldByOthers(f, w)) + f[w].estimate
  BY <1>2, HeldSplits
<1>5. /\ IsFiniteSet(HeldOf(g))
      /\ Cardinality(HeldOf(g)) = Cardinality(HeldByOthers(f, w)) + g[w].estimate
  BY <1>1, <1>2, HeldSplits
<1>6. f[w].estimate \in Nat /\ g[w].estimate \in Nat
  BY Amounts
<1> QED
  BY <1>3, <1>4, <1>5, <1>6

Takes(w, x) == holding' = [holding EXCEPT ![w] = x]

\* What one process holds changes within a day.
LEMMA HoldingChanges ==
  ASSUME LlmInv, NEW w \in Processes, NEW x, Takes(w, x), today' = today,
         x = NoCall \/ \E e \in Estimates : x = [estimate |-> e, day |-> today]
  PROVE  /\ HoldingOK'
         /\ IsFiniteSet(Held')
         /\ Cardinality(Held') + holding[w].estimate
              = Cardinality(Held) + x.estimate
<1>1. today \in Nat \ {0} /\ Estimates \subseteq Nat
  BY Amounts DEF LlmInv, CountersOK
<1>2. /\ x \in [estimate : Nat, day : Nat]
      /\ x = NoCall \/ (x.estimate \in Estimates /\ x.day \in 1 .. today)
      /\ x.estimate \in {0} \cup Estimates
  BY <1>1 DEF NoCall
<1>3. /\ holding' \in [Processes -> [estimate : Nat, day : Nat]]
      /\ holding'[w] = x
      /\ \A v \in Processes : v # w => holding'[v] = holding[v]
  BY <1>2 DEF LlmInv, HoldingOK, Takes
<1>4. HoldingOK'
  BY <1>2, <1>3 DEF LlmInv, HoldingOK
<1>5. holding[w].estimate \in {0} \cup Estimates
  BY DEF LlmInv, HoldingOK, NoCall
<1>6. Held = HeldOf(holding) /\ Held' = HeldOf(holding')
  BY DEF Held, HeldOf
<1>7. IsFiniteSet(HeldOf(holding))
  BY <1>6 DEF LlmInv
<1>8. PICK g : g = holding'
  OBVIOUS
<1>9. /\ IsFiniteSet(HeldOf(g))
      /\ Cardinality(HeldOf(g)) + holding[w].estimate
           = Cardinality(HeldOf(holding)) + g[w].estimate
  BY <1>2, <1>3, <1>5, <1>7, <1>8, HeldOfChanges
<1> QED
  BY <1>3, <1>4, <1>6, <1>8, <1>9

-----------------------------------------------------------------------------

\* The meter a process reads is today's.
LEMMA MeterIs ==
  ASSUME LlmInv
  PROVE  /\ Meter \in [date : Nat, actual : Nat, reserved : Nat]
         /\ Meter.date = today
  BY Amounts DEF LlmInv, CountersOK, MeterOK, Meter

\* One more day, or one more torn file, is room for one more limit.
LEMMA RoomGrows ==
  ASSUME LlmInv, today' + tears' = today + tears + 1
  PROVE  Room \in Nat /\ Room' = Room + DailyLimit
<1>1. PICK k \in Nat : k = today + tears
  BY Amounts DEF LlmInv, CountersOK
<1>2. DailyLimit \in Nat
  BY Amounts
<1>3. (k + 1) * DailyLimit = k * DailyLimit + DailyLimit /\ k * DailyLimit \in Nat
  BY <1>1, <1>2
<1>4. Room = k * DailyLimit /\ Room' = (k + 1) * DailyLimit
  BY <1>1 DEF Room
<1> QED
  BY <1>3, <1>4

LEMMA RoomStays ==
  ASSUME LlmInv, UNCHANGED <<today, tears>>
  PROVE  Room \in Nat /\ Room' = Room
<1>1. today + tears \in Nat /\ DailyLimit \in Nat
  BY Amounts DEF LlmInv, CountersOK
<1> QED
  BY <1>1 DEF Room

\* What the meter counts less a reservation.
LEMMA LessIs ==
  ASSUME NEW a \in Nat, NEW b \in Nat
  PROVE  /\ Less(a, b) \in Nat /\ Less(a, b) + b >= a
         /\ b <= a => Less(a, b) = a - b
  BY DEF Less

\* A call of the day, or of an earlier one, ended: what the day's records say.
Ended(n, k, m) ==
  /\ used'[today] = used[today] + n
  /\ unforeseen'[today] = unforeseen[today] + k
  /\ unmetered'[today] = unmetered[today] + m

LEMMA Added ==
  ASSUME NEW f \in [1 .. MaxDays -> Nat], NEW d \in 1 .. MaxDays,
         NEW n \in Nat, NEW g, g = [f EXCEPT ![d] = @ + n]
  PROVE  /\ g \in [1 .. MaxDays -> Nat] /\ g[d] = f[d] + n
         /\ \A c \in 1 .. MaxDays : c # d => g[c] = f[c]
<1>1. f[d] + n \in Nat
  OBVIOUS
<1> QED
  BY <1>1

LEMMA Using ==
  ASSUME LlmInv, NEW w \in Processes, NEW real \in Nat, NEW planned \in Nat,
         NEW metered \in Nat, holding[w] # NoCall,
         Uses(w, real, planned, metered), today' = today
  PROVE  /\ UsedOK'
         /\ \/ Ended(real, Less(real, planned), Less(real, metered))
            \/ today # 1 /\ Ended(0, 0, 0)
<1>1. PICK d \in 1 .. MaxDays : d = holding[w].day /\ d <= today /\ d >= 1
  BY Amounts DEF LlmInv, CountersOK, HoldingOK
<1>2. /\ used \in [1 .. MaxDays -> Nat] /\ unforeseen \in [1 .. MaxDays -> Nat]
      /\ unmetered \in [1 .. MaxDays -> Nat] /\ today \in 1 .. MaxDays
      /\ MaxDays \in Nat
  BY Amounts DEF LlmInv, UsedOK, CountersOK
<1>3. PICK k \in Nat, m \in Nat : k = Less(real, planned) /\ m = Less(real, metered)
  BY LessIs
<1>4. k <= real
  BY <1>3 DEF Less
<1>5. /\ used' = [used EXCEPT ![d] = @ + real]
      /\ unforeseen' = [unforeseen EXCEPT ![d] = @ + k]
      /\ unmetered' = [unmetered EXCEPT ![d] = @ + m]
  BY <1>1, <1>3 DEF Uses
<1>6. /\ used' \in [1 .. MaxDays -> Nat]
      /\ used'[d] = used[d] + real
      /\ \A c \in 1 .. MaxDays : c # d => used'[c] = used[c]
  <2>1. PICK f, g : f = used /\ g = used' /\ f \in [1 .. MaxDays -> Nat]
    BY <1>2
  <2>2. g = [f EXCEPT ![d] = @ + real]
    BY <1>5, <2>1
  <2>3. /\ g \in [1 .. MaxDays -> Nat] /\ g[d] = f[d] + real
        /\ \A c \in 1 .. MaxDays : c # d => g[c] = f[c]
    BY <1>3, <2>1, <2>2, Added
  <2> QED
    BY <2>1, <2>3
<1>7. /\ unforeseen' \in [1 .. MaxDays -> Nat]
      /\ unforeseen'[d] = unforeseen[d] + k
      /\ \A c \in 1 .. MaxDays : c # d => unforeseen'[c] = unforeseen[c]
  <2>1. PICK f, g : f = unforeseen /\ g = unforeseen' /\ f \in [1 .. MaxDays -> Nat]
    BY <1>2
  <2>2. g = [f EXCEPT ![d] = @ + k]
    BY <1>5, <2>1
  <2>3. /\ g \in [1 .. MaxDays -> Nat] /\ g[d] = f[d] + k
        /\ \A c \in 1 .. MaxDays : c # d => g[c] = f[c]
    BY <1>3, <2>1, <2>2, Added
  <2> QED
    BY <2>1, <2>3
<1>8. /\ unmetered' \in [1 .. MaxDays -> Nat]
      /\ unmetered'[d] = unmetered[d] + m
      /\ \A c \in 1 .. MaxDays : c # d => unmetered'[c] = unmetered[c]
  <2>1. PICK f, g : f = unmetered /\ g = unmetered' /\ f \in [1 .. MaxDays -> Nat]
    BY <1>2
  <2>2. g = [f EXCEPT ![d] = @ + m]
    BY <1>5, <2>1
  <2>3. /\ g \in [1 .. MaxDays -> Nat] /\ g[d] = f[d] + m
        /\ \A c \in 1 .. MaxDays : c # d => g[c] = f[c]
    BY <1>3, <2>1, <2>2, Added
  <2> QED
    BY <2>1, <2>3
<1>9. \A c \in 1 .. MaxDays : used[c] \in Nat /\ unforeseen[c] \in Nat /\ unmetered[c] \in Nat
  BY <1>2
<1>10. ASSUME NEW c \in 1 .. MaxDays
       PROVE  /\ unforeseen'[c] <= used'[c]
              /\ c > today => used'[c] = 0 /\ unforeseen'[c] = 0
  <2>1. unforeseen[c] <= used[c] /\ (c > today => used[c] = 0 /\ unforeseen[c] = 0)
    BY DEF LlmInv, UsedOK
  <2>2. CASE c = d
    <3>1. /\ used'[c] = used[c] + real /\ unforeseen'[c] = unforeseen[c] + k
          /\ used[c] \in Nat /\ unforeseen[c] \in Nat
      BY <1>6, <1>7, <1>9, <2>2
    <3>2. ~ (c > today)
      <4>1. c \in Nat /\ today \in Nat /\ c <= today
        BY <1>1, <1>2, <2>2
      <4> QED
        BY <4>1
    <3> QED
      BY <1>4, <2>1, <3>1, <3>2
  <2>3. CASE c # d
    BY <1>6, <1>7, <2>1, <2>3
  <2> QED
    BY <2>2, <2>3
<1>11. UsedOK'
  BY <1>6, <1>7, <1>8, <1>10 DEF UsedOK
<1>12. CASE d = today
  BY <1>3, <1>6, <1>7, <1>8, <1>11, <1>12 DEF Ended
<1>13. CASE d # today
  <2>1. today # 1
    BY <1>1, <1>2, <1>13
  <2>2. /\ used'[today] = used[today] /\ unforeseen'[today] = unforeseen[today]
        /\ unmetered'[today] = unmetered[today]
    BY <1>2, <1>6, <1>7, <1>8, <1>13
  <2>3. /\ used[today] \in Nat /\ unforeseen[today] \in Nat
        /\ unmetered[today] \in Nat
    BY <1>2, <1>9
  <2>4. Ended(0, 0, 0)
    BY <2>2, <2>3 DEF Ended
  <2> QED
    BY <1>11, <2>1, <2>4
<1> QED
  BY <1>12, <1>13

\* A call that held e tokens used n, k of them unforeseen, and the meter counts
\* the rest.
LEMMA BudgetAfter ==
  ASSUME NEW u \in Nat, NEW h \in Nat, NEW a \in Nat, NEW r \in Nat,
         NEW allowed \in Nat, Budgeted(u, h, a, r, allowed),
         NEW h2 \in Nat, NEW a2 \in Nat, NEW r2 \in Nat,
         NEW n \in Nat, NEW e \in Nat, NEW k \in Nat,
         h2 + e = h, n <= e + k, a + r + n <= a2 + r2 + e + k
  PROVE  Budgeted(u + n, h2, a2, r2, allowed + k)
<1>1. DailyLimit \in Nat
  BY Amounts
<1> QED
  BY <1>1 DEF Budgeted

LEMMA ToldAfter ==
  ASSUME NEW u \in Nat, NEW h \in Nat, NEW a \in Nat, NEW r \in Nat,
         NEW missed \in Nat, Told(u, h, a, r, missed),
         NEW h2 \in Nat, NEW a2 \in Nat, NEW r2 \in Nat,
         NEW n \in Nat, NEW e \in Nat, NEW m \in Nat,
         h2 + e = h, a + r + n <= a2 + r2 + e + m
  PROVE  Told(u + n, h2, a2, r2, missed + m)
  BY DEF Told

LEMMA BudgetBefore ==
  ASSUME NEW u \in Nat, NEW h \in Nat, NEW a \in Nat, NEW r \in Nat,
         NEW allowed \in Nat, Budgeted(u, h, a, r, allowed),
         NEW e \in Nat, a + r + e <= DailyLimit
  PROVE  Budgeted(u, h + e, a, r + e, allowed)
<1>1. DailyLimit \in Nat
  BY Amounts
<1> QED
  BY <1>1 DEF Budgeted

\* The meter is forgotten, and there is room for one more limit.
LEMMA BudgetAnew ==
  ASSUME NEW u \in Nat, NEW h \in Nat, NEW allowed \in Nat, u + h <= allowed
  PROVE  Budgeted(u, h, 0, 0, allowed + DailyLimit)
<1>1. DailyLimit \in Nat
  BY Amounts
<1> QED
  BY <1>1 DEF Budgeted

\* The amounts of a state.
LEMMA AmountsOfState ==
  ASSUME LlmInv
  PROVE  /\ used[today] \in Nat /\ unforeseen[today] \in Nat
         /\ unmetered[today] \in Nat /\ unforeseen[today] <= used[today]
         /\ Cardinality(Held) \in Nat
         /\ Meter.actual \in Nat /\ Meter.reserved \in Nat
         /\ Room \in Nat /\ Allowed \in Nat
         /\ today \in 1 .. MaxDays /\ deaths \in Nat /\ tears \in Nat
         /\ \A w \in Processes :
              /\ holding[w].estimate \in Nat
              /\ holding[w] # NoCall => holding[w].estimate \in Estimates
<1>1. /\ today \in 1 .. MaxDays /\ deaths \in Nat /\ tears \in Nat
      /\ used[today] \in Nat /\ unforeseen[today] \in Nat
      /\ unmetered[today] \in Nat /\ unforeseen[today] <= used[today]
  BY DEF LlmInv, UsedOK, CountersOK
<1>2. Cardinality(Held) \in Nat
  BY FS_CardinalityType DEF LlmInv
<1>3. Meter.actual \in Nat /\ Meter.reserved \in Nat
  BY MeterIs
<1>4. Room \in Nat
  <2>1. today + tears \in Nat /\ DailyLimit \in Nat
    BY <1>1, Amounts
  <2> QED
    BY <2>1 DEF Room
<1>5. ASSUME NEW w \in Processes
      PROVE  /\ holding[w].estimate \in Nat
             /\ holding[w] # NoCall => holding[w].estimate \in Estimates
  BY <1>5 DEF LlmInv, HoldingOK
<1>6. Allowed \in Nat
  BY <1>1, <1>4 DEF Allowed
<1> QED
  BY <1>1, <1>2, <1>3, <1>4, <1>5, <1>6

\* A process writes the meter it read.
Writes(a, r) == meter' = [Meter EXCEPT !.actual = a, !.reserved = r]

LEMMA Written ==
  ASSUME LlmInv, NEW a \in Nat, NEW r \in Nat, Writes(a, r), today' = today
  PROVE  MeterOK' /\ Meter'.actual = a /\ Meter'.reserved = r
<1>1. /\ meter' \in [date : Nat, actual : Nat, reserved : Nat]
      /\ meter'.date = today /\ meter'.actual = a /\ meter'.reserved = r
  BY MeterIs DEF Writes
<1>2. Meter' = meter'
  BY <1>1 DEF Meter
<1>3. today \in Nat
  BY Amounts DEF LlmInv, CountersOK
<1> QED
  BY <1>1, <1>2, <1>3 DEF MeterOK

LEMMA ReserveKeeps ==
  ASSUME LlmInv, NEW w \in Processes, NEW e \in Estimates, Reserve(w, e)
  PROVE  LlmInv'
<1> DEFINE A == Meter.actual
           R == Meter.reserved
           H == Cardinality(Held)
<1>1. /\ today' = today /\ deaths' = deaths /\ tears' = tears
      /\ used' = used /\ unforeseen' = unforeseen /\ unmetered' = unmetered
  BY DEF Reserve, usage
<1>2. e \in Nat /\ DailyLimit \in Nat
  BY Amounts
<1>3. /\ used[today] \in Nat /\ H \in Nat /\ A \in Nat /\ R \in Nat
      /\ Allowed \in Nat /\ unmetered[today] \in Nat
      /\ Budgeted(used[today], H, A, R, Allowed)
      /\ FirstDay => Told(used[today], H, A, R, unmetered[today])
      /\ FirstDay /\ deaths = 0 => R = H
  BY AmountsOfState DEF LlmInv
<1>4. Allowed' = Allowed
  BY <1>1, RoomStays DEF Allowed
<1>5. /\ HoldingOK' /\ IsFiniteSet(Held')
      /\ Cardinality(Held') = H + e
  <2>1. PICK x : x = [estimate |-> e, day |-> today]
    OBVIOUS
  <2>2. Takes(w, x) /\ holding[w].estimate = 0 /\ x.estimate = e
    BY <2>1 DEF Reserve, Takes, NoCall
  <2>3. /\ HoldingOK' /\ IsFiniteSet(Held')
        /\ Cardinality(Held') + 0 = Cardinality(Held) + e
    BY <1>1, <2>1, <2>2, HoldingChanges
  <2>4. Cardinality(Held') \in Nat
    BY <2>3, FS_CardinalityType
  <2> QED
    BY <1>3, <2>3, <2>4
<1>6. MeterOK' /\ Meter'.actual = A /\ Meter'.reserved = R + e
  <2>1. Writes(A, R + e)
    BY MeterIs DEF Reserve, Writes
  <2>2. R + e \in Nat
    BY <1>2, <1>3
  <2> QED
    BY <1>1, <1>3, <2>1, <2>2, Written
<1>7. A + R + e <= DailyLimit
  BY DEF Reserve, WithinBudget
<1>8. Budgeted(used[today], H + e, A, R + e, Allowed)
  BY <1>2, <1>3, <1>7, BudgetBefore
<1>9. Budgeted(used[today], Cardinality(Held), Meter.actual, Meter.reserved, Allowed)'
  BY <1>1, <1>4, <1>5, <1>6, <1>8 DEF Budgeted
<1>10. FirstDay => Told(used[today], H + e, A, R + e, unmetered[today])
  BY <1>2, <1>3 DEF Told
<1>11. (FirstDay => Told(used[today], Cardinality(Held), Meter.actual,
                         Meter.reserved, unmetered[today]))'
  BY <1>1, <1>5, <1>6, <1>10 DEF Told, FirstDay
<1>12. CountersOK' /\ UsedOK'
  BY <1>1 DEF LlmInv, CountersOK, UsedOK
<1>13. (FirstDay /\ deaths = 0 => Meter.reserved = Cardinality(Held))'
  BY <1>1, <1>3, <1>5, <1>6 DEF FirstDay
<1> QED
  BY <1>5, <1>6, <1>9, <1>11, <1>12, <1>13 DEF LlmInv

\* A call ends, and the day's records and the meter agree about it.
LEMMA CallEnds ==
  ASSUME LlmInv, NEW w \in Processes, holding[w] # NoCall, Takes(w, NoCall),
         today' = today, tears' = tears, deaths' \in Nat, UsedOK',
         NEW n \in Nat, NEW k \in Nat, NEW m \in Nat, Ended(n, k, m),
         n <= holding[w].estimate + k,
         NEW a \in Nat, NEW r \in Nat, MeterOK',
         Meter'.actual = a, Meter'.reserved = r,
         Meter.actual + Meter.reserved + n <= a + r + holding[w].estimate + k,
         today = 1 =>
           Meter.actual + Meter.reserved + n <= a + r + holding[w].estimate + m,
         deaths' = 0 => deaths = 0 /\ r = Less(Meter.reserved, holding[w].estimate)
  PROVE  LlmInv'
<1> DEFINE A == Meter.actual
           R == Meter.reserved
           H == Cardinality(Held)
           e == holding[w].estimate
<1>1. /\ used[today] \in Nat /\ H \in Nat /\ A \in Nat /\ R \in Nat
      /\ Allowed \in Nat /\ Room \in Nat /\ e \in Nat
      /\ unforeseen[today] \in Nat /\ unmetered[today] \in Nat
      /\ Budgeted(used[today], H, A, R, Allowed)
      /\ FirstDay => Told(used[today], H, A, R, unmetered[today])
      /\ FirstDay /\ deaths = 0 => R = H
  BY AmountsOfState DEF LlmInv
<1>2. /\ HoldingOK' /\ IsFiniteSet(Held')
      /\ Cardinality(Held') \in Nat /\ Cardinality(Held') + e = H
  <2>1. /\ HoldingOK' /\ IsFiniteSet(Held')
        /\ Cardinality(Held') + e = H + NoCall.estimate
    BY HoldingChanges
  <2>2. NoCall.estimate = 0
    BY DEF NoCall
  <2>3. Cardinality(Held') \in Nat
    BY <2>1, FS_CardinalityType
  <2> QED
    BY <1>1, <2>1, <2>2, <2>3
<1>3. Allowed' = Allowed + k
  <2>1. Room' = Room
    BY RoomStays
  <2>2. unforeseen'[today'] = unforeseen[today] + k
    BY DEF Ended
  <2> QED
    BY <1>1, <2>1, <2>2 DEF Allowed
<1>4. used'[today'] = used[today] + n /\ unmetered'[today'] = unmetered[today] + m
  BY DEF Ended
<1>5. Budgeted(used[today] + n, Cardinality(Held'), a, r, Allowed + k)
  <2>1. A + R + n <= a + r + e + k
    OBVIOUS
  <2>2. n <= e + k
    OBVIOUS
  <2> QED
    BY <1>1, <1>2, <2>1, <2>2, BudgetAfter
<1>6. Budgeted(used[today], Cardinality(Held), Meter.actual, Meter.reserved, Allowed)'
  BY <1>3, <1>4, <1>5 DEF Budgeted
<1>7. FirstDay => Told(used[today] + n, Cardinality(Held'), a, r, unmetered[today] + m)
  <2> SUFFICES ASSUME FirstDay
               PROVE  Told(used[today] + n, Cardinality(Held'), a, r, unmetered[today] + m)
    OBVIOUS
  <2>1. A + R + n <= a + r + e + m
    BY DEF FirstDay
  <2>2. Told(used[today], H, A, R, unmetered[today])
    BY <1>1
  <2> HIDE DEF A, R, H, e
  <2> QED
    BY <1>1, <1>2, <2>1, <2>2, ToldAfter
<1>8. (FirstDay => Told(used[today], Cardinality(Held), Meter.actual, Meter.reserved,
                        unmetered[today]))'
  BY <1>4, <1>7 DEF Told, FirstDay
<1>9. (FirstDay /\ deaths = 0 => Meter.reserved = Cardinality(Held))'
  <2> SUFFICES ASSUME FirstDay, deaths' = 0
               PROVE  r = Cardinality(Held')
    BY DEF FirstDay
  <2>1. R = H /\ r = Less(R, e)
    BY <1>1
  <2>2. e <= R
    BY <1>1, <1>2, <2>1
  <2>3. r = R - e
    BY <1>1, <2>1, <2>2, LessIs
  <2> QED
    BY <1>1, <1>2, <2>1, <2>3
<1>10. CountersOK'
  BY DEF LlmInv, CountersOK
<1> QED
  BY <1>2, <1>6, <1>8, <1>9, <1>10 DEF LlmInv

\* The same, by what the call used, what was set aside for it until its end and
\* what the meter counts from then on.
LEMMA UseEnds ==
  ASSUME LlmInv, NEW w \in Processes, holding[w] # NoCall, Takes(w, NoCall),
         today' = today, tears' = tears, deaths' \in Nat,
         NEW real \in Nat, NEW planned \in Nat, NEW metered \in Nat,
         Uses(w, real, planned, metered), planned <= holding[w].estimate,
         NEW a \in Nat, NEW r \in Nat, MeterOK',
         Meter'.actual = a, Meter'.reserved = r,
         Meter.actual + Meter.reserved + metered <= a + r + holding[w].estimate,
         metered = real \/ planned <= metered,
         deaths' = 0 => deaths = 0 /\ r = Less(Meter.reserved, holding[w].estimate)
  PROVE  LlmInv'
<1>1. /\ Meter.actual \in Nat /\ Meter.reserved \in Nat
      /\ holding[w].estimate \in Nat
  BY AmountsOfState
<1>2. PICK k \in Nat, m \in Nat : k = Less(real, planned) /\ m = Less(real, metered)
  BY LessIs
<1>3. k + planned >= real /\ m + metered >= real
  BY <1>2, LessIs
<1>4. UsedOK' /\ (Ended(real, k, m) \/ (today # 1 /\ Ended(0, 0, 0)))
  BY <1>2, Using
<1>5. real <= holding[w].estimate + k
  BY <1>1, <1>3
<1>6. Meter.actual + Meter.reserved + real <= a + r + holding[w].estimate + m
  BY <1>1, <1>3
<1>7. Meter.actual + Meter.reserved + real <= a + r + holding[w].estimate + k
  BY <1>1, <1>2, <1>3 DEF Less
<1>8. CASE Ended(real, k, m)
  BY <1>4, <1>5, <1>6, <1>7, <1>8, CallEnds
<1>9. CASE today # 1 /\ Ended(0, 0, 0)
  <2>1. /\ 0 \in Nat /\ 0 <= holding[w].estimate + 0
        /\ Meter.actual + Meter.reserved + 0 <= a + r + holding[w].estimate + 0
    BY <1>1
  <2> QED
    BY <1>4, <1>9, <2>1, CallEnds
<1> QED
  BY <1>4, <1>8, <1>9

LEMMA CommitKeeps ==
  ASSUME LlmInv, NEW w \in Processes, NEW real \in Tokens,
         NEW reported \in {real, 0}, Commit(w, real, reported)
  PROVE  LlmInv'
<1> DEFINE e == holding[w].estimate
           c == Counted(reported, e)
           a == Meter.actual + c
           r == Less(Meter.reserved, e)
<1>1. /\ today' = today /\ tears' = tears /\ deaths' = deaths
      /\ holding[w] # NoCall /\ Takes(w, NoCall) /\ Uses(w, real, e, c)
  BY DEF Commit, Takes
<1>2. /\ real \in Nat /\ reported \in Nat /\ e \in Nat /\ deaths \in Nat
      /\ Meter.actual \in Nat /\ Meter.reserved \in Nat
  BY AmountsOfState, Amounts
<1>3. c \in Nat /\ (c = real \/ e <= c)
  BY <1>2 DEF Counted
<1>4. r \in Nat /\ r + e >= Meter.reserved
  BY <1>2, LessIs
<1>5. a \in Nat
  BY <1>2, <1>3
<1>6. MeterOK' /\ Meter'.actual = a /\ Meter'.reserved = r
  <2>1. Writes(a, r)
    BY DEF Commit, Writes
  <2> QED
    BY <1>1, <1>4, <1>5, <2>1, Written
<1>7. Meter.actual + Meter.reserved + c <= a + r + e
  BY <1>2, <1>3, <1>4
<1> HIDE DEF a, r, c
<1>8. r = Less(Meter.reserved, holding[w].estimate) /\ e <= holding[w].estimate
  BY <1>2 DEF r
<1> QED
  BY <1>1, <1>2, <1>3, <1>4, <1>5, <1>6, <1>7, <1>8, UseEnds

LEMMA ReleaseKeeps ==
  ASSUME LlmInv, NEW w \in Processes, NEW real \in Tokens, Release(w, real)
  PROVE  LlmInv'
<1> DEFINE e == holding[w].estimate
           r == Less(Meter.reserved, e)
<1>1. /\ today' = today /\ tears' = tears /\ deaths' = deaths
      /\ holding[w] # NoCall /\ Takes(w, NoCall) /\ Uses(w, real, 0, 0)
  BY DEF Release, Takes
<1>2. /\ e \in Nat /\ deaths \in Nat /\ real \in Nat
      /\ Meter.actual \in Nat /\ Meter.reserved \in Nat
  BY AmountsOfState, Amounts
<1>3. r \in Nat /\ r + e >= Meter.reserved
  BY <1>2, LessIs
<1>4. MeterOK' /\ Meter'.actual = Meter.actual /\ Meter'.reserved = r
  <2>1. Writes(Meter.actual, r)
    BY MeterIs DEF Release, Writes
  <2> QED
    BY <1>1, <1>2, <1>3, <2>1, Written
<1>5. Meter.actual + Meter.reserved + 0 <= Meter.actual + r + e
  BY <1>2, <1>3
<1> HIDE DEF r
<1>6. r = Less(Meter.reserved, holding[w].estimate)
  BY DEF r
<1>7. 0 \in Nat /\ 0 <= holding[w].estimate /\ 0 <= 0
  BY <1>2
<1> QED
  BY <1>1, <1>2, <1>3, <1>4, <1>5, <1>6, <1>7, UseEnds

LEMMA DiesKeeps ==
  ASSUME LlmInv, NEW w \in Processes, NEW real \in Tokens, Dies(w, real)
  PROVE  LlmInv'
<1> DEFINE e == holding[w].estimate
<1>1. /\ today' = today /\ tears' = tears /\ deaths' = deaths + 1 /\ meter' = meter
      /\ holding[w] # NoCall /\ Takes(w, NoCall) /\ Uses(w, real, e, e)
  BY DEF Dies, Takes
<1>2. /\ real \in Nat /\ e \in Nat /\ deaths \in Nat
      /\ Meter.actual \in Nat /\ Meter.reserved \in Nat
  BY AmountsOfState, Amounts
<1>3. MeterOK' /\ Meter' = Meter
  BY <1>1 DEF LlmInv, MeterOK, Meter
<1>4. Meter.actual + Meter.reserved + e <= Meter.actual + Meter.reserved + e /\ e <= e
  BY <1>2
<1>5. deaths' \in Nat /\ deaths' # 0
  BY <1>1, <1>2
<1> QED
  BY <1>1, <1>2, <1>3, <1>4, <1>5, UseEnds

\* The meter is read anew.
LEMMA TearKeeps ==
  ASSUME LlmInv, NEW w \in Processes, NEW real \in Tokens, Tear(w, real)
  PROVE  LlmInv'
<1>1. /\ today' = today /\ tears' = tears + 1 /\ deaths' = deaths
      /\ Takes(w, NoCall)
      /\ meter' = [date |-> 0, actual |-> 0, reserved |-> 0]
  BY DEF Tear, Takes
<1>2. /\ used[today] \in Nat /\ Cardinality(Held) \in Nat
      /\ Room \in Nat /\ Allowed \in Nat /\ unforeseen[today] \in Nat
      /\ today \in 1 .. MaxDays /\ tears \in Nat /\ holding[w].estimate \in Nat
      /\ Budgeted(used[today], Cardinality(Held), Meter.actual, Meter.reserved, Allowed)
  BY AmountsOfState DEF LlmInv
<1>3. /\ HoldingOK' /\ IsFiniteSet(Held')
      /\ Cardinality(Held') \in Nat
      /\ Cardinality(Held') + holding[w].estimate = Cardinality(Held)
  <2>1. /\ HoldingOK' /\ IsFiniteSet(Held')
        /\ Cardinality(Held') + holding[w].estimate
             = Cardinality(Held) + NoCall.estimate
    BY <1>1, HoldingChanges
  <2>2. NoCall.estimate = 0
    BY DEF NoCall
  <2>3. Cardinality(Held') \in Nat
    BY <2>1, FS_CardinalityType
  <2> QED
    BY <1>2, <2>1, <2>2, <2>3
<1>4. UsedOK' /\ \E n, k \in Nat : /\ used'[today] = used[today] + n
                                   /\ unforeseen'[today] = unforeseen[today] + k
                                   /\ n <= holding[w].estimate + k
  <2>1. CASE holding[w] = NoCall
    <3>1. UNCHANGED <<used, unforeseen, unmetered>>
      BY <2>1 DEF Tear, usage
    <3>2. UsedOK'
      BY <1>1, <3>1 DEF LlmInv, UsedOK
    <3>3. /\ used'[today] = used[today] + 0
          /\ unforeseen'[today] = unforeseen[today] + 0
          /\ 0 <= holding[w].estimate + 0
      BY <1>2, <3>1
    <3> QED
      BY <3>2, <3>3
  <2>2. CASE holding[w] # NoCall
    <3>1. real \in Nat /\ Uses(w, real, holding[w].estimate, 0)
      BY <2>2, Amounts DEF Tear
    <3>2. PICK k \in Nat, m \in Nat :
            k = Less(real, holding[w].estimate) /\ m = Less(real, 0)
      BY <1>2, <3>1, LessIs
    <3>3. UsedOK' /\ (Ended(real, k, m) \/ Ended(0, 0, 0))
      BY <1>1, <1>2, <2>2, <3>1, <3>2, Using
    <3>4. real <= holding[w].estimate + k /\ 0 <= holding[w].estimate + 0
      BY <1>2, <3>1, <3>2 DEF Less
    <3> QED
      BY <3>1, <3>3, <3>4 DEF Ended
  <2> QED
    BY <2>1, <2>2
<1>5. PICK n \in Nat, k \in Nat : /\ used'[today] = used[today] + n
                                 /\ unforeseen'[today] = unforeseen[today] + k
                                 /\ n <= holding[w].estimate + k
  BY <1>4
<1>6. Allowed' = Allowed + k + DailyLimit
  <2>1. today' + tears' = today + tears + 1
    BY <1>1, <1>2, Amounts
  <2>2. Room' = Room + DailyLimit
    BY <2>1, RoomGrows
  <2> QED
    BY <1>1, <1>2, <1>5, <2>2, Amounts DEF Allowed
<1>7. today \in Nat /\ today >= 1
  BY <1>2, Amounts
<1>8. MeterOK' /\ Meter'.actual = 0 /\ Meter'.reserved = 0
  BY <1>1, <1>7 DEF MeterOK, Meter
<1>9. Budgeted(used[today] + n, Cardinality(Held'), 0, 0, Allowed + k + DailyLimit)
  <2>1. used[today] + n + Cardinality(Held') <= Allowed + k
    BY <1>2, <1>3, <1>5 DEF Budgeted
  <2>2. used[today] + n \in Nat /\ Allowed + k \in Nat
    BY <1>2
  <2> QED
    BY <1>3, <2>1, <2>2, BudgetAnew
<1>10. Budgeted(used[today], Cardinality(Held), Meter.actual, Meter.reserved, Allowed)'
  BY <1>1, <1>5, <1>6, <1>8, <1>9 DEF Budgeted
<1>11. CountersOK'
  BY <1>1 DEF LlmInv, CountersOK
<1>12. ~ FirstDay'
  BY <1>1, <1>2 DEF FirstDay
<1> QED
  BY <1>3, <1>4, <1>8, <1>10, <1>11, <1>12 DEF LlmInv

LEMMA MidnightKeeps ==
  ASSUME LlmInv, Midnight
  PROVE  LlmInv'
<1>1. /\ today < MaxDays /\ today' = today + 1
      /\ UNCHANGED <<meter, holding, used, unforeseen, unmetered, deaths, tears>>
  BY DEF Midnight, usage
<1>2. /\ used[today] \in Nat /\ Cardinality(Held) \in Nat
      /\ unforeseen[today] \in Nat /\ unforeseen[today] <= used[today]
      /\ Meter.actual \in Nat /\ Meter.reserved \in Nat
      /\ Room \in Nat /\ Allowed \in Nat
      /\ today \in 1 .. MaxDays /\ tears \in Nat
      /\ Budgeted(used[today], Cardinality(Held), Meter.actual, Meter.reserved, Allowed)
  BY AmountsOfState DEF LlmInv
<1>3. today \in Nat /\ today >= 1 /\ MaxDays \in Nat /\ today' \in 1 .. MaxDays
  BY <1>1, <1>2, Amounts
<1>4. Held' = Held
  BY <1>1 DEF Held
<1>5. used'[today'] = 0 /\ unforeseen'[today'] = 0 /\ UsedOK'
  BY <1>1, <1>3 DEF LlmInv, UsedOK
<1>6. Allowed' = Room + DailyLimit
  <2>1. today' + tears' = today + tears + 1
    BY <1>1, <1>2, <1>3
  <2>2. Room' = Room + DailyLimit
    BY <2>1, RoomGrows
  <2> QED
    BY <1>2, <1>5, <2>2, Amounts DEF Allowed
<1>7. MeterOK' /\ Meter'.actual = 0 /\ Meter'.reserved = 0
  BY <1>1, <1>3 DEF LlmInv, MeterOK, Meter
<1>8. Budgeted(0, Cardinality(Held), 0, 0, Room + DailyLimit)
  <2>1. 0 + Cardinality(Held) <= Room
    BY <1>2 DEF Budgeted, Allowed
  <2> QED
    BY <1>2, <2>1, BudgetAnew
<1>9. Budgeted(used[today], Cardinality(Held), Meter.actual, Meter.reserved, Allowed)'
  BY <1>4, <1>5, <1>6, <1>7, <1>8 DEF Budgeted
<1>10. HoldingOK'
  BY <1>1, <1>3 DEF LlmInv, HoldingOK
<1>11. CountersOK' /\ ~ FirstDay'
  BY <1>1, <1>3 DEF LlmInv, CountersOK, FirstDay
<1>12. IsFiniteSet(Held')
  BY <1>4 DEF LlmInv
<1> QED
  BY <1>5, <1>7, <1>9, <1>10, <1>11, <1>12 DEF LlmInv

\* The budget as the invariant has it: what is under way of a day is part of
\* what is under way.
LEMMA BudgetHolds ==
  ASSUME LlmInv
  PROVE  BudgetIsKept
<1>1. /\ used[today] \in Nat /\ Cardinality(Held) \in Nat
      /\ Meter.actual \in Nat /\ Meter.reserved \in Nat
      /\ unforeseen[today] \in Nat /\ unmetered[today] \in Nat
      /\ today \in 1 .. MaxDays /\ tears \in Nat /\ Allowed \in Nat
      /\ Budgeted(used[today], Cardinality(Held), Meter.actual, Meter.reserved, Allowed)
  BY AmountsOfState DEF LlmInv
<1>2. PICK S : S = {h \in Held : holding[h[1]].day = today}
  OBVIOUS
<1>3. /\ InFlight(today) = Cardinality(S) /\ Cardinality(S) \in Nat
      /\ Cardinality(S) <= Cardinality(Held)
  <2>1. IsFiniteSet(Held) /\ S \in SUBSET Held
    BY <1>2 DEF LlmInv
  <2>2. IsFiniteSet(S) /\ Cardinality(S) <= Cardinality(Held)
    BY <2>1, FS_Subset
  <2> QED
    BY <1>2, <2>2, FS_CardinalityType DEF InFlight
<1>4. today = 1 => S = Held
  <2> SUFFICES ASSUME today = 1, NEW h \in Held  PROVE holding[h[1]].day = 1
    BY <1>2
  <2>1. h[1] \in Processes /\ h[2] \in Nat /\ 0 < h[2] /\ h[2] <= holding[h[1]].estimate
    BY Amounts DEF Held
  <2>2. holding[h[1]] # NoCall
    BY <2>1 DEF NoCall
  <2> QED
    BY <2>1, <2>2 DEF LlmInv, HoldingOK
<1>5. used[today] + InFlight(today) <= Allowed
  BY <1>1, <1>3 DEF Budgeted
<1>6. ASSUME today = 1, tears = 0
      PROVE  /\ used[today] + InFlight(today)
                  <= Meter.actual + Meter.reserved + unmetered[today]
             /\ deaths = 0 => Meter.reserved = InFlight(today)
  <2>1. Told(used[today], Cardinality(Held), Meter.actual, Meter.reserved, unmetered[today])
    BY <1>6 DEF LlmInv, FirstDay
  <2>2. used[today] + InFlight(today)
          <= Meter.actual + Meter.reserved + unmetered[today]
    BY <1>1, <1>3, <2>1 DEF Told
  <2>3. deaths = 0 => Meter.reserved = InFlight(today)
    BY <1>3, <1>4, <1>6 DEF LlmInv, FirstDay
  <2> QED
    BY <2>2, <2>3
<1> QED
  BY <1>5, <1>6 DEF BudgetIsKept, Room, Allowed

LEMMA LlmInvariant == LlmSpec => []LlmInv
<1>1. LlmInit => LlmInv
  <2> SUFFICES ASSUME LlmInit  PROVE LlmInv
    OBVIOUS
  <2>1. CountersOK /\ MeterOK /\ UsedOK
    BY Amounts DEF LlmInit, CountersOK, MeterOK, UsedOK
  <2>2. HoldingOK
    BY DEF LlmInit, HoldingOK, NoCall
  <2>3. Held = {}
    <3> SUFFICES ASSUME NEW h \in Held  PROVE FALSE
      OBVIOUS
    <3>1. h[1] \in Processes /\ h[2] \in Nat /\ 0 < h[2] /\ h[2] <= holding[h[1]].estimate
      BY Amounts DEF Held
    <3>2. holding[h[1]].estimate = 0
      BY <3>1 DEF LlmInit, NoCall
    <3> QED
      BY <3>1, <3>2
  <2>4. IsFiniteSet(Held) /\ Cardinality(Held) = 0
    BY <2>3, FS_EmptySet
  <2>5. /\ Meter.actual = 0 /\ Meter.reserved = 0 /\ used[today] = 0
        /\ unforeseen[today] = 0 /\ unmetered[today] = 0
        /\ today = 1 /\ tears = 0
    BY Amounts DEF LlmInit, Meter
  <2>6. Allowed = DailyLimit /\ DailyLimit \in Nat
    BY <2>5, Amounts DEF Room, Allowed
  <2>7. Budgeted(used[today], Cardinality(Held), Meter.actual, Meter.reserved, Allowed)
    BY <2>4, <2>5, <2>6 DEF Budgeted
  <2>8. Told(used[today], Cardinality(Held), Meter.actual, Meter.reserved, unmetered[today])
    BY <2>4, <2>5 DEF Told
  <2> QED
    BY <2>1, <2>2, <2>4, <2>5, <2>7, <2>8 DEF LlmInv
<1>2. LlmInv /\ [LlmNext]_llmVars => LlmInv'
  <2> SUFFICES ASSUME LlmInv, [LlmNext]_llmVars  PROVE LlmInv'
    OBVIOUS
  <2>1. CASE UNCHANGED llmVars
    BY <2>1 DEF llmVars, usage, LlmInv, CountersOK, HoldingOK, MeterOK, UsedOK, Held,
                Meter, Room, Allowed, FirstDay, Told, Budgeted
  <2>2. CASE Midnight
    BY <2>2, MidnightKeeps
  <2>3. ASSUME NEW w \in Processes, NEW e \in Estimates, Reserve(w, e)
        PROVE  LlmInv'
    BY <2>3, ReserveKeeps
  <2>4. ASSUME NEW w \in Processes, NEW real \in Tokens, NEW reported \in {real, 0},
               Commit(w, real, reported)
        PROVE  LlmInv'
    BY <2>4, CommitKeeps
  <2>5. ASSUME NEW w \in Processes, NEW real \in Tokens, Release(w, real)
        PROVE  LlmInv'
    BY <2>5, ReleaseKeeps
  <2>6. ASSUME NEW w \in Processes, NEW real \in Tokens, Dies(w, real)
        PROVE  LlmInv'
    BY <2>6, DiesKeeps
  <2>7. ASSUME NEW w \in Processes, NEW real \in Tokens, Tear(w, real)
        PROVE  LlmInv'
    BY <2>7, TearKeeps
  <2> QED
    BY <2>1, <2>2, <2>3, <2>4, <2>5, <2>6, <2>7 DEF LlmNext
<1> QED
  BY <1>1, <1>2, PTL DEF LlmSpec

\* The daily budget, in every state: reservations of yesterday that are given
\* back today and torn meter files make room for one more limit each, calls that
\* fail or use more than was estimated overrun it by that much, and nothing else
\* does.
THEOREM BudgetCorrect == LlmSpec => []BudgetIsKept
<1>1. LlmInv => BudgetIsKept
  BY BudgetHolds
<1> QED
  BY <1>1, LlmInvariant, PTL

-----------------------------------------------------------------------------
(***************************************************************************)
(* Services: the types of the seven components.                            *)
(***************************************************************************)

LEMMA RateTypes == RateSpec => []RateTypeOK
<1>1. RateInv => RateTypeOK
  BY DEF RateInv, RateTypeOK, Queued
<1> QED
  BY <1>1, RateInvariant, PTL

\* What the meter's type says of the meter a process reads, and of what it writes.
LEMMA MeterTypes ==
  ASSUME LlmInv, LlmTypeOK
  PROVE  Meter \in [date : 0 .. today, actual : Nat, reserved : 0 .. DailyLimit]
  BY Amounts DEF LlmTypeOK, Meter

LEMMA LessTypes ==
  ASSUME LlmTypeOK, NEW r \in 0 .. DailyLimit, NEW w \in Processes
  PROVE  Less(r, holding[w].estimate) \in 0 .. DailyLimit
<1>1. holding[w].estimate \in Nat
  BY Amounts DEF LlmTypeOK, NoCall
<1> QED
  BY <1>1, Amounts DEF Less

LEMMA LlmTypes == LlmSpec => []LlmTypeOK
<1>1. LlmInit => LlmTypeOK
  BY Amounts DEF LlmInit, LlmTypeOK, NoCall
<1>2. LlmInv /\ LlmTypeOK /\ [LlmNext]_llmVars => LlmTypeOK'
  <2> SUFFICES ASSUME LlmInv, LlmTypeOK, [LlmNext]_llmVars  PROVE LlmTypeOK'
    OBVIOUS
  <2>1. CASE UNCHANGED llmVars
    BY <2>1 DEF llmVars, usage, LlmTypeOK
  <2>2. CASE Midnight
    <3>1. /\ today \in 1 .. MaxDays /\ MaxDays \in Nat
          /\ today < MaxDays /\ today' = today + 1
          /\ UNCHANGED <<meter, holding, used, unforeseen, unmetered>>
      BY <2>2, Amounts DEF Midnight, usage, LlmTypeOK
    <3>2. today' \in 1 .. MaxDays /\ 0 .. today \subseteq 0 .. today'
          /\ 1 .. today \subseteq 1 .. today'
      BY <3>1
    <3>3. meter' \in [date : 0 .. today', actual : Nat, reserved : 0 .. DailyLimit]
      BY <3>1, <3>2 DEF LlmTypeOK
    <3>4. holding' \in [Processes -> [estimate : Estimates, day : 1 .. today'] \cup {NoCall}]
      BY <3>1, <3>2 DEF LlmTypeOK
    <3>5. {used', unforeseen', unmetered'} \subseteq [1 .. MaxDays -> Nat]
      BY <3>1 DEF LlmTypeOK
    <3> QED
      BY <3>2, <3>3, <3>4, <3>5 DEF LlmTypeOK
  <2>3. ASSUME NEW w \in Processes, NEW e \in Estimates, Reserve(w, e)
        PROVE  LlmTypeOK'
    <3>1. e \in Nat /\ DailyLimit \in Nat /\ Meter.reserved \in Nat
          /\ Meter.actual \in Nat /\ Meter.actual + Meter.reserved + e <= DailyLimit
      BY <2>3, Amounts, AmountsOfState DEF Reserve, WithinBudget
    <3>2. Meter.reserved + e \in 0 .. DailyLimit
      BY <3>1
    <3>3. meter' \in [date : 0 .. today, actual : Nat, reserved : 0 .. DailyLimit]
      BY <2>3, <3>2, MeterTypes DEF Reserve
    <3> QED
      BY <2>3, <3>3, Amounts DEF Reserve, usage, LlmTypeOK
  <2>4. ASSUME NEW w \in Processes, NEW real \in Tokens, NEW reported \in {real, 0},
               Commit(w, real, reported)
        PROVE  LlmTypeOK'
    <3>1. Counted(reported, holding[w].estimate) \in Nat
      BY Amounts, AmountsOfState DEF Counted
    <3>2. meter' \in [date : 0 .. today, actual : Nat, reserved : 0 .. DailyLimit]
      <4>1. PICK m \in [date : 0 .. today, actual : Nat, reserved : 0 .. DailyLimit] :
              m = Meter
        BY MeterTypes
      <4>2. PICK c \in Nat : c = Counted(reported, holding[w].estimate)
        BY <3>1
      <4>3. PICK r \in 0 .. DailyLimit : r = Less(m.reserved, holding[w].estimate)
        BY LessTypes
      <4>4. meter' = [m EXCEPT !.actual = @ + c, !.reserved = r]
        BY <2>4, <4>1, <4>2, <4>3 DEF Commit
      <4>5. m.actual + c \in Nat
        BY <4>1, <4>2
      <4> QED
        BY <4>4, <4>5
    <3>3. {used', unforeseen', unmetered'} \subseteq [1 .. MaxDays -> Nat]
      <4>1. holding[w].estimate \in Nat /\ real \in Nat
        BY Amounts, AmountsOfState
      <4>2. UsedOK'
        BY <2>4, <3>1, <4>1, Using DEF Commit
      <4> QED
        BY <4>2 DEF UsedOK
    <3> QED
      BY <2>4, <3>2, <3>3 DEF Commit, LlmTypeOK
  <2>5. ASSUME NEW w \in Processes, NEW real \in Tokens, Release(w, real)
        PROVE  LlmTypeOK'
    <3>1. meter' \in [date : 0 .. today, actual : Nat, reserved : 0 .. DailyLimit]
      BY <2>5, MeterTypes, LessTypes DEF Release
    <3>2. UsedOK'
      BY <2>5, Amounts, Using DEF Release
    <3> QED
      BY <2>5, <3>1, <3>2 DEF Release, UsedOK, LlmTypeOK
  <2>6. ASSUME NEW w \in Processes, NEW real \in Tokens, Dies(w, real)
        PROVE  LlmTypeOK'
    <3>1. UsedOK'
      BY <2>6, Amounts, AmountsOfState, Using DEF Dies
    <3> QED
      BY <2>6, <3>1 DEF Dies, UsedOK, LlmTypeOK
  <2>7. ASSUME NEW w \in Processes, NEW real \in Tokens, Tear(w, real)
        PROVE  LlmTypeOK'
    <3>1. {used', unforeseen', unmetered'} \subseteq [1 .. MaxDays -> Nat]
      <4>1. CASE holding[w] = NoCall
        BY <2>7, <4>1 DEF Tear, usage, LlmTypeOK
      <4>2. CASE holding[w] # NoCall
        <5>1. UsedOK'
          BY <2>7, <4>2, Amounts, AmountsOfState, Using DEF Tear
        <5> QED
          BY <5>1 DEF UsedOK
      <4> QED
        BY <4>1, <4>2
    <3> QED
      <4>1. meter' \in [date : 0 .. today, actual : Nat, reserved : 0 .. DailyLimit]
        BY <2>7, Amounts DEF Tear, LlmTypeOK
      <4>2. today' = today /\ holding' = [holding EXCEPT ![w] = NoCall]
        BY <2>7 DEF Tear
      <4> QED
        BY <3>1, <4>1, <4>2 DEF LlmTypeOK
  <2> QED
    BY <2>1, <2>2, <2>3, <2>4, <2>5, <2>6, <2>7 DEF LlmNext
<1> QED
  BY <1>1, <1>2, LlmInvariant, PTL DEF LlmSpec

LEMMA SuppressionTypes == SuppressionSpec => []SuppressionTypeOK
<1>1. SuppressionInit => lostAnswers \in 0 .. MaxLostAnswers
  BY SuppressionAssumption DEF SuppressionAssumption, SuppressionInit
<1>2. lostAnswers \in 0 .. MaxLostAnswers /\ [SuppressionNext]_suppressionVars
        => (lostAnswers \in 0 .. MaxLostAnswers)'
  <2> SUFFICES ASSUME lostAnswers \in 0 .. MaxLostAnswers,
                      [SuppressionNext]_suppressionVars
               PROVE  lostAnswers' \in 0 .. MaxLostAnswers
    OBVIOUS
  <2>1. \/ lostAnswers' = lostAnswers
        \/ lostAnswers < MaxLostAnswers /\ lostAnswers' = lostAnswers + 1
    <3>1. CASE \E w \in Triagers : AnswerLost(w)
      BY <3>1 DEF AnswerLost
    <3>2. CASE \E w \in Triagers : LookUpRule(w) \/ Spend(w)
      BY <3>2 DEF LookUpRule, Spend
    <3>3. CASE \/ \E f \in Prints, source \in Sources : Learn(f, source)
               \/ DeleteDemoRules
               \/ \E w \in Triagers, x \in Signals : Classify(w, x)
      BY <3>3 DEF Learn, DeleteDemoRules, Classify
    <3> QED
      BY <3>1, <3>2, <3>3 DEF SuppressionNext, suppressionVars
  <2> QED
    BY <2>1, SuppressionAssumption DEF SuppressionAssumption
<1>3. SuppressionInv /\ lostAnswers \in 0 .. MaxLostAnswers => SuppressionTypeOK
  <2> SUFFICES ASSUME SuppressionInv, lostAnswers \in 0 .. MaxLostAnswers
               PROVE  SuppressionTypeOK
    OBVIOUS
  <2>1. \A w \in Triagers : work[w].stage \in {"idle", "lookup", "spend"}
    BY WorkShape DEF SuppressionInv, LookingUp, Spending
  <2> QED
    BY <2>1 DEF SuppressionInv, SuppressionTypeOK, Rules, Decisions
<1> QED
  BY <1>1, <1>2, <1>3, SuppressionInvariant, PTL DEF SuppressionSpec

LEMMA PaymentTypes == PaymentSpec => []PaymentTypeOK
<1>1. PaymentInv => PaymentTypeOK
  <2> SUFFICES ASSUME PaymentInv  PROVE PaymentTypeOK
    OBVIOUS
  <2>1. ASSUME NEW r \in Requests
        PROVE  /\ request[r].stage \in Stages /\ request[r].payment \in Payments
               /\ {request[r].attempt, request[r].lookup} \subseteq 1 .. Attempts
    <3>1. request[r] \in Requested
      BY DEF PaymentInv, PaymentTyped
    <3> QED
      BY <3>1 DEF Requested
  <2> QED
    BY <2>1 DEF PaymentInv, PaymentTyped, PaymentTypeOK, Statuses
<1> QED
  BY <1>1, PaymentInvariant, PTL

LEMMA DemoTypes == DemoSpec => []DemoTypeOK
<1>1. DemoInit => DemoTypeOK
  <2> SUFFICES ASSUME DemoInit  PROVE DemoTypeOK
    OBVIOUS
  <2>1. failures \in 0 .. MaxFailures /\ restarts \in 0 .. MaxRestarts
    BY DemoAssumption DEF DemoAssumption, DemoInit
  <2>2. \A p \in Demos : /\ rows[p] = "none" /\ ~ room[p].attached
                         /\ ~ room[p].card
    BY DEF DemoInit, NoRoom
  <2> QED
    BY <2>1, <2>2 DEF DemoInit, DemoTypeOK
<1>2. DemoInv /\ DemoTypeOK /\ [DemoNext]_demoVars => DemoTypeOK'
  <2> SUFFICES ASSUME DemoInv, DemoTypeOK, [DemoNext]_demoVars, DemoInv'
               PROVE  DemoTypeOK'
    BY DemoStep
  <2>1. cooling' \in BOOLEAN /\ failures' \in 0 .. MaxFailures
        /\ restarts' \in 0 .. MaxRestarts
    <3>1. cooling' \in BOOLEAN
      <4>1. cooling \in BOOLEAN
        BY DEF DemoTypeOK
      <4>2. \/ cooling' \in {cooling, FALSE}
            \/ cooling' = (cooling \/ trigger.step = "activate")
        BY DEF DemoNext, Working, demoVars, Trigger, Answered, Failed, Compensate, Warm,
               Reset, ClearSimulator, DeleteRows, Restart
      <4> QED
        BY <4>1, <4>2
    <3>2. UNCHANGED failures \/ Lose
      BY DEF DemoNext, Working, demoVars, Trigger, Answered, Failed, Compensate, Warm,
             Reset, ClearSimulator, DeleteRows, Restart
    <3>3. UNCHANGED restarts \/ Restart
      BY DEF DemoNext, Working, demoVars, Trigger, Answered, Failed, Compensate, Warm,
             Reset, ClearSimulator, DeleteRows
    <3>4. /\ failures \in 0 .. MaxFailures /\ restarts \in 0 .. MaxRestarts
          /\ MaxFailures \in Nat /\ MaxRestarts \in Nat
      BY DemoAssumption DEF DemoAssumption, DemoTypeOK
    <3>5. failures' \in 0 .. MaxFailures
      BY <3>2, <3>4 DEF Lose
    <3>6. restarts' \in 0 .. MaxRestarts
      BY <3>3, <3>4 DEF Restart
    <3> QED
      BY <3>1, <3>5, <3>6
  <2>2. CASE UNCHANGED <<rows, room>> /\ started \subseteq started'
    BY <2>1, <2>2 DEF DemoInv, DemoTypeOK, Steps
  <2>3. ASSUME NEW p \in Demos, NEW step \in TriggerSteps,
               step = trigger.step, trigger.prop = p, Effect(step, p),
               started' = started
        PROVE  DemoTypeOK'
    <3>1. p \in started /\ TriggerIsAt(step, p)
      BY <2>3, IdleShape DEF DemoInv, TriggerSteps
    <3>2. ASSUME NEW q \in Demos
          PROVE  /\ rows'[q] # "none" => q \in started'
                 /\ room'[q].attached => rows'[q] # "none"
                 /\ room'[q].card => room'[q].triage
      <4>1. /\ rows[q] # "none" => q \in started
            /\ room[q].attached => rows[q] # "none"
            /\ room[q].card => room[q].triage
            /\ room[q] \in Rooms /\ room \in [Demos -> Rooms]
            /\ rows \in [Demos -> {"none", "detected", "confirmed"}]
        BY DEF DemoTypeOK, DemoInv
      <4>2. CASE q # p
        BY <2>3, <4>1, <4>2
           DEF Effect, Activated, Prepared, RoomOpened, Invited, CardPosted, Confirmed
      <4>3. CASE q = p
        BY <2>3, <3>1, <4>1, <4>3
           DEF Effect, Activated, Prepared, RoomOpened, Invited, CardPosted, Confirmed,
               TriggerIsAt, Rooms
      <4> QED
        BY <4>2, <4>3
    <3> QED
      BY <2>1, <3>2 DEF DemoInv, DemoTypeOK, Steps
  <2>4. ASSUME NEW p \in Demos, Trigger(p)  PROVE DemoTypeOK'
    BY <2>2, <2>4 DEF Trigger
  <2>5. ASSUME NEW p \in Demos, Answered(p)  PROVE DemoTypeOK'
    BY <2>3, <2>5 DEF Answered
  <2>6. ASSUME NEW p \in Demos, Failed(p)  PROVE DemoTypeOK'
    BY <2>2, <2>3, <2>6 DEF Failed
  <2>7. ASSUME NEW p \in Demos, Compensate(p)  PROVE DemoTypeOK'
    BY <2>2, <2>7 DEF Compensate
  <2>8. CASE DeleteRows
    <3>1. CASE /\ rows' = [q \in Demos |-> "none"]
               /\ room' = [q \in Demos |-> [room[q] EXCEPT !.attached = FALSE]]
      <4>1. ASSUME NEW q \in Demos
            PROVE  /\ rows'[q] = "none" /\ ~ room'[q].attached
                   /\ room'[q].card => room'[q].triage
        <5>1. room[q] \in Rooms /\ (room[q].card => room[q].triage)
          BY DEF DemoInv, DemoTypeOK
        <5>2. room'[q] = [room[q] EXCEPT !.attached = FALSE]
          BY <3>1
        <5> QED
          BY <3>1, <5>1, <5>2 DEF Rooms
      <4> QED
        BY <2>1, <2>8, <4>1 DEF DeleteRows, DemoInv, DemoTypeOK, Steps
    <3> QED
      BY <2>2, <2>8, <3>1 DEF DeleteRows
  <2>9. CASE Warm \/ Reset \/ ClearSimulator \/ Restart \/ UNCHANGED demoVars
    BY <2>2, <2>9 DEF Warm, Reset, ClearSimulator, Restart, demoVars
  <2> QED
    BY <2>4, <2>5, <2>6, <2>7, <2>8, <2>9 DEF DemoNext, Working
<1> QED
  BY <1>1, <1>2, DemoInvariant, PTL DEF DemoSpec

LEMMA DeployTypes == DeploySpec => []DeployTypeOK
<1>1. DeployInv => DeployTypeOK
  BY DEF DeployInv
<1> QED
  BY <1>1, DeployInvariant, PTL

\* Side by side, for every number of clients, processes, signals, payments,
\* proposals and deploys: no request, loss, death or midnight brings any of the
\* seven components to a value its code has no case for.
THEOREM ServicesTypesCorrect == ServicesSpec => []ServicesTypeOK
  BY RateTypes, LlmTypes, SuppressionTypes, PaymentTypes, DemoTypes, DeployTypes,
     OdraTypeCorrect, PTL DEF ServicesSpec, ServicesTypeOK

=============================================================================
