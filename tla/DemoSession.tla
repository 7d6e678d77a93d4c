---------------------------- MODULE DemoSession ----------------------------
(***************************************************************************)
(* How a proposal enters the system and how a session is cleared:          *)
(* POST /demo/trigger and POST /demo/reset (gateway/routes/demo.py,        *)
(* demo_cleanup.py) between the proposal simulator, the gateway's tables   *)
(* and its Council Chambers (routes/rooms.py, agents/recorder).            *)
(*                                                                         *)
(* A trigger is a chain of requests: activate the scenario in the          *)
(* simulator, prepare the ProposalCard, create the room, invite the triage *)
(* agent, post the card, confirm it.  The one that fails ends it, and      *)
(* once the activation was answered the simulator is asked to forget the   *)
(* scenario.  A request that fails may have had its effect.  What the      *)
(* gateway has made by then stays: preparing the card already inserts the  *)
(* proposal's row in state DETECTED, which GET /proposals lists, and only  *)
(* a reset removes it.                                                     *)
(*                                                                         *)
(* A reset asks the simulator first and then deletes the local rows.  Both *)
(* hold one lock over all their awaits; a second trigger is refused, a     *)
(* reset waits.                                                            *)
(***************************************************************************)
EXTENDS Naturals, FiniteSets

CONSTANTS
  Demos,        \* the DAO-PROP-* identifiers, one per trigger
  MaxFailures,  \* bound: requests of a session that fail
  MaxRestarts   \* bound: deaths of the gateway

ASSUME DemoAssumption == MaxFailures \in Nat /\ MaxRestarts \in Nat

VARIABLES
  simulator,  \* the simulator's active scenarios
  rows,       \* the row of each proposal, DETECTED once it is there, and
              \* whether its ProposalCard is confirmed as well
  room,       \* the Council Chamber of each
  trigger,    \* the request a trigger is at, and its proposal
  reset,      \* the step a reset is at
  cooling,    \* less than thirty seconds since the last activation
  started,    \* identifiers given out
  failures, restarts

demoVars == <<simulator, rows, room, trigger, reset, cooling, started, failures, restarts>>

TriggerSteps == {"activate", "prepare", "room", "invite", "post", "confirm"}

NoRoom == [attached |-> FALSE, triage |-> FALSE, card |-> FALSE]
Idle == [step |-> "idle"]
At(step, p) == [step |-> step, prop |-> p]

DemoTypeOK ==
  /\ simulator \subseteq started /\ started \subseteq Demos
  /\ rows \in [Demos -> {"none", "detected", "confirmed"}]
  /\ \A p \in Demos : /\ rows[p] # "none" => p \in started
                      /\ room[p].attached => rows[p] # "none"
                      /\ room[p].card => room[p].triage
  /\ trigger \in {Idle} \cup [step : TriggerSteps \cup {"compensate"}, prop : started]
  /\ reset \in {"idle", "clear", "delete"}
  /\ cooling \in BOOLEAN
  /\ failures \in 0 .. MaxFailures /\ restarts \in 0 .. MaxRestarts

DemoInit ==
  /\ simulator = {}
  /\ rows = [p \in Demos |-> "none"]
  /\ room = [p \in Demos |-> NoRoom]
  /\ trigger = Idle /\ reset = "idle" /\ cooling = FALSE /\ started = {}
  /\ failures = 0 /\ restarts = 0

\* _trigger_lock.
Unlocked == trigger = Idle /\ reset = "idle"

-----------------------------------------------------------------------------
(***************************************************************************)
(* The requests of a trigger.                                              *)
(***************************************************************************)

Lose == failures < MaxFailures /\ failures' = failures + 1

\* What each request does where it is served.
Activated(p) == simulator' = simulator \cup {p} /\ UNCHANGED <<rows, room>>
Prepared(p)  == rows' = [rows EXCEPT ![p] = "detected"] /\ UNCHANGED <<simulator, room>>
RoomOpened(p) ==
  /\ room' = [room EXCEPT ![p].attached = TRUE]
  /\ UNCHANGED <<simulator, rows>>
Invited(p)   == room' = [room EXCEPT ![p].triage = TRUE] /\ UNCHANGED <<simulator, rows>>
CardPosted(p) == room' = [room EXCEPT ![p].card = TRUE] /\ UNCHANGED <<simulator, rows>>
Confirmed(p) == rows' = [rows EXCEPT ![p] = "confirmed"] /\ UNCHANGED <<simulator, room>>

Effect(step, p) ==
  \/ step = "activate" /\ Activated(p)
  \/ step = "prepare"  /\ Prepared(p)
  \/ step = "room"     /\ RoomOpened(p)
  \/ step = "invite"   /\ Invited(p)
  \/ step = "post"     /\ CardPosted(p)
  \/ step = "confirm"  /\ Confirmed(p)

Following == [activate |-> "prepare", prepare |-> "room", room |-> "invite",
              invite |-> "post", post |-> "confirm"]

\* 429 while the lock is held or the cooldown runs.
Trigger(p) ==
  /\ Unlocked /\ ~ cooling /\ p \notin started
  /\ started' = started \cup {p}
  /\ trigger' = At("activate", p)
  /\ UNCHANGED <<simulator, rows, room, reset, cooling, failures, restarts>>

Answered(p) ==
  LET step == trigger.step IN
  /\ step \in TriggerSteps /\ trigger.prop = p
  /\ Effect(step, p)
  /\ trigger' = IF step = "confirm" THEN Idle ELSE At(Following[step], p)
  /\ cooling' = (cooling \/ step = "activate")
  /\ UNCHANGED <<reset, started, failures, restarts>>

\* The exception handler knows of the scenario only if its activation was
\* answered.
AfterFailure(step, p) == IF step = "activate" THEN Idle ELSE At("compensate", p)

Failed(p) ==
  LET step == trigger.step IN
  /\ step \in TriggerSteps /\ trigger.prop = p
  /\ Lose
  /\ Effect(step, p) \/ UNCHANGED <<simulator, rows, room>>
  /\ trigger' = AfterFailure(step, p)
  /\ UNCHANGED <<reset, cooling, started, restarts>>

\* Mutant: a compensation that fails leaves the lock held.
Released_Never(done) == IF done THEN Idle ELSE [step |-> "held"]

Released(done) == Idle

\* POST /admin/scenario/{id}/reset, best effort.
Compensate(p) ==
  /\ trigger = At("compensate", p)
  /\ \/ simulator' = simulator \ {p} /\ UNCHANGED failures
     \/ Lose /\ simulator' \in {simulator, simulator \ {p}}
  /\ trigger' = Released(failures' = failures)
  /\ UNCHANGED <<rows, room, reset, cooling, started, restarts>>

Warm ==
  /\ cooling /\ cooling' = FALSE
  /\ UNCHANGED <<simulator, rows, room, trigger, reset, started, failures, restarts>>

-----------------------------------------------------------------------------
(***************************************************************************)
(* A reset.                                                                *)
(***************************************************************************)

\* Mutant: a reset does not take the lock.
MayReset_Unlocked == reset = "idle"

MayReset == Unlocked

Reset ==
  /\ MayReset
  /\ reset' = "clear"
  /\ UNCHANGED <<simulator, rows, room, trigger, cooling, started, failures, restarts>>

AfterClear(answered) == IF answered THEN "delete" ELSE "idle"

\* POST /admin/scenario/reset-all.
ClearSimulator ==
  /\ reset = "clear"
  /\ \/ simulator' = {} /\ reset' = AfterClear(TRUE) /\ UNCHANGED failures
     \/ Lose /\ simulator' \in {simulator, {}} /\ reset' = AfterClear(FALSE)
  /\ UNCHANGED <<rows, room, trigger, cooling, started, restarts>>

\* remove_demo_proposals: one transaction; the Council Chambers are detached
\* and kept.  (Suppression models the rules it deletes.)
DeleteRows ==
  /\ reset = "delete"
  /\ \/ /\ rows' = [p \in Demos |-> "none"]
        /\ room' = [p \in Demos |-> [room[p] EXCEPT !.attached = FALSE]]
        /\ UNCHANGED failures
     \/ Lose /\ UNCHANGED <<rows, room>>
  /\ reset' = "idle"
  /\ UNCHANGED <<simulator, trigger, cooling, started, restarts>>

\* The gateway dies, and its lock and cooldown with it.
Restart ==
  /\ restarts < MaxRestarts /\ restarts' = restarts + 1
  /\ trigger' = Idle /\ reset' = "idle" /\ cooling' = FALSE
  /\ UNCHANGED <<simulator, rows, room, started, failures>>

Working ==
  \/ \E p \in Demos : Answered(p) \/ Failed(p) \/ Compensate(p)
  \/ ClearSimulator
  \/ DeleteRows

DemoNext ==
  \/ \E p \in Demos : Trigger(p)
  \/ Working
  \/ Warm
  \/ Reset
  \/ Restart

DemoSpec == DemoInit /\ [][DemoNext]_demoVars

\* Every request of a session has a timeout.
FairDemoSpec == DemoSpec /\ WF_demoVars(Working)

-----------------------------------------------------------------------------

\* "Simulator first: if reset fails, retain Gateway rows so an active proposal
\* cannot disappear from the dashboard as an orphan": whatever fails, no row is
\* deleted while the simulator still runs its scenario.
ActiveIsKept ==
  [][\A p \in Demos : rows[p] # "none" /\ rows'[p] = "none" => p \notin simulator]_demoVars

\* A proposal whose card is confirmed has the triage agent and that card in its
\* Council Chamber: somebody can take it up.
ConfirmedIsStaffed ==
  \A p \in Demos : rows[p] = "confirmed" => room[p].triage /\ room[p].card

BeingMade(p) == trigger.step \in TriggerSteps /\ trigger.prop = p

\* DETECTED, and nobody is going to confirm the card.
HalfMade == {p \in Demos : rows[p] = "detected" /\ ~ BeingMade(p)}

\* Between its prepare and its confirm a proposal is shown as DETECTED although
\* its room, triage agent or card may be missing, and nothing repairs one whose
\* trigger ended early.  Each of these is the trace of one failed request or
\* one death of the gateway: no order of triggers and resets leaves another.
HalfMadeIsAFailure == Cardinality(HalfMade) <= failures + restarts

\* A reset does not delete a proposal from under the trigger that is creating
\* it, however their requests interleave.
TriggerKeepsItsRows ==
  trigger.step \in {"room", "invite", "post", "confirm"} =>
    /\ rows[trigger.prop] = "detected"
    /\ trigger.step # "room" => room[trigger.prop].attached

\* Whatever fails in the middle of a session, dies or crosses it: nothing
\* half-made is confirmed, none is left without a failure, and nothing that is
\* being created or still runs is deleted.
SessionIsWhole ==
  /\ [](ConfirmedIsStaffed /\ HalfMadeIsAFailure /\ TriggerKeepsItsRows)
  /\ ActiveIsKept

\* The lock is always released, so that the next session can begin.
LockIsReleased == []<>Unlocked
=============================================================================
