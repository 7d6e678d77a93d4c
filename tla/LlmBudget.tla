------------------------------ MODULE LlmBudget ------------------------------
(***************************************************************************)
(* The daily budget of model tokens (shared/llm_budget.py) as the agents'  *)
(* calls use it (shared/llm_reasoning.py).  The agents are processes that  *)
(* share one meter file: every change reads and writes it under a file     *)
(* lock, so a change is one step, unless its process dies half-way.        *)
(*                                                                         *)
(* What a call really uses is the provider's affair: an estimate does not  *)
(* bound it, and a call that fails, a timeout for instance, may have used  *)
(* as much as one that is answered.                                        *)
(***************************************************************************)
EXTENDS Naturals, FiniteSets

CONSTANTS
  Processes,   \* processes that call a model, one call at a time
  DailyLimit,  \* CONCORDIA_DAILY_TOKEN_LIMIT
  Estimates,   \* what estimate_tokens may say of a call
  Tokens,      \* what a call may really use
  MaxDays,     \* bound: days
  MaxCalls,    \* bound: calls
  MaxDeaths,   \* bound: processes that die outside the lock
  MaxTears     \* bound: processes that die while they write the meter

ASSUME BudgetAssumption ==
  /\ DailyLimit \in Nat \ {0}
  /\ Estimates \subseteq Nat \ {0}
  /\ Tokens \subseteq Nat
  /\ {MaxDays, MaxCalls, MaxDeaths, MaxTears} \subseteq Nat
  /\ MaxDays > 0

VARIABLES
  today,       \* the date
  meter,       \* the meter file; date 0 is a file that holds no meter
  holding,     \* the reservation each process holds, and its day
  used,        \* tokens the models really used for the calls of each day
  unforeseen,  \* of those: beyond an estimate, or for a call that failed
  unmetered,   \* of those: neither counted nor set aside in the meter
  calls,       \* bound: calls made
  deaths, tears

usage == <<used, unforeseen, unmetered>>

llmVars == <<today, meter, holding, usage, calls, deaths, tears>>

NoCall == [estimate |-> 0, day |-> 0]

LlmTypeOK ==
  /\ today \in 1 .. MaxDays
  /\ meter \in [date : 0 .. today, actual : Nat, reserved : 0 .. DailyLimit]
  /\ holding \in [Processes -> [estimate : Estimates, day : 1 .. today] \cup {NoCall}]
  /\ {used, unforeseen, unmetered} \subseteq [1 .. MaxDays -> Nat]

LlmInit ==
  /\ today = 1
  /\ meter = [date |-> 0, actual |-> 0, reserved |-> 0]
  /\ holding = [w \in Processes |-> NoCall]
  /\ used = [d \in 1 .. MaxDays |-> 0]
  /\ unforeseen = used /\ unmetered = used
  /\ calls = 0 /\ deaths = 0 /\ tears = 0

-----------------------------------------------------------------------------

\* What a process reads: yesterday's meter counts for nothing, nor does a file
\* that does not parse.
Meter ==
  IF meter.date = today THEN meter
  ELSE [date |-> today, actual |-> 0, reserved |-> 0]

Less(a, b) == IF a > b THEN a - b ELSE 0

\* Mutant: what others have reserved is not looked at.
WithinBudget_Actual(e) == Meter.actual + e <= DailyLimit

WithinBudget(e) == Meter.actual + Meter.reserved + e <= DailyLimit

\* reserve
Reserve(w, e) ==
  /\ holding[w] = NoCall
  /\ calls < MaxCalls /\ calls' = calls + 1
  /\ WithinBudget(e)
  /\ meter' = [Meter EXCEPT !.reserved = @ + e]
  /\ holding' = [holding EXCEPT ![w] = [estimate |-> e, day |-> today]]
  /\ UNCHANGED <<today, usage, deaths, tears>>

\* An answer without a usage counts for its estimate.
Counted(reported, e) == IF reported = 0 THEN e ELSE reported

\* A call used `real` tokens, where `planned` were set aside until its end and
\* the meter counts `metered` from then on.
Uses(w, real, planned, metered) ==
  LET d == holding[w].day IN
  /\ used' = [used EXCEPT ![d] = @ + real]
  /\ unforeseen' = [unforeseen EXCEPT ![d] = @ + Less(real, planned)]
  /\ unmetered' = [unmetered EXCEPT ![d] = @ + Less(real, metered)]

\* TokenReservation.commit: the answer says what was used, or nothing.  It is
\* counted whether or not it was foreseen.
Commit(w, real, reported) ==
  /\ holding[w] # NoCall
  /\ LET e == holding[w].estimate
         counted == Counted(reported, e) IN
     /\ meter' = [Meter EXCEPT !.actual = @ + counted, !.reserved = Less(@, e)]
     /\ Uses(w, real, e, counted)
  /\ holding' = [holding EXCEPT ![w] = NoCall]
  /\ UNCHANGED <<today, calls, deaths, tears>>

\* TokenReservation.release: the call failed, and what it used is not known.
Release(w, real) ==
  /\ holding[w] # NoCall
  /\ meter' = [Meter EXCEPT !.reserved = Less(@, holding[w].estimate)]
  /\ Uses(w, real, 0, 0)
  /\ holding' = [holding EXCEPT ![w] = NoCall]
  /\ UNCHANGED <<today, calls, deaths, tears>>

\* A process dies, or its task is cancelled, during its call: nobody gives its
\* reservation back, and it stands for what the call used.
Dies(w, real) ==
  /\ holding[w] # NoCall
  /\ deaths < MaxDeaths /\ deaths' = deaths + 1
  /\ Uses(w, real, holding[w].estimate, holding[w].estimate)
  /\ holding' = [holding EXCEPT ![w] = NoCall]
  /\ UNCHANGED <<today, meter, calls, tears>>

\* A process dies between truncating the meter file and writing it, to begin a
\* call or to end one.
Tear(w, real) ==
  /\ tears < MaxTears /\ tears' = tears + 1
  /\ meter' = [date |-> 0, actual |-> 0, reserved |-> 0]
  /\ IF holding[w] = NoCall THEN UNCHANGED usage
     ELSE Uses(w, real, holding[w].estimate, 0)
  /\ holding' = [holding EXCEPT ![w] = NoCall]
  /\ UNCHANGED <<today, calls, deaths>>

Midnight ==
  /\ today < MaxDays /\ today' = today + 1
  /\ UNCHANGED <<meter, holding, usage, calls, deaths, tears>>

LlmNext ==
  \/ \E w \in Processes :
       \/ \E e \in Estimates : Reserve(w, e)
       \/ \E real \in Tokens :
            \/ \E reported \in {real, 0} : Commit(w, real, reported)
            \/ Release(w, real)
            \/ Dies(w, real)
            \/ Tear(w, real)
  \/ Midnight

LlmSpec == LlmInit /\ [][LlmNext]_llmVars

-----------------------------------------------------------------------------

\* The tokens that are set aside for calls under way, and how many are for calls
\* that began on day d.
Units == UNION {0 .. e : e \in Estimates}

Held == {h \in Processes \X Units : 0 < h[2] /\ h[2] <= holding[h[1]].estimate}

InFlight(d) == Cardinality({h \in Held : holding[h[1]].day = d})

\* The circuit breaker: what the calls of a day really used, and what is set
\* aside for those under way, exceeds the limit only by what nobody could
\* foresee (tokens beyond an estimate, tokens of calls that failed), whichever
\* processes call, fail and die.  A reservation of yesterday that is given back
\* today, and a process that dies while it writes the meter, each make room for
\* calls within the limit once more and not for ever.  Within a day the meter
\* misses nothing but the use nobody told it of and, unless a process died with
\* its reservation, holds nothing back: what is reserved is what is in flight.
BudgetIsKept ==
  /\ used[today] + InFlight(today)
       <= (today + tears) * DailyLimit + unforeseen[today]
  /\ today = 1 /\ tears = 0 =>
       /\ used[today] + InFlight(today)
            <= Meter.actual + Meter.reserved + unmetered[today]
       /\ deaths = 0 => Meter.reserved = InFlight(today)

=============================================================================
