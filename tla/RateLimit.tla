------------------------------ MODULE RateLimit ------------------------------
(***************************************************************************)
(* The sliding window of gateway/rate_limit.py: a queue of times for every *)
(* client, kept in the memory of the one worker process.                   *)
(***************************************************************************)
EXTENDS Integers, Sequences, FiniteSets

CONSTANTS
  Clients,    \* credentials and addresses that are told apart
  Limit,      \* CONCORDIA_RATE_LIMIT_PER_MINUTE
  Window,     \* CONCORDIA_RATE_LIMIT_WINDOW_SECONDS
  MaxTime     \* bound: ticks of the clock

ASSUME RateAssumption == {Limit, Window, MaxTime} \subseteq Nat \ {0}

VARIABLES
  now,       \* time.monotonic()
  hits,      \* _hits
  served,    \* when each request of a client was let through
  refused    \* the clients whose last request was refused, and when

rateVars == <<now, hits, served, refused>>

Times == 0 .. MaxTime

RateTypeOK ==
  /\ now \in Times
  /\ \A c \in Clients : hits[c] \in Seq(Times) /\ Len(hits[c]) <= Limit
  /\ \A c \in Clients : served[c] \in Seq(Times)
  /\ refused \in [Clients -> Times \cup {-1}]

RateInit ==
  /\ now = 0
  /\ hits = [c \in Clients |-> <<>>]
  /\ served = [c \in Clients |-> <<>>]
  /\ refused = [c \in Clients |-> -1]

\* Mutant: a request that is exactly one window old no longer counts.
Expired_Edge(t) == t <= now - Window

Expired(t) == t < now - Window

\* The queue without the expired times at its head.
Pruned(q) ==
  LET n == CHOOSE i \in 0 .. Len(q) :
             /\ \A j \in 1 .. i : Expired(q[j])
             /\ i < Len(q) => ~ Expired(q[i + 1])
  IN SubSeq(q, n + 1, Len(q))

Serve(c) ==
  /\ Len(Pruned(hits[c])) < Limit
  /\ hits' = [hits EXCEPT ![c] = Append(Pruned(@), now)]
  /\ served' = [served EXCEPT ![c] = Append(@, now)]
  /\ refused' = [refused EXCEPT ![c] = -1]
  /\ UNCHANGED now

\* 429: the request leaves no trace in the queue.
Refuse(c) ==
  /\ Len(Pruned(hits[c])) >= Limit
  /\ hits' = [hits EXCEPT ![c] = Pruned(@)]
  /\ refused' = [refused EXCEPT ![c] = now]
  /\ UNCHANGED <<now, served>>

Tick ==
  /\ now < MaxTime /\ now' = now + 1
  /\ UNCHANGED <<hits, served, refused>>

\* A request is served or refused.  Health checks, public reads and the agents'
\* control plane are not counted: they change nothing.
RateNext == Tick \/ \E c \in Clients : Serve(c) \/ Refuse(c)

RateSpec == RateInit /\ [][RateNext]_rateVars

-----------------------------------------------------------------------------

\* The requests of a client let through in the window that ends now.
Recent(c) ==
  {i \in DOMAIN served[c] : now - Window <= served[c][i] /\ served[c][i] <= now}

\* The limit is exact.  No client is served more than Limit requests in any
\* window, both its ends included (as `now` passes every moment: in the window
\* that ends now); and only a client that was served Limit requests in it is
\* refused, so that being refused, and asking again and again, costs nothing.
LimitIsExact ==
  \A c \in Clients :
    /\ Cardinality(Recent(c)) <= Limit
    /\ refused[c] = now => Cardinality(Recent(c)) = Limit

=============================================================================
