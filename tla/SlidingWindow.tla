--------------------------- MODULE SlidingWindow ---------------------------
(***************************************************************************)
(* SlidingWindowLimiter of app.middleware.rate_limit: one deque of times   *)
(* for each client. It is used by the HTTP middleware and, in an instance  *)
(* of its own, by the two WebSocket routes, always on the event loop, so   *)
(* that a call of allow is one step.                                       *)
(*                                                                         *)
(* time.monotonic is a counter of ticks, several to a second; calls of     *)
(* allow may see the same tick.                                            *)
(***************************************************************************)
EXTENDS Integers, Sequences, FiniteSets

CONSTANTS
  Clients,
  Limit,
  WindowSeconds,
  TicksPerSecond,
  MaxKeys,         \* 10000 in the code
  MaxTime          \* bound of the model

ASSUME LimiterAssumption ==
  /\ Limit \in Nat \ {0}
  /\ WindowSeconds \in Nat \ {0}
  /\ TicksPerSecond \in Nat \ {0}
  /\ MaxKeys \in Nat
  /\ MaxTime \in Nat

VARIABLES
  now,
  events,          \* self._events: defined for the keys in the table
  admitted         \* history: the times of each client's admitted requests

limiterVars == <<now, events, admitted>>

Window == WindowSeconds * TicksPerSecond

LimiterTypeOK ==
  /\ now \in 0..MaxTime
  /\ DOMAIN events \subseteq Clients
  /\ \A c \in DOMAIN events : events[c] \in Seq(0..now) /\ Len(events[c]) <= Limit
  /\ admitted \in [Clients -> Seq(0..now)]

LimiterInit ==
  /\ now = 0
  /\ events = [c \in {} |-> <<>>]
  /\ admitted = [c \in Clients |-> <<>>]

Tick ==
  /\ now < MaxTime
  /\ now' = now + 1
  /\ UNCHANGED <<events, admitted>>

\* times from the first of the given positions on.
From(times, positions) ==
  IF positions = {} THEN <<>>
  ELSE SubSeq(times, CHOOSE i \in positions : \A k \in positions : i <= k, Len(times))

Kept(c) == IF c \in DOMAIN events THEN events[c] ELSE <<>>

\* Mutant: an event stays for the instant in which it is as old as the window.
FreshClosed(c) == From(Kept(c), {i \in 1..Len(Kept(c)) : Kept(c)[i] >= now - Window})

\* The deque after the loop of popleft, which stops at the first event in the window.
Fresh(c) == From(Kept(c), {i \in 1..Len(Kept(c)) : Kept(c)[i] > now - Window})

Put(c, times) ==
  [d \in DOMAIN events \cup {c} |-> IF d = c THEN times ELSE events[d]]

\* Mutant: every other key is dropped.
CompactedToNow(table) ==
  IF Cardinality(DOMAIN table) <= MaxKeys THEN table
  ELSE [c \in {d \in DOMAIN table : table[d] # <<>> /\ table[d][Len(table[d])] = now} |-> table[c]]

\* A table with too many keys keeps those whose last event is in the window.
Compacted(table) ==
  IF Cardinality(DOMAIN table) <= MaxKeys THEN table
  ELSE [c \in {d \in DOMAIN table :
                 table[d] # <<>> /\ table[d][Len(table[d])] > now - Window} |-> table[c]]

Admit(c) ==
  /\ Len(Fresh(c)) < Limit
  /\ events' = Compacted(Put(c, Append(Fresh(c), now)))
  /\ admitted' = [admitted EXCEPT ![c] = Append(@, now)]
  /\ UNCHANGED now

Refuse(c) ==
  /\ Len(Fresh(c)) >= Limit
  /\ events' = Put(c, Fresh(c))
  /\ UNCHANGED <<now, admitted>>

\* The second result of a refused call, max(1, int(...)): the full seconds until the
\* first event leaves the window.
RetryAfter(c) ==
  LET left == Fresh(c)[1] + Window - now
  IN  IF left < TicksPerSecond THEN 1 ELSE left \div TicksPerSecond

Allow(c) == Admit(c) \/ Refuse(c)

LimiterNext == Tick \/ \E c \in Clients : Allow(c)

LimiterSpec == LimiterInit /\ [][LimiterNext]_limiterVars
-----------------------------------------------------------------------------
Promise == INSTANCE RateWindow

(* Dropping old events and compacting the table forget nothing that counts: a client is
   admitted only while fewer than Limit of its admitted requests lie in the window. *)
ImplementsWindow == Promise!Spec

(* Nor does anything count that has left the window: a client is refused only when the
   window is full. Retry-After is then right to a second: the limit holds until shortly
   before, and a second later a request would be admitted if none came in between. *)
RefusalIsJust ==
  \A c \in Clients : Len(Fresh(c)) >= Limit =>
    LET wait == RetryAfter(c)
    IN  /\ Promise!InWindow(admitted[c], now) = Limit
        /\ wait > 1 => Promise!InWindow(admitted[c], now + wait * TicksPerSecond - 1) = Limit
        /\ Promise!InWindow(admitted[c], now + (wait + 1) * TicksPerSecond) < Limit
=============================================================================
