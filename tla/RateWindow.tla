----------------------------- MODULE RateWindow -----------------------------
(***************************************************************************)
(* What a rate limiter promises: it knows every request it has ever        *)
(* admitted, and admits a further one only while fewer than Limit of     *)
(* them fall into the window that ends now.                                *)
(***************************************************************************)
EXTENDS Integers, Sequences, FiniteSets

CONSTANTS Clients, Limit, Window

VARIABLES
  now,
  admitted     \* the times of each client's admitted requests

\* How many of the times lie in the window that ends at an instant, open at its start.
InWindow(times, instant) ==
  Cardinality({i \in DOMAIN times : times[i] > instant - Window /\ times[i] <= instant})

Init ==
  /\ now \in Nat
  /\ admitted = [c \in Clients |-> <<>>]

Tick ==
  /\ now' \in Nat /\ now' > now
  /\ UNCHANGED admitted

Admit(c) ==
  /\ InWindow(admitted[c], now) < Limit
  /\ admitted' = [admitted EXCEPT ![c] = Append(@, now)]
  /\ UNCHANGED now

Next == Tick \/ \E c \in Clients : Admit(c)

Spec == Init /\ [][Next]_<<now, admitted>>
=============================================================================
