----------------------------- MODULE WorkQueue -----------------------------
(***************************************************************************)
(* What RedisJobQueue promises the workers that share it: messages are     *)
(* leased in the order they were sent, each to one worker and never to a   *)
(* second one, and leave the lease only by being acknowledged. There is no *)
(* way back from a lease to the queue: an unacknowledged message stays     *)
(* leased, also when its worker is gone.                                   *)
(***************************************************************************)
EXTENDS Integers

CONSTANTS Messages, Workers, None

VARIABLES
  state,     \* state[m]: "unsent", "queued", "leased" or "done"
  holder     \* holder[m]: the worker with the lease, or None

vars == <<state, holder>>

Init ==
  /\ state = [m \in Messages |-> "unsent"]
  /\ holder = [m \in Messages |-> None]

\* Messages are numbered in the order they are sent.
Send(m) ==
  /\ state[m] = "unsent"
  /\ \A n \in Messages : n < m => state[n] # "unsent"
  /\ state' = [state EXCEPT ![m] = "queued"]
  /\ UNCHANGED holder

Lease(m, w) ==
  /\ state[m] = "queued"
  /\ \A n \in Messages : n < m => state[n] \in {"leased", "done"}
  /\ state' = [state EXCEPT ![m] = "leased"]
  /\ holder' = [holder EXCEPT ![m] = w]

Finish(m) ==
  /\ state[m] = "leased"
  /\ state' = [state EXCEPT ![m] = "done"]
  /\ holder' = [holder EXCEPT ![m] = None]

Next ==
  \E m \in Messages : Send(m) \/ Finish(m) \/ \E w \in Workers : Lease(m, w)

Spec == Init /\ [][Next]_vars
=============================================================================
