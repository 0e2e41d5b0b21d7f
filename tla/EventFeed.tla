----------------------------- MODULE EventFeed -----------------------------
(***************************************************************************)
(* What app.services.job_events promises the readers of a job's progress:  *)
(* each job has one ordered record of events, and a follower that names    *)
(* the last event it has seen is shown, one by one and in order, every     *)
(* later event that is still retained at the moment it starts to follow    *)
(* and every event recorded from then on.                                  *)
(***************************************************************************)
EXTENDS Integers, Sequences

CONSTANTS
  Jobs,        \* job identifiers
  Sessions,    \* followers
  Events,      \* the events; each has a field "id"
  Cursors,     \* the last event id a follower may name
  MaxEvents    \* how many of a job's latest events are retained

VARIABLES
  log,         \* log[j]: every event ever recorded for j, oldest first
  following,   \* the followers that are being served
  job,         \* job[s]: the job s follows
  first,       \* first[s]: position in the log of the first event s is owed
  yielded      \* yielded[s]: the events s has been shown

vars == <<log, following, job, first, yielded>>

Init ==
  /\ log = [j \in Jobs |-> <<>>]
  /\ following = {}
  /\ job \in [Sessions -> Jobs]
  /\ first = [s \in Sessions |-> 1]
  /\ yielded = [s \in Sessions |-> <<>>]

\* An event is recorded at the end, with an id above every id before it.
Record(j, e) ==
  /\ \A i \in 1..Len(log[j]) : log[j][i].id < e.id
  /\ log' = [log EXCEPT ![j] = Append(@, e)]
  /\ UNCHANGED <<following, job, first, yielded>>

\* Position f is where a follower with this cursor starts: everything before
\* f is either known to it or no longer retained, everything from f on is new.
StartsAt(j, after, f) ==
  /\ \A i \in 1..f-1 : log[j][i].id <= after \/ i + MaxEvents <= Len(log[j])
  /\ \A i \in f..Len(log[j]) : log[j][i].id > after

Follow(s, j, after, f) ==
  /\ s \notin following
  /\ StartsAt(j, after, f)
  /\ following' = following \cup {s}
  /\ job' = [job EXCEPT ![s] = j]
  /\ first' = [first EXCEPT ![s] = f]
  /\ yielded' = [yielded EXCEPT ![s] = <<>>]
  /\ UNCHANGED log

\* The next event in the log, never one further on, never one again.
Show(s) ==
  /\ s \in following
  /\ LET next == first[s] + Len(yielded[s])
     IN  /\ next <= Len(log[job[s]])
         /\ yielded' = [yielded EXCEPT ![s] = Append(@, log[job[s]][next])]
  /\ UNCHANGED <<log, following, job, first>>

Stop(s) ==
  /\ s \in following
  /\ following' = following \ {s}
  /\ UNCHANGED <<log, job, first, yielded>>

Next ==
  \/ \E j \in Jobs, e \in Events : Record(j, e)
  \/ \E s \in Sessions, j \in Jobs, after \in Cursors :
       \E f \in 1..Len(log[j]) + 1 : Follow(s, j, after, f)
  \/ \E s \in Sessions : Show(s) \/ Stop(s)

Spec == Init /\ [][Next]_vars
=============================================================================
