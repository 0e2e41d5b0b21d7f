---------------------------- MODULE JobEventHub ----------------------------
(***************************************************************************)
(* app.services.job_events.JobEventHub: the in-process event bus of the    *)
(* API. publish numbers an event, keeps it for replay and hands it to the  *)
(* live queues of the job's subscribers; subscribe_from is an async        *)
(* generator that snapshots the replay and registers its queue, yields the *)
(* snapshot, then the live queue, and unregisters when it is closed.       *)
(*                                                                         *)
(* All of it runs on one event loop. The lock's bodies contain no await    *)
(* and put on an unbounded asyncio.Queue never suspends, so the lock is    *)
(* never contended and publish is one step; a subscriber is suspended      *)
(* between two yields, so subscribing, each yield and the finally block    *)
(* are steps of their own.                                                 *)
(***************************************************************************)
EXTENDS Integers, Sequences, FiniteSets

CONSTANTS
  Jobs,            \* job identifiers
  Sessions,        \* iterations of subscribe_from
  Statuses,        \* what an event says; opaque to the hub
  MaxEvents,       \* maxlen of a job's deque (max_events_per_job, 200)
  MaxPublished     \* bound of the model: events published in one behaviour

ASSUME HubAssumption ==
  /\ MaxEvents \in Nat \ {0}
  /\ MaxPublished \in Nat

VARIABLES
  nextId,          \* _next_id, shared by all jobs
  events,          \* _events[j]
  subscribers,     \* _subscribers[j], the sessions whose queue is registered
  pc,              \* where each generator is: "idle", "open" or "closing"
  job,             \* job_id argument of each generator
  replay,          \* what is left of the snapshot
  queue,           \* the live queue
  \* history: what the properties are about
  log,             \* every event published for j
  first,           \* position in log[job[s]] of the first event owed to s
  yielded          \* what the generator has yielded

vars == <<nextId, events, subscribers, pc, job, replay, queue, log, first, yielded>>
session == <<pc, job, first>>

EventIds == 1..MaxPublished
Events == [id : EventIds, job : Jobs, status : Statuses]
Cursors == 0..MaxPublished

TypeOK ==
  /\ nextId \in 0..MaxPublished
  /\ events \in [Jobs -> Seq(Events)]
  /\ subscribers \in [Jobs -> SUBSET Sessions]
  /\ pc \in [Sessions -> {"idle", "open", "closing"}]
  /\ job \in [Sessions -> Jobs]
  /\ replay \in [Sessions -> Seq(Events)]
  /\ queue \in [Sessions -> Seq(Events)]
  /\ log \in [Jobs -> Seq(Events)]
  /\ first \in [Sessions -> Nat]
  /\ yielded \in [Sessions -> Seq(Events)]

Init ==
  /\ nextId = 0
  /\ events = [j \in Jobs |-> <<>>]
  /\ subscribers = [j \in Jobs |-> {}]
  /\ pc = [s \in Sessions |-> "idle"]
  /\ job \in [Sessions -> Jobs]
  /\ replay = [s \in Sessions |-> <<>>]
  /\ queue = [s \in Sessions |-> <<>>]
  /\ log = [j \in Jobs |-> <<>>]
  /\ first = [s \in Sessions |-> 1]
  /\ yielded = [s \in Sessions |-> <<>>]

\* Mutant: deque() without maxlen.
RetainWithoutBound(seq, e) == Append(seq, e)

\* deque(maxlen=MaxEvents).append
Retain(seq, e) ==
  IF Len(seq) = MaxEvents THEN Append(Tail(seq), e) ELSE Append(seq, e)

\* The deque positions the list comprehension of replay and subscribe_from keeps.
Newer(seq, after) == {i \in 1..Len(seq) : seq[i].id > after}

\* [event for event in seq if event.event_id > after]: the deque is in id order,
\* so that is what follows its first newer event (ids are in order: LogOrdered).
After(seq, after) ==
  IF Newer(seq, after) = {}
  THEN <<>>
  ELSE LET from == CHOOSE i \in Newer(seq, after) : \A k \in Newer(seq, after) : i <= k
       IN  SubSeq(seq, from, Len(seq))

Stored(j, st) == [id |-> nextId + 1, job |-> j, status |-> st]

\* Mutant: the event is filed, but not put on the live queues.
PublishUnheard(j, st) ==
  /\ nextId < MaxPublished
  /\ nextId' = nextId + 1
  /\ events' = [events EXCEPT ![j] = Retain(@, Stored(j, st))]
  /\ log' = [log EXCEPT ![j] = Append(@, Stored(j, st))]
  /\ UNCHANGED <<subscribers, pc, job, replay, queue, first, yielded>>

Publish(j, st) ==
  /\ nextId < MaxPublished
  /\ nextId' = nextId + 1
  /\ events' = [events EXCEPT ![j] = Retain(@, Stored(j, st))]
  /\ queue' = [s \in Sessions |->
                 IF s \in subscribers[j] THEN Append(queue[s], Stored(j, st)) ELSE queue[s]]
  /\ log' = [log EXCEPT ![j] = Append(@, Stored(j, st))]
  /\ UNCHANGED <<subscribers, pc, job, replay, first, yielded>>

\* The first __anext__ of subscribe_from: fresh queue, snapshot and registration
\* in one section.
Subscribe(s, j, after) ==
  /\ pc[s] = "idle"
  /\ pc' = [pc EXCEPT ![s] = "open"]
  /\ job' = [job EXCEPT ![s] = j]
  /\ replay' = [replay EXCEPT ![s] = After(events[j], after)]
  /\ queue' = [queue EXCEPT ![s] = <<>>]
  /\ subscribers' = [subscribers EXCEPT ![j] = @ \cup {s}]
  /\ first' = [first EXCEPT ![s] = Len(log[j]) - Len(After(events[j], after)) + 1]
  /\ yielded' = [yielded EXCEPT ![s] = <<>>]
  /\ UNCHANGED <<nextId, events, log>>

YieldReplay(s) ==
  /\ pc[s] = "open"
  /\ replay[s] # <<>>
  /\ yielded' = [yielded EXCEPT ![s] = Append(@, Head(replay[s]))]
  /\ replay' = [replay EXCEPT ![s] = Tail(@)]
  /\ UNCHANGED <<nextId, events, subscribers, queue, log, session>>

\* Mutant: live events overtake the replay.
YieldLiveEarly(s) ==
  /\ pc[s] = "open"
  /\ queue[s] # <<>>
  /\ yielded' = [yielded EXCEPT ![s] = Append(@, Head(queue[s]))]
  /\ queue' = [queue EXCEPT ![s] = Tail(@)]
  /\ UNCHANGED <<nextId, events, subscribers, replay, log, session>>

\* await queue.get() returns
YieldLive(s) ==
  /\ pc[s] = "open"
  /\ replay[s] = <<>>
  /\ queue[s] # <<>>
  /\ yielded' = [yielded EXCEPT ![s] = Append(@, Head(queue[s]))]
  /\ queue' = [queue EXCEPT ![s] = Tail(@)]
  /\ UNCHANGED <<nextId, events, subscribers, replay, log, session>>

\* The consumer leaves the async for; the generator is closed later, by the
\* event loop's finalizer, and its queue stays registered until then.
Abandon(s) ==
  /\ pc[s] = "open"
  /\ pc' = [pc EXCEPT ![s] = "closing"]
  /\ UNCHANGED <<nextId, events, subscribers, job, replay, queue, log, first, yielded>>

\* Mutant: no finally block.
UnregisterNothing(s) ==
  /\ pc[s] = "closing"
  /\ pc' = [pc EXCEPT ![s] = "idle"]
  /\ UNCHANGED <<nextId, events, subscribers, job, replay, queue, log, first, yielded>>

\* The finally block.
Unregister(s) ==
  /\ pc[s] = "closing"
  /\ pc' = [pc EXCEPT ![s] = "idle"]
  /\ subscribers' = [subscribers EXCEPT ![job[s]] = @ \ {s}]
  /\ UNCHANGED <<nextId, events, job, replay, queue, log, first, yielded>>

Next ==
  \/ \E j \in Jobs, st \in Statuses : Publish(j, st)
  \/ \E s \in Sessions, j \in Jobs, after \in 0..nextId : Subscribe(s, j, after)
  \/ \E s \in Sessions :
       YieldReplay(s) \/ YieldLive(s) \/ Abandon(s) \/ Unregister(s)

Spec == Init /\ [][Next]_vars

\* The event loop keeps running ready tasks; nobody has to publish or subscribe.
Fairness ==
  \A s \in Sessions : /\ WF_vars(YieldReplay(s) \/ YieldLive(s))
                      /\ WF_vars(Unregister(s))

FairSpec == Spec /\ Fairness
-----------------------------------------------------------------------------
(* Ids number the events of a job in the order of publication, below _next_id,
   and every event is filed under its own job. *)
LogOrdered ==
  \A j \in Jobs :
    /\ \A i \in 1..Len(log[j]) : log[j][i].id <= nextId /\ log[j][i].job = j
    /\ \A k \in 1..Len(log[j]) : \A i \in 1..k-1 : log[j][i].id < log[j][k].id

\* The deque of a job with log l: its last MaxEvents events.
IsTail(seq, l) ==
  /\ Len(seq) = IF Len(l) < MaxEvents THEN Len(l) ELSE MaxEvents
  /\ seq = SubSeq(l, Len(l) - Len(seq) + 1, Len(l))

(* What is kept for replay is exactly the last MaxEvents events of the job. *)
DequeIsTail == \A j \in Jobs : IsTail(events[j], log[j])

(* Registering the queue and taking the snapshot in one lock section loses no
   event and repeats none: what a live generator has yielded, still holds for
   replay and has queued is exactly the job's log from its starting position,
   however publications and yields interleave. *)
NoGapNoRepeat ==
  \A s \in Sessions : pc[s] # "idle" =>
    /\ first[s] \in 1..Len(log[job[s]]) + 1
    /\ (yielded[s] \o replay[s]) \o queue[s]
         = SubSeq(log[job[s]], first[s], Len(log[job[s]]))

(* A subscriber that keeps iterating is shown every event that its job has
   recorded when it subscribed or later, unless it leaves first. *)
EverythingIsShown ==
  \A s \in Sessions : \A n \in 1..MaxPublished :
    (pc[s] = "open" /\ Len(log[job[s]]) - first[s] + 1 >= n)
      ~> (Len(yielded[s]) >= n \/ pc[s] # "open")

(* A generator its consumer has left is unregistered in the end: no queue keeps
   filling for nobody. *)
AbandonedIsUnregistered ==
  \A s \in Sessions : pc[s] = "closing" ~> s \notin UNION {subscribers[j] : j \in Jobs}

Feed == INSTANCE EventFeed WITH following <- {s \in Sessions : pc[s] = "open"}

(* The hub implements the feed: snapshot plus live queue behaves like a cursor
   on one log. *)
ImplementsFeed == Feed!Spec
=============================================================================
