--------------------------- MODULE RedisJobQueue ---------------------------
(***************************************************************************)
(* app.services.transcription_jobs.RedisJobQueue: one Redis stream read by *)
(* a consumer group. Each RedisJobQueue object is a consumer with a fresh  *)
(* name and its own table _delivery_ids; the stream, the group's position  *)
(* and its pending entries live in Redis.                                  *)
(*                                                                         *)
(* A call is a request and a reply, so Redis acts on it in a step of its   *)
(* own: a reply can be lost with the connection, a dequeue can be          *)
(* cancelled by asyncio.wait_for just as its message arrives, and the      *)
(* process can end between any two steps.                                  *)
(***************************************************************************)
EXTENDS Integers, Sequences, FiniteSets

CONSTANTS
  Consumers,       \* RedisJobQueue objects that dequeue
  Jobs,            \* jobs, by job_id
  Malformed,       \* the jobs whose payload from_json rejects
  MaxMessages,     \* bound of the model: enqueue calls
  MaxSends,        \* enqueue calls for one job: 1 unless a producer retries
  MaxFaults,       \* bound of the model: crashes, cancellations, lost calls
  None

ASSUME QueueAssumption ==
  /\ Malformed \in SUBSET Jobs
  /\ MaxMessages \in Nat
  /\ MaxSends \in Nat
  /\ MaxFaults \in Nat
  /\ None \notin Consumers

Messages == 1..MaxMessages

Phases == {"idle", "grouped", "reading", "replied", "acking", "acked", "dead"}

VARIABLES
  \* Redis
  stream,          \* the stream: the job of each message, in order
  group,           \* the consumer group exists
  position,        \* its last delivered message
  pending,         \* pending[m]: the consumer m is pending for, or None
  \* consumers
  pc,              \* what each consumer is doing
  message,         \* the message of the reply or request under way (0: none)
  acknowledged,    \* the result of the XACK under way
  deliveryIds,     \* _delivery_ids[k][j] (0: no entry)
  faults,
  \* history
  handed,          \* handed[m]: how often a dequeue returned m
  stranded         \* pending messages no consumer has an entry for any more

vars == <<stream, group, position, pending, pc, message, acknowledged, deliveryIds,
          faults, handed, stranded>>

TypeOK ==
  /\ stream \in Seq(Jobs) /\ Len(stream) <= MaxMessages
  /\ group \in BOOLEAN
  /\ position \in 0..Len(stream)
  /\ pending \in [Messages -> Consumers \cup {None}]
  /\ pc \in [Consumers -> Phases]
  /\ message \in [Consumers -> 0..MaxMessages]
  /\ acknowledged \in [Consumers -> {0, 1}]
  /\ deliveryIds \in [Consumers -> [Jobs -> 0..MaxMessages]]
  /\ faults \in 0..MaxFaults
  /\ handed \in [Messages -> Nat]
  /\ stranded \in SUBSET Messages

Init ==
  /\ stream = <<>>
  /\ group = FALSE
  /\ position = 0
  /\ pending = [m \in Messages |-> None]
  /\ pc = [k \in Consumers |-> "idle"]
  /\ message = [k \in Consumers |-> 0]
  /\ acknowledged = [k \in Consumers |-> 0]
  /\ deliveryIds = [k \in Consumers |-> [j \in Jobs |-> 0]]
  /\ faults = 0
  /\ handed = [m \in Messages |-> 0]
  /\ stranded = {}

Goto(k, from, to) == pc[k] = from /\ pc' = [pc EXCEPT ![k] = to]

Fault == faults < MaxFaults /\ faults' = faults + 1

\* enqueue: XADD.
Enqueue(j) ==
  /\ Len(stream) < MaxMessages
  /\ Cardinality({m \in 1..Len(stream) : stream[m] = j}) < MaxSends
  /\ stream' = Append(stream, j)
  /\ UNCHANGED <<group, position, pending, pc, message, acknowledged, deliveryIds,
                 faults, handed, stranded>>

\* Mutant: the group is created at id="$", behind what was enqueued already.
EnsureGroupAtEnd(k) ==
  /\ Goto(k, "idle", "grouped")
  /\ group' = TRUE
  /\ position' = IF group THEN position ELSE Len(stream)
  /\ UNCHANGED <<stream, pending, message, acknowledged, deliveryIds, faults,
                 handed, stranded>>

\* dequeue, first call: XGROUP CREATE ... id="0" MKSTREAM; BUSYGROUP is no error.
\* A new group starts before the first message, whatever was enqueued already.
EnsureGroup(k) ==
  /\ Goto(k, "idle", "grouped")
  /\ group' = TRUE
  /\ position' = IF group THEN position ELSE 0
  /\ UNCHANGED <<stream, pending, message, acknowledged, deliveryIds, faults,
                 handed, stranded>>

\* XREADGROUP ... ">" COUNT 1 BLOCK 5000 is sent.
Read(k) ==
  /\ Goto(k, "grouped", "reading")
  /\ UNCHANGED <<stream, group, position, pending, message, acknowledged, deliveryIds,
                 faults, handed, stranded>>

\* Mutant: XREADGROUP with an id instead of ">": the position stays.
DeliverAgain(k) ==
  /\ position < Len(stream)
  /\ Goto(k, "reading", "replied")
  /\ pending' = [pending EXCEPT ![position + 1] = k]
  /\ message' = [message EXCEPT ![k] = position + 1]
  /\ UNCHANGED <<stream, group, position, acknowledged, deliveryIds, faults, handed, stranded>>

\* Mutant: XREADGROUP with NOACK: nothing becomes pending.
DeliverNoAck(k) ==
  /\ position < Len(stream)
  /\ Goto(k, "reading", "replied")
  /\ position' = position + 1
  /\ message' = [message EXCEPT ![k] = position + 1]
  /\ UNCHANGED <<stream, group, pending, acknowledged, deliveryIds, faults, handed, stranded>>

\* Redis gives the next message of the group to a reading consumer.
Deliver(k) ==
  /\ position < Len(stream)
  /\ Goto(k, "reading", "replied")
  /\ position' = position + 1
  /\ pending' = [pending EXCEPT ![position + 1] = k]
  /\ message' = [message EXCEPT ![k] = position + 1]
  /\ UNCHANGED <<stream, group, acknowledged, deliveryIds, faults, handed, stranded>>

\* Nothing within the block: dequeue raises asyncio.TimeoutError.
ReadTimeout(k) ==
  /\ position = Len(stream)
  /\ Goto(k, "reading", "idle")
  /\ UNCHANGED <<stream, group, position, pending, message, acknowledged, deliveryIds,
                 faults, handed, stranded>>

\* Mutant: the delivery is not noted.
ReceiveUnnoted(k) ==
  LET m == message[k]
      j == stream[m]
  IN  /\ Goto(k, "replied", "idle")
      /\ j \notin Malformed
      /\ handed' = [handed EXCEPT ![m] = @ + 1]
      /\ message' = [message EXCEPT ![k] = 0]
      /\ UNCHANGED <<stream, group, position, pending, acknowledged, deliveryIds, faults,
                     stranded>>

\* Mutant: what is noted under the job_id is the job_id, not the id of the message.
ReceiveNotesJob(k) ==
  LET m == message[k]
      j == stream[m]
  IN  /\ Goto(k, "replied", "idle")
      /\ j \notin Malformed
      /\ deliveryIds' = [deliveryIds EXCEPT ![k][j] = j]
      /\ handed' = [handed EXCEPT ![m] = @ + 1]
      /\ message' = [message EXCEPT ![k] = 0]
      /\ UNCHANGED <<stream, group, position, pending, acknowledged, faults, stranded>>

\* The reply arrives: parse the job, note its delivery, return it. An entry
\* for the same job_id is overwritten, its message can no longer be found.
Receive(k) ==
  LET m == message[k]
      j == stream[m]
      displaced == IF deliveryIds[k][j] = 0 THEN {} ELSE {deliveryIds[k][j]}
  IN  /\ Goto(k, "replied", "idle")
      /\ j \notin Malformed
      /\ deliveryIds' = [deliveryIds EXCEPT ![k][j] = m]
      /\ handed' = [handed EXCEPT ![m] = @ + 1]
      /\ stranded' = stranded \cup displaced
      /\ message' = [message EXCEPT ![k] = 0]
      /\ UNCHANGED <<stream, group, position, pending, acknowledged, faults>>

\* from_json raises: dequeue fails after the delivery, before noting it.
ReceiveMalformed(k) ==
  /\ Goto(k, "replied", "idle")
  /\ stream[message[k]] \in Malformed
  /\ stranded' = stranded \cup {message[k]}
  /\ message' = [message EXCEPT ![k] = 0]
  /\ UNCHANGED <<stream, group, position, pending, acknowledged, deliveryIds, faults, handed>>

\* wait_for cancels the dequeue: the connection is dropped, a reply that was on
\* its way is gone.
Cancel(k) ==
  /\ Fault
  /\ pc[k] \in {"grouped", "reading", "replied"}
  /\ pc' = [pc EXCEPT ![k] = "idle"]
  /\ stranded' = IF pc[k] = "replied" THEN stranded \cup {message[k]} ELSE stranded
  /\ message' = [message EXCEPT ![k] = 0]
  /\ UNCHANGED <<stream, group, position, pending, acknowledged, deliveryIds, handed>>

\* Mutant: the entry is read, not popped.
AcknowledgeKeepsEntry(k, j) ==
  /\ deliveryIds[k][j] # 0
  /\ Goto(k, "idle", "acking")
  /\ message' = [message EXCEPT ![k] = deliveryIds[k][j]]
  /\ UNCHANGED <<stream, group, position, pending, acknowledged, deliveryIds, faults,
                 handed, stranded>>

\* acknowledge: the entry is popped before XACK is sent. Without one it raises
\* KeyError and nothing changes.
Acknowledge(k, j) ==
  /\ deliveryIds[k][j] # 0
  /\ Goto(k, "idle", "acking")
  /\ message' = [message EXCEPT ![k] = deliveryIds[k][j]]
  /\ deliveryIds' = [deliveryIds EXCEPT ![k][j] = 0]
  /\ UNCHANGED <<stream, group, position, pending, acknowledged, faults, handed, stranded>>

\* Redis: XACK answers how many entries it removed from the group, whoever's.
Xack(k) ==
  /\ Goto(k, "acking", "acked")
  /\ acknowledged' = [acknowledged EXCEPT ![k] = IF pending[message[k]] = None THEN 0 ELSE 1]
  /\ pending' = [pending EXCEPT ![message[k]] = None]
  /\ UNCHANGED <<stream, group, position, message, deliveryIds, faults, handed, stranded>>

\* The reply: 1, or acknowledge raises RuntimeError.
AcknowledgeReturns(k) ==
  /\ Goto(k, "acked", "idle")
  /\ message' = [message EXCEPT ![k] = 0]
  /\ UNCHANGED <<stream, group, position, pending, acknowledged, deliveryIds, faults,
                 handed, stranded>>

\* The connection fails under acknowledge, before or after Redis has acted. The
\* entry is popped already: the call cannot be repeated.
AcknowledgeFails(k) ==
  /\ Fault
  /\ pc[k] \in {"acking", "acked"}
  /\ pc' = [pc EXCEPT ![k] = "idle"]
  /\ stranded' = IF pc[k] = "acking" THEN stranded \cup {message[k]} ELSE stranded
  /\ message' = [message EXCEPT ![k] = 0]
  /\ UNCHANGED <<stream, group, position, pending, acknowledged, deliveryIds, handed>>

\* The process ends and its table with it; a new one has a new consumer name, and
\* nothing claims what is pending for the old one.
Crash(k) ==
  /\ Fault
  /\ pc[k] # "dead"
  /\ pc' = [pc EXCEPT ![k] = "dead"]
  /\ stranded' = stranded \cup {m \in Messages : pending[m] = k}
  /\ deliveryIds' = [deliveryIds EXCEPT ![k] = [j \in Jobs |-> 0]]
  /\ message' = [message EXCEPT ![k] = 0]
  /\ UNCHANGED <<stream, group, position, pending, acknowledged, handed>>

Next ==
  \/ \E j \in Jobs : Enqueue(j)
  \/ \E k \in Consumers :
       \/ EnsureGroup(k) \/ Read(k) \/ Deliver(k) \/ ReadTimeout(k)
       \/ Receive(k) \/ ReceiveMalformed(k) \/ Cancel(k)
       \/ \E j \in Jobs : Acknowledge(k, j)
       \/ Xack(k) \/ AcknowledgeReturns(k) \/ AcknowledgeFails(k)
       \/ Crash(k)

Spec == Init /\ [][Next]_vars

\* Workers keep calling dequeue and acknowledge every job they were given, Redis
\* serves a reader when there is a message, replies arrive.
FairSpec ==
  /\ Spec
  /\ \A k \in Consumers :
       /\ WF_vars(EnsureGroup(k)) /\ WF_vars(Read(k)) /\ WF_vars(Deliver(k))
       /\ WF_vars(ReadTimeout(k)) /\ WF_vars(Receive(k) \/ ReceiveMalformed(k))
       /\ WF_vars(Xack(k)) /\ WF_vars(AcknowledgeReturns(k))
       /\ \A j \in Jobs : SF_vars(Acknowledge(k, j))
-----------------------------------------------------------------------------
\* Consumer k can still acknowledge m, or is in the middle of receiving it.
Tracked(k, m) ==
  \/ \E j \in Jobs : deliveryIds[k][j] = m
  \/ pc[k] \in {"replied", "acking"} /\ message[k] = m

(* A job is returned by at most one dequeue, of one worker, for each time it was
   enqueued; a crash or a cancelled call never leads to a second delivery. *)
HandedAtMostOnce == \A m \in Messages : handed[m] <= 1

(* Every delivered and unacknowledged message is either tracked by the consumer it
   is pending for or known to be stranded, never both and never neither: pending
   entries nobody can acknowledge come only from a crash, a cancelled dequeue, an
   unreadable payload, a failed acknowledge or a job enqueued twice. *)
PendingIsAccounted ==
  \A m \in Messages : \A k \in Consumers :
    pending[m] = k => (Tracked(k, m) <=> m \notin stranded)

(* acknowledge reaches Redis with a message that is pending for the caller: the
   "Redis did not acknowledge" error is never raised. *)
AcknowledgeSucceeds ==
  \A k \in Consumers :
    /\ pc[k] = "acking" => pending[message[k]] = k
    /\ pc[k] = "acked" => acknowledged[k] = 1

(* A delivered message leaves the pending entries only after it was handed to a
   worker: nothing is dropped unprocessed, whatever fails. *)
AckedWasHanded ==
  \A m \in Messages : m <= position /\ pending[m] = None => handed[m] = 1

(* Every message is handed to a worker and acknowledged, as long as a worker is left:
   the only ones that stay pending are those stranded by a failure of their own, and
   no failure holds up the messages behind them. *)
EveryJobIsAcknowledged ==
  \A m \in Messages :
    Len(stream) >= m ~> \/ handed[m] = 1 /\ pending[m] = None
                        \/ m \in stranded
                        \/ \A k \in Consumers : pc[k] = "dead"

MessageState(m) ==
  IF m > Len(stream) THEN "unsent"
  ELSE IF m > position THEN "queued"
  ELSE IF pending[m] = None THEN "done" ELSE "leased"

Abstract == INSTANCE WorkQueue
  WITH Workers <- Consumers,
       state <- [m \in Messages |-> MessageState(m)],
       holder <- pending

(* The stream, the group position and the pending entries implement a work queue
   whose leases are first-in-first-out, exclusive and final. *)
ImplementsWorkQueue == Abstract!Spec
=============================================================================
