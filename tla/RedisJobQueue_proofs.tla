----------------------- MODULE RedisJobQueue_proofs -----------------------
(***************************************************************************)
(* Proofs about RedisJobQueue, for every set of consumers and jobs, any    *)
(* number of messages, repeated enqueues and faults.                       *)
(***************************************************************************)
EXTENDS RedisJobQueue, SequenceTheorems, TLAPS

USE DEF Phases

\* Where the message of a consumer's pending call stands.
InFlight ==
  \A k \in Consumers :
    /\ pc[k] \in {"replied", "acking", "acked"} => message[k] \in 1..position
    /\ pc[k] = "replied" => pending[message[k]] = k /\ handed[message[k]] = 0
    /\ pc[k] = "acking" => pending[message[k]] = k /\ handed[message[k]] = 1
    /\ pc[k] = "acked" => acknowledged[k] = 1
    /\ pc[k] \notin {"idle", "dead"} => group

\* Messages after the group's position are untouched, those before are handed out.
Delivered ==
  /\ ~ group => position = 0
  /\ \A m \in Messages :
       /\ m > position => pending[m] = None /\ handed[m] = 0 /\ m \notin stranded
       /\ m <= position => handed[m] \in {0, 1} /\ (pending[m] = None => handed[m] = 1)

\* The delivery table names messages of the right job that are pending for its
\* owner, so an acknowledgement never hits another worker's message.
TableIsPending ==
  \A k \in Consumers, j \in Jobs :
    LET m == deliveryIds[k][j]
    IN  m # 0 => m <= position /\ stream[m] = j /\ pending[m] = k

\* What the table notes was handed over, and is not under way at the same time.
TableIsHanded ==
  \A k \in Consumers, j \in Jobs :
    deliveryIds[k][j] # 0 =>
      /\ handed[deliveryIds[k][j]] = 1
      /\ pc[k] = "acking" => message[k] # deliveryIds[k][j]

\* The inductive invariant. The handing-over of a message is settled by where the
\* call that carries it stands, its accounting by what the table notes.
IInv ==
  /\ TypeOK
  /\ InFlight
  /\ Delivered
  /\ TableIsPending
  /\ TableIsHanded
  /\ PendingIsAccounted

LEMMA InitIInv == Init => IInv
<1> SUFFICES ASSUME Init PROVE IInv
  OBVIOUS
<1>1. stream \in Seq(Jobs) /\ Len(stream) = 0
  BY EmptySeq DEF Init
<1>2. TypeOK
  <2>1. /\ pc \in [Consumers -> Phases]
        /\ message \in [Consumers -> 0..MaxMessages]
        /\ acknowledged \in [Consumers -> {0, 1}]
        /\ deliveryIds \in [Consumers -> [Jobs -> 0..MaxMessages]]
    BY QueueAssumption DEF Init
  <2>2. /\ pending \in [Messages -> Consumers \cup {None}]
        /\ handed \in [Messages -> Nat]
        /\ stranded \in SUBSET Messages
    BY DEF Init
  <2>3. position \in 0..Len(stream) /\ Len(stream) <= MaxMessages /\ faults \in 0..MaxFaults
    BY <1>1, QueueAssumption DEF Init
  <2>4. group \in BOOLEAN
    BY DEF Init
  <2> QED
    BY <1>1, <2>1, <2>2, <2>3, <2>4 DEF TypeOK
<1>3. InFlight /\ TableIsPending /\ TableIsHanded
  BY DEF Init, InFlight, TableIsPending, TableIsHanded
<1>4. Delivered
  BY QueueAssumption DEF Init, Delivered, Messages
<1>5. PendingIsAccounted
  BY QueueAssumption DEF Init, PendingIsAccounted
<1> QED
  BY <1>2, <1>3, <1>4, <1>5 DEF IInv

\* What the lengths and types give every step.
LEMMA Bounds ==
  ASSUME TypeOK
  PROVE  /\ Len(stream) \in Nat /\ MaxMessages \in Nat /\ MaxFaults \in Nat
         /\ position \in Nat /\ position <= Len(stream) /\ Len(stream) <= MaxMessages
         /\ 1..position \subseteq Messages
         /\ \A m \in 1..Len(stream) : stream[m] \in Jobs
<1>1. Len(stream) \in Nat /\ \A m \in 1..Len(stream) : stream[m] \in Jobs
  BY ElementOfSeq, LenProperties DEF TypeOK
<1> QED
  BY <1>1, QueueAssumption DEF TypeOK, Messages

LEMMA EnqueueIInv ==
  ASSUME IInv, NEW j \in Jobs, Enqueue(j)
  PROVE  IInv'
<1>1. /\ stream' \in Seq(Jobs) /\ Len(stream') = Len(stream) + 1
      /\ \A m \in 1..Len(stream) : stream'[m] = stream[m]
  BY AppendProperties DEF IInv, TypeOK, Enqueue
<1>2. TypeOK'
  BY <1>1, Bounds DEF IInv, TypeOK, Enqueue
<1>3. InFlight' /\ Delivered' /\ TableIsHanded'
  BY DEF IInv, Enqueue, InFlight, Delivered, TableIsHanded
<1>4. TableIsPending'
  <2>1. /\ \A k \in Consumers, i \in Jobs : deliveryIds[k][i] \in 0..MaxMessages
        /\ position \in Nat /\ Len(stream) \in Nat /\ position <= Len(stream)
        /\ MaxMessages \in Nat
    BY Bounds DEF IInv, TypeOK
  <2>2. \A k \in Consumers, i \in Jobs : deliveryIds[k][i] # 0 =>
          deliveryIds[k][i] \in 1..Len(stream)
    BY <2>1 DEF IInv, TableIsPending
  <2>3. UNCHANGED <<deliveryIds, position, pending>>
    BY DEF Enqueue
  <2> QED
    BY <1>1, <2>2, <2>3 DEF IInv, TableIsPending
<1>5. PendingIsAccounted'
  BY DEF IInv, Enqueue, PendingIsAccounted, Tracked
<1> QED
  BY <1>2, <1>3, <1>4, <1>5 DEF IInv

LEMMA Ranges ==
  ASSUME TypeOK
  PROVE  /\ \A k \in Consumers : message[k] \in 0..MaxMessages
         /\ \A k \in Consumers, j \in Jobs : deliveryIds[k][j] \in 0..MaxMessages
         /\ \A m \in Messages : handed[m] \in Nat
BY DEF TypeOK

\* The steps of a dequeue before its reply: only the program counter moves.
LEMMA WaitingIInv ==
  ASSUME IInv, NEW k \in Consumers, NEW to \in {"idle", "grouped", "reading"},
         pc[k] \notin {"replied", "acking"},
         pc' = [pc EXCEPT ![k] = to],
         group' \in BOOLEAN, group => group', to # "idle" => group',
         UNCHANGED <<stream, position, pending, message, acknowledged, deliveryIds,
                     faults, handed, stranded>>
  PROVE  IInv'
<1>1. \A c \in Consumers : pc'[c] = IF c = k THEN to ELSE pc[c]
  BY DEF IInv, TypeOK
<1>2. TypeOK'
  <2>1. pc' \in [Consumers -> Phases]
    BY DEF IInv, TypeOK
  <2> QED
    BY <2>1 DEF IInv, TypeOK
<1>3. InFlight'
  <2>1. \A c \in Consumers : c # k =>
          /\ pc[c] \in {"replied", "acking", "acked"} => message[c] \in 1..position
          /\ pc[c] = "replied" => pending[message[c]] = c /\ handed[message[c]] = 0
          /\ pc[c] = "acking" => pending[message[c]] = c /\ handed[message[c]] = 1
          /\ pc[c] = "acked" => acknowledged[c] = 1
          /\ pc[c] \notin {"idle", "dead"} => group'
    BY DEF IInv, InFlight
  <2> QED
    BY <1>1, <2>1 DEF InFlight
<1>4. Delivered'
  BY DEF IInv, Delivered
<1>5. TableIsPending'
  BY DEF IInv, TableIsPending
<1>6. TableIsHanded'
  BY <1>1 DEF IInv, TableIsHanded
<1>7. PendingIsAccounted'
  <2>1. \A c \in Consumers, m \in Messages : Tracked(c, m)' <=> Tracked(c, m)
    BY <1>1 DEF Tracked
  <2> QED
    BY <2>1 DEF IInv, PendingIsAccounted
<1> QED
  BY <1>2, <1>3, <1>4, <1>5, <1>6, <1>7 DEF IInv

LEMMA EnsureGroupIInv ==
  ASSUME IInv, NEW k \in Consumers, EnsureGroup(k)
  PROVE  IInv'
<1>1. position' = position
  BY DEF IInv, Delivered, EnsureGroup
<1> QED
  BY <1>1, WaitingIInv DEF EnsureGroup, Goto

LEMMA ReadIInv ==
  ASSUME IInv, NEW k \in Consumers, Read(k)
  PROVE  IInv'
<1>1. group /\ group \in BOOLEAN
  BY DEF IInv, TypeOK, InFlight, Read, Goto
<1> QED
  BY <1>1, WaitingIInv DEF Read, Goto

LEMMA ReadTimeoutIInv ==
  ASSUME IInv, NEW k \in Consumers, ReadTimeout(k)
  PROVE  IInv'
<1>1. group \in BOOLEAN
  BY DEF IInv, TypeOK
<1> QED
  BY <1>1, WaitingIInv DEF ReadTimeout, Goto

\* A call ends without a result for its caller: the message it carried, if Redis
\* still holds it pending, is stranded.
LEMMA CallEndsIInv ==
  ASSUME IInv, NEW k \in Consumers,
         pc' = [pc EXCEPT ![k] = "idle"],
         message' = [message EXCEPT ![k] = 0],
         stranded' = IF pc[k] \in {"replied", "acking"}
                       THEN stranded \cup {message[k]} ELSE stranded,
         faults' \in 0..MaxFaults,
         UNCHANGED <<stream, group, position, pending, acknowledged, deliveryIds, handed>>
  PROVE  IInv'
<1> DEFINE r == message[k]
           lost == IF pc[k] \in {"replied", "acking"} THEN {r} ELSE {}
<1>1. /\ stranded' = stranded \cup lost
      /\ pc[k] \in {"replied", "acking"} => r \in 1..position /\ pending[r] = k
      /\ lost \subseteq 1..position
  BY DEF IInv, InFlight
<1>2. \A c \in Consumers : pc'[c] = (IF c = k THEN "idle" ELSE pc[c])
                         /\ message'[c] = (IF c = k THEN 0 ELSE message[c])
  BY DEF IInv, TypeOK
<1>3. TypeOK'
  <2>1. /\ pc' \in [Consumers -> Phases]
        /\ message' \in [Consumers -> 0..MaxMessages]
    BY QueueAssumption DEF IInv, TypeOK
  <2>2. stranded' \in SUBSET Messages
    BY <1>1, Bounds DEF IInv, TypeOK
  <2> QED
    BY <2>1, <2>2 DEF IInv, TypeOK
<1>4. InFlight'
  BY <1>2 DEF IInv, InFlight
<1>5. Delivered'
  <2>1. \A m \in Messages : m > position => m \notin lost
    BY <1>1, Bounds DEF IInv, Messages
  <2> QED
    BY <1>1, <2>1 DEF IInv, Delivered
<1>6. TableIsPending'
  BY DEF IInv, TableIsPending
<1>7. TableIsHanded'
  BY <1>2 DEF IInv, TableIsHanded
<1>8. PendingIsAccounted'
  <2> SUFFICES ASSUME NEW m \in Messages, NEW c \in Consumers, pending[m] = c
               PROVE  Tracked(c, m)' <=> m \notin stranded \cup lost
    BY <1>1 DEF PendingIsAccounted
  <2>1. Tracked(c, m) <=> m \notin stranded
    BY DEF IInv, PendingIsAccounted
  <2>2. CASE c = k /\ m \in lost
    <3>1. \A i \in Jobs : deliveryIds[k][i] # m
      BY <2>2 DEF IInv, InFlight, TableIsHanded, Messages
    <3> QED
      BY <1>2, <2>2, <3>1 DEF Tracked
  <2>3. CASE c # k
    <3>1. m \notin lost
      BY <1>1, <2>3
    <3> QED
      BY <1>2, <2>1, <2>3, <3>1 DEF Tracked
  <2>4. CASE c = k /\ m \notin lost
    BY <1>2, <2>1, <2>4 DEF Tracked
  <2> QED
    BY <2>2, <2>3, <2>4
<1> QED
  BY <1>3, <1>4, <1>5, <1>6, <1>7, <1>8 DEF IInv

LEMMA ReceiveMalformedIInv ==
  ASSUME IInv, NEW k \in Consumers, ReceiveMalformed(k)
  PROVE  IInv'
<1>1. faults \in 0..MaxFaults
  BY DEF IInv, TypeOK
<1> QED
  BY <1>1, CallEndsIInv DEF ReceiveMalformed, Goto

LEMMA CancelIInv ==
  ASSUME IInv, NEW k \in Consumers, Cancel(k)
  PROVE  IInv'
<1>1. faults' \in 0..MaxFaults
  BY QueueAssumption DEF IInv, TypeOK, Cancel, Fault
<1> QED
  BY <1>1, CallEndsIInv DEF Cancel

LEMMA AcknowledgeReturnsIInv ==
  ASSUME IInv, NEW k \in Consumers, AcknowledgeReturns(k)
  PROVE  IInv'
<1>1. faults \in 0..MaxFaults
  BY DEF IInv, TypeOK
<1> QED
  BY <1>1, CallEndsIInv DEF AcknowledgeReturns, Goto

LEMMA AcknowledgeFailsIInv ==
  ASSUME IInv, NEW k \in Consumers, AcknowledgeFails(k)
  PROVE  IInv'
<1>1. faults' \in 0..MaxFaults
  BY QueueAssumption DEF IInv, TypeOK, AcknowledgeFails, Fault
<1> QED
  BY <1>1, CallEndsIInv DEF AcknowledgeFails

LEMMA DeliverIInv ==
  ASSUME IInv, NEW k \in Consumers, Deliver(k)
  PROVE  IInv'
<1> DEFINE r == position + 1
<1>1. /\ pc[k] = "reading" /\ group
      /\ pc' = [pc EXCEPT ![k] = "replied"]
      /\ position' = r
      /\ pending' = [pending EXCEPT ![r] = k]
      /\ message' = [message EXCEPT ![k] = r]
      /\ UNCHANGED <<stream, group, acknowledged, deliveryIds, faults, handed, stranded>>
  BY DEF IInv, InFlight, Deliver, Goto
<1>2. r \in Messages /\ r \in 1..Len(stream) /\ r > position /\ r # 0
  BY Bounds DEF IInv, Deliver, Messages
<1>3. pending[r] = None /\ handed[r] = 0 /\ r \notin stranded
  BY <1>2 DEF IInv, Delivered
<1>4. \A c \in Consumers : pc'[c] = (IF c = k THEN "replied" ELSE pc[c])
                         /\ message'[c] = (IF c = k THEN r ELSE message[c])
  BY <1>1 DEF IInv, TypeOK
<1>5. \A m \in Messages : pending'[m] = IF m = r THEN k ELSE pending[m]
  BY <1>1 DEF IInv, TypeOK
<1>6. TypeOK'
  <2>1. /\ pc' \in [Consumers -> Phases]
        /\ message' \in [Consumers -> 0..MaxMessages]
    BY <1>1, <1>2, Bounds DEF IInv, TypeOK, Messages
  <2>2. pending' \in [Messages -> Consumers \cup {None}] /\ position' \in 0..Len(stream)
    BY <1>1, <1>2, Bounds DEF IInv, TypeOK
  <2> QED
    BY <1>1, <2>1, <2>2 DEF IInv, TypeOK
<1>7. InFlight'
  <2> SUFFICES ASSUME NEW c \in Consumers
      PROVE  /\ pc'[c] \in {"replied", "acking", "acked"} => message'[c] \in 1..r
             /\ pc'[c] = "replied" => pending'[message'[c]] = c /\ handed[message'[c]] = 0
             /\ pc'[c] = "acking" => pending'[message'[c]] = c /\ handed[message'[c]] = 1
             /\ pc'[c] = "acked" => acknowledged[c] = 1
             /\ pc'[c] \notin {"idle", "dead"} => group
    BY <1>1 DEF InFlight
  <2>1. CASE c = k
    BY <1>1, <1>2, <1>3, <1>4, <1>5, <2>1
  <2>2. CASE c # k
    <3>1. \A m \in 1..position : m \in Messages /\ m # r /\ m \in 1..r
      BY Bounds DEF IInv
    <3>2. pc'[c] = pc[c] /\ message'[c] = message[c]
      BY <1>4, <2>2
    <3> HIDE DEF r
    <3> QED
      BY <1>5, <3>1, <3>2 DEF IInv, InFlight
  <2> QED
    BY <2>1, <2>2
<1>8. Delivered'
  <2>1. \A m \in Messages : (m > r => m > position /\ m # r) /\ (m <= r => m = r \/ m <= position)
    BY Bounds DEF IInv, Messages
  <2> HIDE DEF r
  <2> QED
    BY <1>1, <1>3, <1>5, <2>1, QueueAssumption DEF IInv, Delivered
<1>9. \A c \in Consumers, i \in Jobs : deliveryIds[c][i] # 0 =>
        deliveryIds[c][i] \in Messages /\ deliveryIds[c][i] # r /\ deliveryIds[c][i] <= r
  BY Bounds, Ranges DEF IInv, TableIsPending, Messages
<1>10. TableIsPending'
  BY <1>1, <1>5, <1>9 DEF IInv, TableIsPending
<1>11. TableIsHanded'
  BY <1>1, <1>4 DEF IInv, TableIsHanded
<1>12. PendingIsAccounted'
  <2> SUFFICES ASSUME NEW m \in Messages, NEW c \in Consumers, pending'[m] = c
               PROVE  Tracked(c, m)' <=> m \notin stranded
    BY <1>1 DEF PendingIsAccounted
  <2>1. CASE m = r
    BY <1>3, <1>4, <1>5, <2>1 DEF Tracked
  <2>2. CASE m # r
    <3>1. pending[m] = c
      BY <1>5, <2>2
    <3>2. Tracked(c, m)' <=> Tracked(c, m)
      BY <1>1, <1>4, <2>2 DEF Tracked
    <3> QED
      BY <3>1, <3>2 DEF IInv, PendingIsAccounted
  <2> QED
    BY <2>1, <2>2
<1> QED
  BY <1>6, <1>7, <1>8, <1>10, <1>11, <1>12 DEF IInv

LEMMA ReceiveIInv ==
  ASSUME IInv, NEW k \in Consumers, Receive(k)
  PROVE  IInv'
<1> DEFINE r == message[k]
           j == stream[r]
           displaced == IF deliveryIds[k][j] = 0 THEN {} ELSE {deliveryIds[k][j]}
<1>1. pc[k] = "replied" /\ r \in 1..position /\ pending[r] = k /\ handed[r] = 0
  BY DEF IInv, InFlight, Receive, Goto
<1>2. r \in Messages /\ r \in 1..Len(stream) /\ j \in Jobs /\ r # 0 /\ r <= position /\ r \in Nat
  BY <1>1, Bounds DEF IInv
<1>3. /\ pc' = [pc EXCEPT ![k] = "idle"]
      /\ deliveryIds' = [deliveryIds EXCEPT ![k][j] = r]
      /\ handed' = [handed EXCEPT ![r] = handed[r] + 1]
      /\ stranded' = stranded \cup displaced
      /\ message' = [message EXCEPT ![k] = 0]
      /\ UNCHANGED <<stream, group, position, pending, acknowledged, faults>>
  BY DEF Receive, Goto
<1>4. displaced \subseteq Messages
  BY <1>2, Ranges DEF IInv, Messages
<1>a. IInv
  OBVIOUS
<1> HIDE DEF r, j, displaced
<1>5. TypeOK'
  <2>1. /\ pc' \in [Consumers -> Phases]
        /\ message' \in [Consumers -> 0..MaxMessages]
    BY <1>3, QueueAssumption DEF IInv, TypeOK
  <2>2. deliveryIds' \in [Consumers -> [Jobs -> 0..MaxMessages]]
    BY <1>2, <1>3 DEF IInv, TypeOK, Messages
  <2>3. handed' \in [Messages -> Nat] /\ stranded' \in SUBSET Messages
    BY <1>2, <1>3, <1>4 DEF IInv, TypeOK
  <2> QED
    BY <1>3, <2>1, <2>2, <2>3 DEF IInv, TypeOK
<1>6. \A c \in Consumers : pc'[c] = (IF c = k THEN "idle" ELSE pc[c])
                         /\ message'[c] = (IF c = k THEN 0 ELSE message[c])
  BY <1>3 DEF IInv, TypeOK
<1>7. \A m \in Messages : handed'[m] = IF m = r THEN 1 ELSE handed[m]
  BY <1>1, <1>2, <1>3 DEF IInv, TypeOK
<1>8. \A c \in Consumers, i \in Jobs :
        deliveryIds'[c][i] = IF c = k /\ i = j THEN r ELSE deliveryIds[c][i]
  BY <1>2, <1>3 DEF IInv, TypeOK
<1>9. \A i \in Jobs : deliveryIds[k][i] # r
  BY <1>1, <1>2 DEF IInv, TableIsHanded
<1>10. InFlight'
  <2>1. \A c \in Consumers : c # k /\ pc[c] \in {"replied", "acking"} =>
          message[c] # r /\ message[c] \in Messages
    BY <1>1, Bounds DEF IInv, InFlight
  <2> QED
    BY <1>3, <1>6, <1>7, <2>1 DEF IInv, InFlight
<1>11. Delivered'
  <2>1. \A m \in displaced : m <= position
    BY <1>2, Bounds DEF IInv, TableIsPending, displaced
  <2>2. \A m \in Messages : m > position => m # r /\ m \notin displaced
    BY <1>2, <2>1, Bounds DEF IInv, Messages
  <2> QED
    BY <1>2, <1>3, <1>7, <2>2 DEF IInv, Delivered
<1>12. TableIsPending'
  BY <1>1, <1>2, <1>3, <1>8 DEF IInv, TableIsPending, j
<1>13. TableIsHanded'
  <2>1. \A c \in Consumers, i \in Jobs : deliveryIds[c][i] # 0 =>
          deliveryIds[c][i] \in Messages
    BY Ranges DEF IInv, Messages
  <2> SUFFICES ASSUME NEW c \in Consumers, NEW i \in Jobs, deliveryIds'[c][i] # 0
               PROVE  /\ handed'[deliveryIds'[c][i]] = 1
                      /\ pc'[c] = "acking" => message'[c] # deliveryIds'[c][i]
    BY DEF TableIsHanded
  <2>2. CASE c = k /\ i = j
    BY <1>2, <1>6, <1>7, <1>8, <2>2
  <2>3. CASE ~ (c = k /\ i = j)
    <3>1. deliveryIds'[c][i] = deliveryIds[c][i]
      BY <1>8, <2>3
    <3>2. handed[deliveryIds[c][i]] = 1 /\ deliveryIds[c][i] \in Messages
      BY <2>1, <3>1 DEF IInv, TableIsHanded
    <3> QED
      BY <1>6, <1>7, <3>1, <3>2 DEF IInv, TableIsHanded
  <2> QED
    BY <2>2, <2>3
<1>14. PendingIsAccounted'
  <2> SUFFICES ASSUME NEW m \in Messages, NEW c \in Consumers, pending[m] = c
               PROVE  Tracked(c, m)' <=> m \notin stranded \cup displaced
    BY <1>3 DEF PendingIsAccounted
  <2>1. Tracked(c, m) <=> m \notin stranded
    BY DEF IInv, PendingIsAccounted
  <2>2. displaced \subseteq {deliveryIds[k][j]} /\ 0 \notin displaced
    BY DEF displaced
  <2>3. CASE c # k
    <3>1. Tracked(c, m)' <=> Tracked(c, m)
      BY <1>6, <1>8, <2>3 DEF Tracked
    <3>2. m \notin displaced
      BY <1>2, <2>2, <2>3 DEF IInv, TableIsPending
    <3> QED
      BY <2>1, <3>1, <3>2
  <2>4. CASE c = k /\ m = r
    <3>1. Tracked(c, m)
      BY <1>1, <2>4 DEF Tracked, r
    <3>2. Tracked(c, m)'
      BY <1>2, <1>8, <2>4 DEF Tracked
    <3>3. m \notin displaced
      BY <1>2, <1>9, <2>2, <2>4
    <3> QED
      BY <2>1, <3>1, <3>2, <3>3
  <2>5. CASE c = k /\ m # r
    <3>1. Tracked(c, m) <=> \E i \in Jobs : deliveryIds[k][i] = m
      BY <1>1, <2>5 DEF Tracked, r
    <3>2. Tracked(c, m)' <=> \E i \in Jobs : i # j /\ deliveryIds[k][i] = m
      BY <1>2, <1>6, <1>8, <2>5 DEF Tracked
    <3>3. m # 0
      BY DEF Messages
    <3>4. m \in displaced <=> deliveryIds[k][j] = m
      BY <3>3 DEF displaced
    <3>5. \A i \in Jobs : deliveryIds[k][i] = m => stream[m] = i
      BY <3>3 DEF IInv, TableIsPending
    <3> QED
      BY <1>2, <2>1, <3>1, <3>2, <3>4, <3>5
  <2> QED
    BY <2>3, <2>4, <2>5
<1> QED
  BY <1>5, <1>10, <1>11, <1>12, <1>13, <1>14 DEF IInv

LEMMA AcknowledgeIInv ==
  ASSUME IInv, NEW k \in Consumers, NEW j \in Jobs, Acknowledge(k, j)
  PROVE  IInv'
<1> DEFINE r == deliveryIds[k][j]
<1>1. /\ pc[k] = "idle" /\ r # 0
      /\ pc' = [pc EXCEPT ![k] = "acking"]
      /\ message' = [message EXCEPT ![k] = r]
      /\ deliveryIds' = [deliveryIds EXCEPT ![k][j] = 0]
      /\ UNCHANGED <<stream, group, position, pending, acknowledged, faults, handed, stranded>>
  BY DEF Acknowledge, Goto
<1>2. r \in 1..position /\ r \in Messages /\ stream[r] = j /\ pending[r] = k /\ handed[r] = 1
  BY <1>1, Bounds, Ranges DEF IInv, TableIsPending, TableIsHanded
<1>3. group
  BY <1>2, Bounds DEF IInv, Delivered
<1>4. \A c \in Consumers : pc'[c] = (IF c = k THEN "acking" ELSE pc[c])
                         /\ message'[c] = (IF c = k THEN r ELSE message[c])
  BY <1>1 DEF IInv, TypeOK
<1>5. \A c \in Consumers, i \in Jobs :
        deliveryIds'[c][i] = IF c = k /\ i = j THEN 0 ELSE deliveryIds[c][i]
  BY <1>1 DEF IInv, TypeOK
<1>6. \A i \in Jobs : i # j => deliveryIds[k][i] # r
  BY <1>1, <1>2 DEF IInv, TableIsPending
<1>a. IInv
  OBVIOUS
<1> HIDE DEF r
<1>7. TypeOK'
  <2>1. /\ pc' \in [Consumers -> Phases]
        /\ message' \in [Consumers -> 0..MaxMessages]
    BY <1>1, <1>2 DEF IInv, TypeOK, Messages
  <2>2. deliveryIds' \in [Consumers -> [Jobs -> 0..MaxMessages]]
    BY <1>1, QueueAssumption DEF IInv, TypeOK
  <2> QED
    BY <1>1, <2>1, <2>2 DEF IInv, TypeOK
<1>8. InFlight'
  BY <1>1, <1>2, <1>3, <1>4 DEF IInv, InFlight
<1>9. Delivered'
  BY <1>1 DEF IInv, Delivered
<1>10. TableIsPending'
  BY <1>1, <1>5 DEF IInv, TableIsPending
<1>11. TableIsHanded'
  BY <1>1, <1>4, <1>5, <1>6 DEF IInv, TableIsHanded
<1>12. PendingIsAccounted'
  <2>1. \A c \in Consumers, m \in Messages : Tracked(c, m)' <=> Tracked(c, m)
    <3> SUFFICES ASSUME NEW c \in Consumers, NEW m \in Messages
                 PROVE  Tracked(c, m)' <=> Tracked(c, m)
      OBVIOUS
    <3>1. CASE c # k
      BY <1>4, <1>5, <3>1 DEF Tracked
    <3>2. CASE c = k
      <4>1. Tracked(c, m) <=> \E i \in Jobs : deliveryIds[k][i] = m
        BY <1>1, <3>2 DEF Tracked
      <4>2. m # 0
        BY DEF Messages
      <4>3. Tracked(c, m)' <=> r = m \/ \E i \in Jobs : i # j /\ deliveryIds[k][i] = m
        BY <1>4, <1>5, <3>2, <4>2 DEF Tracked
      <4> QED
        BY <4>1, <4>3 DEF r
    <3> QED
      BY <3>1, <3>2
  <2> QED
    BY <1>1, <2>1 DEF IInv, PendingIsAccounted
<1> QED
  BY <1>7, <1>8, <1>9, <1>10, <1>11, <1>12 DEF IInv

LEMMA XackIInv ==
  ASSUME IInv, NEW k \in Consumers, Xack(k)
  PROVE  IInv'
<1> DEFINE r == message[k]
<1>1. /\ pc[k] = "acking" /\ group
      /\ r \in 1..position /\ r \in Messages /\ pending[r] = k /\ handed[r] = 1
  BY Bounds DEF IInv, InFlight, Xack, Goto
<1>2. /\ pc' = [pc EXCEPT ![k] = "acked"]
      /\ acknowledged' = [acknowledged EXCEPT ![k] = 1]
      /\ pending' = [pending EXCEPT ![r] = None]
      /\ UNCHANGED <<stream, group, position, message, deliveryIds, faults, handed, stranded>>
  BY <1>1, QueueAssumption DEF Xack, Goto
<1>3. \A c \in Consumers : pc'[c] = (IF c = k THEN "acked" ELSE pc[c])
                         /\ acknowledged'[c] = (IF c = k THEN 1 ELSE acknowledged[c])
  BY <1>2 DEF IInv, TypeOK
<1>4. \A m \in Messages : pending'[m] = IF m = r THEN None ELSE pending[m]
  BY <1>2 DEF IInv, TypeOK
<1>5. TypeOK'
  <2>1. /\ pc' \in [Consumers -> Phases]
        /\ acknowledged' \in [Consumers -> {0, 1}]
        /\ pending' \in [Messages -> Consumers \cup {None}]
    BY <1>2 DEF IInv, TypeOK
  <2> QED
    BY <1>2, <2>1 DEF IInv, TypeOK
<1>a. IInv
  OBVIOUS
<1> HIDE DEF r
<1>6. InFlight'
  <2>1. \A c \in Consumers : c # k /\ pc[c] \in {"replied", "acking"} =>
          message[c] \in Messages /\ message[c] # r
    BY <1>1, Bounds DEF IInv, InFlight
  <2>2. \A c \in Consumers : c # k => pc'[c] = pc[c] /\ acknowledged'[c] = acknowledged[c]
    BY <1>3
  <2>3. \A c \in Consumers : c # k /\ pc[c] \in {"replied", "acking"} =>
          pending'[message[c]] = pending[message[c]]
    BY <1>4, <2>1
  <2>4. message[k] \in 1..position
    BY <1>1 DEF r
  <2> QED
    BY <1>1, <1>2, <1>3, <2>2, <2>3, <2>4 DEF IInv, InFlight
<1>7. Delivered'
  BY <1>1, <1>2, <1>4, Bounds DEF IInv, Delivered
<1>8. \A c \in Consumers, i \in Jobs : deliveryIds[c][i] # 0 =>
        deliveryIds[c][i] \in Messages /\ deliveryIds[c][i] # r
  BY <1>1, Ranges DEF IInv, TableIsPending, TableIsHanded, Messages, r
<1>9. TableIsPending'
  BY <1>2, <1>4, <1>8 DEF IInv, TableIsPending
<1>10. TableIsHanded'
  BY <1>2, <1>3 DEF IInv, TableIsHanded
<1>11. PendingIsAccounted'
  <2> SUFFICES ASSUME NEW m \in Messages, NEW c \in Consumers, pending'[m] = c
               PROVE  Tracked(c, m)' <=> m \notin stranded
    BY <1>2 DEF PendingIsAccounted
  <2>1. m # r /\ pending[m] = c
    BY <1>4, QueueAssumption
  <2>2. Tracked(c, m)' <=> Tracked(c, m)
    BY <1>1, <1>2, <1>3, <2>1 DEF Tracked, r
  <2> QED
    BY <2>1, <2>2 DEF IInv, PendingIsAccounted
<1> QED
  BY <1>5, <1>6, <1>7, <1>9, <1>10, <1>11 DEF IInv

LEMMA CrashIInv ==
  ASSUME IInv, NEW k \in Consumers, Crash(k)
  PROVE  IInv'
<1> DEFINE left == {m \in Messages : pending[m] = k}
<1>1. /\ pc' = [pc EXCEPT ![k] = "dead"]
      /\ stranded' = stranded \cup left
      /\ deliveryIds' = [deliveryIds EXCEPT ![k] = [j \in Jobs |-> 0]]
      /\ message' = [message EXCEPT ![k] = 0]
      /\ UNCHANGED <<stream, group, position, pending, acknowledged, handed>>
      /\ faults' \in 0..MaxFaults
  BY QueueAssumption DEF IInv, TypeOK, Crash, Fault
<1>2. \A c \in Consumers : pc'[c] = (IF c = k THEN "dead" ELSE pc[c])
                         /\ message'[c] = (IF c = k THEN 0 ELSE message[c])
  BY <1>1 DEF IInv, TypeOK
<1>3. \A c \in Consumers, i \in Jobs :
        deliveryIds'[c][i] = IF c = k THEN 0 ELSE deliveryIds[c][i]
  BY <1>1 DEF IInv, TypeOK
<1>4. TypeOK'
  <2>1. /\ pc' \in [Consumers -> Phases]
        /\ message' \in [Consumers -> 0..MaxMessages]
        /\ deliveryIds' \in [Consumers -> [Jobs -> 0..MaxMessages]]
        /\ stranded' \in SUBSET Messages
    BY <1>1, QueueAssumption DEF IInv, TypeOK
  <2> QED
    BY <1>1, <2>1 DEF IInv, TypeOK
<1>5. InFlight'
  BY <1>1, <1>2 DEF IInv, InFlight
<1>6. Delivered'
  BY <1>1, QueueAssumption DEF IInv, Delivered
<1>7. TableIsPending'
  BY <1>1, <1>3 DEF IInv, TableIsPending
<1>8. TableIsHanded'
  BY <1>1, <1>2, <1>3 DEF IInv, TableIsHanded
<1>9. PendingIsAccounted'
  <2> SUFFICES ASSUME NEW m \in Messages, NEW c \in Consumers, pending[m] = c
               PROVE  Tracked(c, m)' <=> m \notin stranded \cup left
    BY <1>1 DEF PendingIsAccounted
  <2>1. CASE c = k
    <3>1. ~ Tracked(c, m)'
      BY <1>2, <1>3, <2>1 DEF Tracked, Messages
    <3> QED
      BY <2>1, <3>1
  <2>2. CASE c # k
    <3>1. Tracked(c, m)' <=> Tracked(c, m)
      BY <1>2, <1>3, <2>2 DEF Tracked
    <3> QED
      BY <2>2, <3>1 DEF IInv, PendingIsAccounted
  <2> QED
    BY <2>1, <2>2
<1> QED
  BY <1>4, <1>5, <1>6, <1>7, <1>8, <1>9 DEF IInv

LEMMA NextIInv == IInv /\ [Next]_vars => IInv'
<1> SUFFICES ASSUME IInv, [Next]_vars PROVE IInv'
  OBVIOUS
<1>1. CASE UNCHANGED vars
  BY <1>1 DEF vars, IInv, TypeOK, InFlight, Delivered, TableIsPending, TableIsHanded,
              PendingIsAccounted, Tracked
<1>2. ASSUME NEW j \in Jobs, Enqueue(j) PROVE IInv'
  BY <1>2, EnqueueIInv
<1>3. ASSUME NEW k \in Consumers,
             EnsureGroup(k) \/ Read(k) \/ Deliver(k) \/ ReadTimeout(k)
      PROVE  IInv'
  BY <1>3, EnsureGroupIInv, ReadIInv, DeliverIInv, ReadTimeoutIInv
<1>4. ASSUME NEW k \in Consumers, Receive(k) \/ ReceiveMalformed(k) \/ Cancel(k)
      PROVE  IInv'
  BY <1>4, ReceiveIInv, ReceiveMalformedIInv, CancelIInv
<1>5. ASSUME NEW k \in Consumers, NEW j \in Jobs, Acknowledge(k, j) PROVE IInv'
  BY <1>5, AcknowledgeIInv
<1>6. ASSUME NEW k \in Consumers,
             Xack(k) \/ AcknowledgeReturns(k) \/ AcknowledgeFails(k) \/ Crash(k)
      PROVE  IInv'
  BY <1>6, XackIInv, AcknowledgeReturnsIInv, AcknowledgeFailsIInv, CrashIInv
<1> QED
  BY <1>1, <1>2, <1>3, <1>4, <1>5, <1>6, Zenon DEF Next

LEMMA SpecIInv == Spec => []IInv
BY InitIInv, NextIInv, PTL DEF Spec

(* What Redis and the RedisJobQueue of each consumer keep stays in its type: the group's
   position never passes the end of the stream, a delivery id is one Redis has given. *)
THEOREM QueueIsTyped == Spec => []TypeOK
<1>1. IInv => TypeOK
  BY DEF IInv
<1> QED
  BY <1>1, SpecIInv, PTL

(* RedisJobQueue.dequeue never returns a message twice, to the same worker or to
   two, whatever crashes, is cancelled or is enqueued again. *)
THEOREM QueueHandedAtMostOnce == Spec => []HandedAtMostOnce
<1>1. IInv => HandedAtMostOnce
  BY Bounds DEF IInv, Delivered, HandedAtMostOnce, Messages
<1> QED
  BY <1>1, SpecIInv, PTL

(* Every pending entry is either one its consumer can still acknowledge or one of
   those the faults named by the model have stranded. *)
THEOREM QueuePendingIsAccounted == Spec => []PendingIsAccounted
<1>1. IInv => PendingIsAccounted
  BY DEF IInv
<1> QED
  BY <1>1, SpecIInv, PTL

(* acknowledge never raises "Redis did not acknowledge": XACK is only sent for a
   message that is pending for the caller. *)
THEOREM QueueAcknowledgeSucceeds == Spec => []AcknowledgeSucceeds
<1>1. IInv => AcknowledgeSucceeds
  BY DEF IInv, InFlight, AcknowledgeSucceeds
<1> QED
  BY <1>1, SpecIInv, PTL

(* A delivered message leaves the group's pending entries only after a dequeue has
   returned it. *)
THEOREM QueueAckedWasHanded == Spec => []AckedWasHanded
<1>1. IInv => AckedWasHanded
  BY DEF IInv, Delivered, AckedWasHanded
<1> QED
  BY <1>1, SpecIInv, PTL
-----------------------------------------------------------------------------
\* The mapping to the abstract work queue.
LEMMA MappedStep ==
  ASSUME IInv, [Next]_vars
  PROVE  [Abstract!Next]_(Abstract!vars)
<1> DEFINE st == [m \in Messages |-> MessageState(m)]
<1>1. \A m \in Messages : m \in Nat /\ m # 0
  BY QueueAssumption DEF Messages
<1>2. ASSUME UNCHANGED <<stream, position, pending>>
      PROVE  UNCHANGED Abstract!vars
  BY <1>2 DEF Abstract!vars, MessageState
<1>3. ASSUME NEW j \in Jobs, Enqueue(j)
      PROVE  \E m \in Messages : Abstract!Send(m)
  <2>0. PICK r \in Messages : r = Len(stream) + 1
    <3>1. Len(stream) + 1 \in Messages
      BY <1>3, Bounds DEF IInv, Enqueue, Messages
    <3> QED
      BY <3>1, Zenon
  <2>1. Len(stream') = r /\ position' = position /\ pending' = pending
    BY <1>3, <2>0, AppendProperties DEF IInv, TypeOK, Enqueue
  <2>2. r \in Messages /\ position < r
    BY <2>0, Bounds DEF IInv
  <2>3. Len(stream) \in Nat
    BY Bounds DEF IInv
  <2>4. st[r] = "unsent" /\ \A n \in Messages : n < r => st[n] # "unsent"
    BY <1>1, <2>0, <2>2, <2>3 DEF MessageState
  <2>5. st' = [st EXCEPT ![r] = "queued"]
    <3>1. MessageState(r)' = "queued"
      BY <2>1, <2>2, <2>3, Bounds DEF IInv, MessageState
    <3>2. \A m \in Messages : m # r => MessageState(m)' = MessageState(m)
      BY <1>1, <2>0, <2>1, <2>3 DEF MessageState
    <3> QED
      BY <2>2, <3>1, <3>2
  <2> QED
    BY <2>1, <2>2, <2>4, <2>5 DEF Abstract!Send
<1>4. ASSUME NEW k \in Consumers, Deliver(k)
      PROVE  \E m \in Messages : \E w \in Consumers : Abstract!Lease(m, w)
  <2>0. PICK r \in Messages : r = position + 1
    <3>1. position + 1 \in Messages
      BY <1>4, Bounds DEF IInv, Deliver, Messages
    <3> QED
      BY <3>1, Zenon
  <2>1. /\ stream' = stream /\ position' = r
        /\ pending' = [pending EXCEPT ![r] = k]
    BY <1>4, <2>0 DEF Deliver
  <2>2. r <= Len(stream) /\ Len(stream) \in Nat /\ position \in Nat
    BY <1>4, <2>0, Bounds DEF IInv, Deliver
  <2>3. st[r] = "queued" /\ \A n \in Messages : n < r => st[n] \in {"leased", "done"}
    BY <1>1, <2>0, <2>2 DEF MessageState
  <2>4. \A m \in Messages : pending'[m] = IF m = r THEN k ELSE pending[m]
    BY <2>1 DEF IInv, TypeOK
  <2>5. st' = [st EXCEPT ![r] = "leased"]
    <3>1. MessageState(r)' = "leased"
      BY <1>1, <2>0, <2>1, <2>2, <2>4, QueueAssumption DEF MessageState
    <3>2. \A m \in Messages : m # r => MessageState(m)' = MessageState(m)
      BY <1>1, <2>0, <2>1, <2>2, <2>4 DEF MessageState
    <3> QED
      BY <2>2, <3>1, <3>2
  <2> QED
    BY <2>1, <2>2, <2>3, <2>5 DEF Abstract!Lease
<1>5. ASSUME NEW k \in Consumers, Xack(k)
      PROVE  \E m \in Messages : Abstract!Finish(m)
  <2>0. PICK r \in Messages : r = message[k]
    <3>1. message[k] \in Messages
      BY <1>5, Bounds DEF IInv, InFlight, Xack, Goto
    <3> QED
      BY <3>1, Zenon
  <2>1. /\ stream' = stream /\ position' = position
        /\ pending' = [pending EXCEPT ![r] = None]
    BY <1>5, <2>0 DEF Xack
  <2>2. r \in 1..position /\ pending[r] = k
    BY <1>5, <2>0, Bounds DEF IInv, InFlight, Xack, Goto
  <2>3. position \in Nat /\ Len(stream) \in Nat /\ position <= Len(stream)
    BY Bounds DEF IInv
  <2>4. st[r] = "leased"
    BY <2>2, <2>3, QueueAssumption DEF MessageState
  <2>5. \A m \in Messages : pending'[m] = IF m = r THEN None ELSE pending[m]
    BY <2>1 DEF IInv, TypeOK
  <2>6. st' = [st EXCEPT ![r] = "done"]
    <3>1. MessageState(r)' = "done"
      BY <2>1, <2>2, <2>3, <2>5 DEF MessageState
    <3>2. \A m \in Messages : m # r => MessageState(m)' = MessageState(m)
      BY <2>1, <2>5 DEF MessageState
    <3> QED
      BY <2>2, <3>1, <3>2
  <2> QED
    BY <2>1, <2>2, <2>4, <2>6 DEF Abstract!Finish
<1>6. CASE UNCHANGED vars
  BY <1>2, <1>6 DEF vars
<1>7. ASSUME NEW k \in Consumers,
             \/ EnsureGroup(k) \/ Read(k) \/ ReadTimeout(k) \/ Receive(k)
             \/ ReceiveMalformed(k) \/ Cancel(k) \/ (\E j \in Jobs : Acknowledge(k, j))
             \/ AcknowledgeReturns(k) \/ AcknowledgeFails(k) \/ Crash(k)
      PROVE  UNCHANGED Abstract!vars
  <2>1. UNCHANGED <<stream, pending>>
    BY <1>7 DEF EnsureGroup, Read, ReadTimeout, Receive, ReceiveMalformed, Cancel,
                Acknowledge, AcknowledgeReturns, AcknowledgeFails, Crash
  <2>2. UNCHANGED position
    BY <1>7 DEF EnsureGroup, Read, ReadTimeout, Receive, ReceiveMalformed, Cancel,
                Acknowledge, AcknowledgeReturns, AcknowledgeFails, Crash, IInv, Delivered
  <2> QED
    BY <1>2, <2>1, <2>2
<1> QED
  BY <1>3, <1>4, <1>5, <1>6, <1>7, Zenon DEF Next, Abstract!Next

(* The stream, the group's position and its pending entries implement WorkQueue:
   leases in the order of the enqueues, to one consumer each, ended only by an
   acknowledgement. *)
THEOREM QueueImplementsWorkQueue == Spec => ImplementsWorkQueue
<1>1. Init => Abstract!Init
  BY EmptySeq, QueueAssumption DEF Init, Abstract!Init, MessageState, Messages
<1> QED
  BY <1>1, MappedStep, SpecIInv, PTL DEF Spec, ImplementsWorkQueue, Abstract!Spec
=============================================================================
