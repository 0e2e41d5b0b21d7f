----------------------- MODULE JobEventSocket_proofs -----------------------
(***************************************************************************)
(* Proofs about JobEventSocket, for any clients, sessions, jobs, statuses  *)
(* and terminal statuses, any deque length and any number of events and    *)
(* failing connections.                                                    *)
(***************************************************************************)
EXTENDS JobEventSocket, JobEventHub_proofs

\* The log of a job: ids grow, and only the last event may be terminal.
Chronicle(l) ==
  /\ \A k \in 1..Len(l) : \A i \in 1..k-1 : l[i].id < l[k].id
  /\ \A i \in 1..Len(l) : i < Len(l) => l[i].status \notin Terminal

\* What a client has of the log l with deque d: events of it in order up to its cursor, and
\* up to there everything but what was missed, which the deque has lost.
Knows(l, d, got, cur, miss) ==
  /\ \A i \in 1..Len(got) : got[i].id <= cur /\ \E k \in 1..Len(l) : got[i] = l[k]
  /\ \A k \in 1..Len(got) : \A i \in 1..k-1 : got[i].id < got[k].id
  /\ got = <<>> => cur = 0
  /\ got # <<>> => cur = got[Len(got)].id
  /\ \A i \in 1..Len(l) : l[i].id <= cur => (l[i].id \in IdsOf(got) <=> l[i].id \notin miss)
  /\ miss \subseteq IdsOf(l) /\ miss \cap IdsOf(d) = {}

\* A stream that began at position f of the log, was sent up to position n and received up
\* to before position p; w is in flight.
Streams(l, cur, miss, w, f, p, n) ==
  /\ p \in f..n+1 /\ n <= Len(l)
  /\ \A i \in 1..p-1 : l[i].id <= cur \/ l[i].id \in miss
  /\ \A i \in p..Len(l) : l[i].id > cur /\ l[i].id \notin miss
  /\ p > f => l[p-1].id = cur
  /\ Len(w) = n - p + 1 /\ \A i \in 1..Len(w) : w[i] = l[p + i - 1]

\* How far the handler has sent what its generator has yielded.
SentTo(s) == first[s] + Len(yielded[s]) - (IF handler[s] = "send" THEN 2 ELSE 1)

\* The sessions: a generator is open while its handler iterates it, and what it has yielded
\* is the log from its first position on.
SessionIInv(s) ==
  /\ pc[s] = "open" <=> handler[s] \in {"next", "send"}
  /\ handler[s] \in {"accepted", "ready"} => pc[s] = "idle"
  /\ handler[s] = "send" => yielded[s] # <<>>
  /\ first[s] \in Nat \ {0}
  /\ pc[s] = "open" =>
       \A i \in 1..Len(yielded[s]) :
         /\ first[s] + i - 1 <= Len(log[job[s]])
         /\ yielded[s][i] = log[job[s]][first[s] + i - 1]

\* A connection: before the generator starts nothing has been sent and the client has not
\* moved, then it streams, and the server has closed it after a terminal event only.
ConnectionIInv(c, s) ==
  /\ job[s] = watched[c] /\ link[s] = "up"
  /\ closed[s] <=> handler[s] = "none"
  /\ handler[s] \in {"accepted", "ready"} => after[s] = cursor[c] /\ wire[s] = <<>>
  /\ handler[s] \in {"next", "send", "none"} =>
       \E p \in 1..Len(log[job[s]]) + 1 :
         Streams(log[job[s]], cursor[c], missed[c], wire[s], first[s], p, SentTo(s))
  /\ closed[s] =>
       /\ SentTo(s) = Len(log[job[s]]) /\ SentTo(s) >= first[s]
       /\ log[job[s]][SentTo(s)].status \in Terminal

Chronicles == \A j \in Jobs : Chronicle(log[j])

KnowsAll(c) == Knows(log[watched[c]], events[watched[c]], received[c], cursor[c], missed[c])

InStep ==
  /\ \A s \in Sessions : SessionIInv(s)
  /\ \A c \in Clients, s \in Sessions : session_of[c] = s => ConnectionIInv(c, s)

OwnConnections ==
  \A c, e \in Clients : session_of[c] # None /\ session_of[c] = session_of[e] => c = e

SocketIInv ==
  /\ IInv
  /\ SocketTypeOK
  /\ Chronicles
  /\ \A c \in Clients : KnowsAll(c)
  /\ InStep
  /\ OwnConnections
-----------------------------------------------------------------------------
\* The sequences of events the proofs are about.
LEMMA EventSequence ==
  ASSUME NEW seq \in Seq(Events)
  PROVE  /\ Len(seq) \in Nat
         /\ \A i \in 1..Len(seq) : seq[i] \in Events /\ seq[i].id \in Nat \ {0}
         /\ seq # <<>> <=> Len(seq) >= 1
<1>1. Len(seq) \in Nat /\ \A i \in 1..Len(seq) : seq[i] \in Events
  BY LenProperties, ElementOfSeq
<1>2. seq # <<>> <=> Len(seq) >= 1
  BY <1>1, EmptySeq
<1>3. \A e \in Events : e.id \in Nat \ {0}
  BY HubAssumption DEF Events, EventIds
<1> QED
  BY <1>1, <1>2, <1>3, Zenon

LEMMA IdIn == \A seq, id : id \in IdsOf(seq) <=> \E i \in 1..Len(seq) : seq[i].id = id
BY DEF IdsOf

\* The cursor of a client is the id of an event in the log, if it has received any.
LEMMA CursorInLog ==
  ASSUME NEW l \in Seq(Events), NEW d, NEW got \in Seq(Events), NEW cur, NEW miss,
         Knows(l, d, got, cur, miss)
  PROVE  cur = 0 \/ \E k \in 1..Len(l) : cur = l[k].id
<1>1. CASE got = <<>>
  BY <1>1 DEF Knows
<1>2. CASE got # <<>>
  <2>1. Len(got) \in 1..Len(got)
    BY <1>2, EventSequence
  <2>2. cur = got[Len(got)].id /\ \E k \in 1..Len(l) : got[Len(got)] = l[k]
    BY <1>2, <2>1, Zenon DEF Knows
  <2> QED
    BY <2>2, Zenon
<1> QED
  BY <1>1, <1>2

\* An event of the log, appended: it is newer than everything a client has or has missed.
LEMMA LogGrows ==
  ASSUME NEW l \in Seq(Events), NEW e \in Events, \A i \in 1..Len(l) : l[i].id < e.id
  PROVE  /\ Append(l, e) \in Seq(Events) /\ Len(Append(l, e)) = Len(l) + 1
         /\ \A i \in 1..Len(l) : i \in 1..Len(l) + 1 /\ Append(l, e)[i] = l[i]
         /\ Append(l, e)[Len(l) + 1] = e
         /\ \A i \in 1..Len(l) + 1 : i \in 1..Len(l) \/ i = Len(l) + 1
         /\ \A id : id \in IdsOf(Append(l, e)) <=> id \in IdsOf(l) \/ id = e.id
         /\ e.id \notin IdsOf(l)
<1>1. /\ Append(l, e) \in Seq(Events) /\ Len(Append(l, e)) = Len(l) + 1 /\ Len(l) \in Nat
      /\ \A i \in 1..Len(l) : Append(l, e)[i] = l[i]
      /\ Append(l, e)[Len(l) + 1] = e
  BY AppendProperties, LenProperties
<1>2. /\ \A i \in 1..Len(l) : i \in 1..Len(l) + 1
      /\ \A i \in 1..Len(l) + 1 : i \in 1..Len(l) \/ i = Len(l) + 1
      /\ Len(l) + 1 \in 1..Len(l) + 1
  BY <1>1
<1>3. \A id : id \in IdsOf(Append(l, e)) <=> id \in IdsOf(l) \/ id = e.id
  <2>1. \A id : (\E i \in 1..Len(l) + 1 : Append(l, e)[i].id = id)
                 <=> (\E i \in 1..Len(l) : l[i].id = id) \/ id = e.id
    BY <1>1, <1>2
  <2>2. \A id : id \in IdsOf(Append(l, e)) <=> \E i \in 1..Len(l) + 1 : Append(l, e)[i].id = id
    <3>1. \A id : id \in IdsOf(Append(l, e))
                   <=> \E i \in 1..Len(Append(l, e)) : Append(l, e)[i].id = id
      BY IdIn, Zenon
    <3> QED
      BY <1>1, <3>1
  <2> QED
    BY <2>1, <2>2, IdIn, Zenon
<1>4. e.id \notin IdsOf(l)
  <2>1. e.id \in Nat /\ \A i \in 1..Len(l) : l[i].id \in Nat
    <3>1. \A i \in 1..Len(l) : l[i].id \in Nat
      BY EventSequence
    <3> QED
      BY <3>1, HubAssumption DEF Events, EventIds
  <2>2. \A i \in 1..Len(l) : l[i].id # e.id
    BY <2>1
  <2> QED
    BY <2>2, IdIn, Zenon
<1> QED
  BY <1>1, <1>2, <1>3, <1>4, Zenon

\* The deque gains the id of the new event only.
LEMMA RetainIds ==
  ASSUME NEW d \in Seq(Events), NEW e \in Events
  PROVE  \A id \in IdsOf(Retain(d, e)) : id \in IdsOf(d) \/ id = e.id
<1>1. \A t \in Seq(Events) : \A id \in IdsOf(Append(t, e)) : id \in IdsOf(t) \/ id = e.id
  <2> SUFFICES ASSUME NEW t \in Seq(Events), NEW id \in IdsOf(Append(t, e))
               PROVE  id \in IdsOf(t) \/ id = e.id
    OBVIOUS
  <2>0. PICK i \in 1..Len(Append(t, e)) : Append(t, e)[i].id = id
    BY IdIn, Zenon
  <2>1. /\ Len(Append(t, e)) = Len(t) + 1 /\ Len(t) \in Nat
        /\ \A k \in 1..Len(t) : Append(t, e)[k] = t[k]
        /\ Append(t, e)[Len(t) + 1] = e
    BY AppendProperties, LenProperties
  <2>2. i \in 1..Len(t) \/ i = Len(t) + 1
    BY <2>1
  <2> QED
    BY <2>0, <2>1, <2>2, IdIn, Zenon
<1>2. CASE Len(d) = MaxEvents
  <2>1. d # <<>> /\ Len(d) \in Nat
    <3>1. Len(d) >= 1
      BY <1>2, HubAssumption
    <3> QED
      BY <3>1, EventSequence, Zenon
  <2>2. /\ Tail(d) \in Seq(Events) /\ Len(Tail(d)) = Len(d) - 1
        /\ \A i \in 1..Len(Tail(d)) : Tail(d)[i] = d[i + 1]
    BY <2>1, HeadTailProperties
  <2>3. \A i \in 1..Len(Tail(d)) : i + 1 \in 1..Len(d)
    BY <2>1, <2>2
  <2>4. ASSUME NEW id \in IdsOf(Tail(d))
        PROVE  id \in IdsOf(d)
    <3>1. PICK i \in 1..Len(Tail(d)) : Tail(d)[i].id = id
      BY IdIn, Zenon
    <3>2. i + 1 \in 1..Len(d) /\ d[i + 1].id = id
      BY <2>2, <2>3, <3>1
    <3> QED
      BY <3>2, IdIn, Zenon
  <2> QED
    BY <1>1, <1>2, <2>2, <2>4, Zenon DEF Retain
<1>3. CASE Len(d) # MaxEvents
  BY <1>1, <1>3, Zenon DEF Retain
<1> QED
  BY <1>2, <1>3

LEMMA KnowsGrows ==
  ASSUME NEW l \in Seq(Events), NEW d \in Seq(Events), NEW got \in Seq(Events), NEW cur \in Nat,
         NEW miss, NEW e \in Events, \A i \in 1..Len(l) : l[i].id < e.id,
         Knows(l, d, got, cur, miss)
  PROVE  Knows(Append(l, e), Retain(d, e), got, cur, miss) /\ cur < e.id
<1>1. cur < e.id
  <2>1. e.id \in Nat \ {0}
    BY HubAssumption DEF Events, EventIds
  <2> QED
    BY <2>1, CursorInLog
<1> DEFINE m == Append(l, e)
<1>2. /\ Len(m) = Len(l) + 1
      /\ \A i \in 1..Len(l) : i \in 1..Len(l) + 1 /\ m[i] = l[i]
      /\ m[Len(l) + 1] = e
      /\ \A i \in 1..Len(l) + 1 : i \in 1..Len(l) \/ i = Len(l) + 1
      /\ \A id : id \in IdsOf(m) <=> id \in IdsOf(l) \/ id = e.id
      /\ e.id \notin IdsOf(l)
  BY LogGrows, Zenon
<1>3. \A id \in IdsOf(Retain(d, e)) : id \in IdsOf(d) \/ id = e.id
  BY RetainIds, Zenon
<1> HIDE DEF m
<1>4. ~ (e.id <= cur)
  <2>1. e.id \in Nat
    BY HubAssumption DEF Events, EventIds
  <2> QED
    BY <1>1, <2>1
<1>5. \A i \in 1..Len(m) : m[i].id <= cur => (m[i].id \in IdsOf(got) <=> m[i].id \notin miss)
  BY <1>2, <1>4, Zenon DEF Knows
<1>6. miss \subseteq IdsOf(m) /\ miss \cap IdsOf(Retain(d, e)) = {}
  BY <1>2, <1>3, Zenon DEF Knows
<1>7. \A i \in 1..Len(got) : got[i].id <= cur /\ \E k \in 1..Len(m) : got[i] = m[k]
  BY <1>2, Zenon DEF Knows
<1> QED
  BY <1>1, <1>5, <1>6, <1>7, Zenon DEF Knows, m

LEMMA StreamsGrow ==
  ASSUME NEW l \in Seq(Events), NEW e \in Events, \A i \in 1..Len(l) : l[i].id < e.id,
         NEW cur \in Nat, cur < e.id, NEW miss, miss \subseteq IdsOf(l),
         NEW w \in Seq(Events), NEW f \in Nat \ {0}, NEW p \in Nat, NEW n \in Int,
         Streams(l, cur, miss, w, f, p, n)
  PROVE  Streams(Append(l, e), cur, miss, w, f, p, n)
<1> DEFINE m == Append(l, e)
<1>1. /\ Len(m) = Len(l) + 1
      /\ \A i \in 1..Len(l) : i \in 1..Len(l) + 1 /\ m[i] = l[i]
      /\ m[Len(l) + 1] = e
      /\ e.id \notin IdsOf(l)
  BY LogGrows, Zenon
<1>2. Len(l) \in Nat /\ \A i \in 1..Len(l) : l[i].id \in Nat
  BY EventSequence
<1> HIDE DEF m
<1>3. p \in f..n+1 /\ n <= Len(m) /\ p <= Len(l) + 1
  BY <1>1, <1>2 DEF Streams
<1>4. \A i \in 1..p-1 : m[i].id <= cur \/ m[i].id \in miss
  <2>1. \A i \in 1..p-1 : i \in 1..Len(l)
    BY <1>2, <1>3
  <2> QED
    BY <1>1, <2>1, Zenon DEF Streams
<1>5. \A i \in p..Len(m) : m[i].id > cur /\ m[i].id \notin miss
  <2>1. \A i \in p..Len(m) : (i \in p..Len(l) /\ i \in 1..Len(l)) \/ i = Len(l) + 1
    BY <1>1, <1>2, <1>3
  <2>2. e.id > cur
    BY HubAssumption DEF Events, EventIds
  <2> QED
    BY <1>1, <2>1, <2>2, Zenon DEF Streams
<1>6. p > f => m[p-1].id = cur
  <2>1. p > f => p - 1 \in 1..Len(l)
    BY <1>2, <1>3
  <2> QED
    BY <1>1, <2>1, Zenon DEF Streams
<1>7. \A i \in 1..Len(w) : w[i] = m[p + i - 1]
  <2>1. Len(w) = n - p + 1 /\ \A i \in 1..Len(w) : w[i] = l[p + i - 1]
    BY Zenon DEF Streams
  <2>2. \A i \in 1..Len(w) : p + i - 1 \in 1..Len(l)
    BY <1>2, <1>3, <2>1 DEF Streams
  <2> QED
    BY <1>1, <2>1, <2>2, Zenon
<1> QED
  BY <1>3, <1>4, <1>5, <1>6, <1>7, Zenon DEF Streams, m

\* The deque is the log from some position on.
LEMMA TailPositions ==
  ASSUME NEW l \in Seq(Events), NEW d \in Seq(Events), IsTail(d, l)
  PROVE  /\ Len(d) <= Len(l) /\ Len(l) \in Nat /\ Len(d) \in Nat
         /\ \A i \in 1..Len(d) : d[i] = l[Len(l) - Len(d) + i]
<1>1. Len(l) \in Nat /\ Len(d) \in Nat
  BY LenProperties
<1>2. Len(d) <= Len(l)
  <2>1. Len(d) = IF Len(l) < MaxEvents THEN Len(l) ELSE MaxEvents
    BY Zenon DEF IsTail
  <2> QED
    BY <1>1, <2>1, HubAssumption
<1>3. PICK m \in Int : m = Len(l) - Len(d) + 1
  <2>1. Len(l) - Len(d) + 1 \in Int
    BY <1>1
  <2> QED
    BY <2>1, Zenon
<1>4. d = SubSeq(l, m, Len(l))
  BY <1>3, Zenon DEF IsTail
<1>5. \A i \in m..Len(l) : l[i] \in Events
  BY <1>1, <1>2, <1>3, ElementOfSeq
<1>6. \A i \in 1..Len(l) - m + 1 : SubSeq(l, m, Len(l))[i] = l[m + i - 1]
  BY <1>1, <1>5, SubSeqProperties
<1>7. /\ Len(l) - m + 1 = Len(d)
      /\ \A i \in 1..Len(d) : m + i - 1 = Len(l) - Len(d) + i
  BY <1>1, <1>3
<1>8. \A i \in 1..Len(d) : d[i] = l[m + i - 1]
  BY <1>4, <1>6, <1>7, Zenon
<1>9. \A i \in 1..Len(d) : d[i] = l[Len(l) - Len(d) + i]
  BY <1>7, <1>8, Zenon
<1> QED
  BY <1>1, <1>2, <1>9, Zenon

\* What a snapshot taken with a cursor is, in terms of the log: everything from some position
\* on, and what is before it is not above the cursor or not retained.
LEMMA AfterOfLog ==
  ASSUME NEW l \in Seq(Events), NEW d \in Seq(Events), IsTail(d, l), Chronicle(l),
         NEW cur \in Nat
  PROVE  \E p \in 1..Len(l) + 1 :
           /\ After(d, cur) \in Seq(Events) /\ Len(After(d, cur)) = Len(l) - p + 1
           /\ \A i \in 1..Len(l) - p + 1 : After(d, cur)[i] = l[p + i - 1]
           /\ \A i \in 1..p-1 : l[i].id <= cur \/ l[i].id \notin IdsOf(d)
           /\ \A i \in p..Len(l) : l[i].id > cur /\ l[i].id \in IdsOf(d)
<1> DEFINE r == After(d, cur)
<1>1. /\ Len(d) <= Len(l) /\ Len(l) \in Nat /\ Len(d) \in Nat
      /\ \A i \in 1..Len(d) : d[i] = l[Len(l) - Len(d) + i]
  BY TailPositions, Zenon
<1>2. \A i \in 1..Len(l) : l[i] \in Events /\ l[i].id \in Nat
  BY EventSequence
<1>3. PICK q \in 1..Len(d) + 1 :
        /\ r = SubSeq(d, q, Len(d))
        /\ \A i \in 1..q-1 : d[i].id <= cur
        /\ q <= Len(d) => d[q].id > cur
  BY AfterIsSuffix, Zenon
<1> HIDE DEF r
<1>4. MaxEvents \in Nat \ {0}
  BY HubAssumption
<1>5. PICK p \in 1..Len(l) + 1 : /\ r = SubSeq(l, p, Len(l))
                                /\ r \in Seq(Events)
                                /\ Len(r) = Len(l) - p + 1
                                /\ p - q = Len(l) - Len(d)
  BY <1>3, <1>4, SuffixOfDeque, ZenonT(60)
<1>6. \A i \in 1..Len(l) - p + 1 : r[i] = l[p + i - 1]
  <2>1. \A i \in p..Len(l) : l[i] \in Events
    BY <1>1, <1>2
  <2>2. \A i \in 1..Len(l) - p + 1 : SubSeq(l, p, Len(l))[i] = l[p + i - 1]
    BY <1>1, <2>1, SubSeqProperties
  <2> QED
    BY <1>5, <2>2, Zenon
<1>7. \A k \in 1..Len(l) : \A i \in 1..k-1 : l[i].id < l[k].id
  BY Zenon DEF Chronicle
<1>8. \A i \in p..Len(l) : l[i].id > cur
  <2> SUFFICES ASSUME NEW i \in p..Len(l) PROVE l[i].id > cur
    OBVIOUS
  <2>1. /\ q <= Len(d) /\ Len(l) - Len(d) + q = p /\ q \in 1..Len(d) /\ p \in 1..Len(l)
        /\ i \in 1..Len(l) /\ (i = p \/ p \in 1..i-1)
    BY <1>1, <1>5
  <2>2. l[p].id > cur
    BY <1>1, <1>3, <2>1
  <2>3. i = p \/ l[p].id < l[i].id
    BY <1>7, <2>1
  <2> QED
    BY <1>2, <2>1, <2>2, <2>3
<1>9. \A i \in p..Len(l) : l[i].id \in IdsOf(d)
  <2> SUFFICES ASSUME NEW i \in p..Len(l) PROVE l[i].id \in IdsOf(d)
    OBVIOUS
  <2>1. PICK k \in 1..Len(d) : Len(l) - Len(d) + k = i
    <3>1. i - (Len(l) - Len(d)) \in 1..Len(d)
      BY <1>1, <1>5
    <3>2. Len(l) - Len(d) + (i - (Len(l) - Len(d))) = i
      BY <1>1
    <3> QED
      BY <3>1, <3>2, Zenon
  <2>2. d[k].id = l[i].id
    BY <1>1, <2>1, Zenon
  <2> QED
    BY <2>2, IdIn, Zenon
<1>10. \A i \in 1..p-1 : l[i].id <= cur \/ l[i].id \notin IdsOf(d)
  <2> SUFFICES ASSUME NEW i \in 1..p-1, NEW k \in 1..Len(d), d[k].id = l[i].id
               PROVE  l[i].id <= cur
    BY IdIn, Zenon
  <2>1. CASE k < q
    BY <1>3, <2>1, SMTT(30)
  <2>2. CASE ~ (k < q)
    <3>1. Len(l) - Len(d) + k \in 1..Len(l) /\ i \in 1..(Len(l) - Len(d) + k) - 1 /\ i \in 1..Len(l)
      BY <1>1, <1>5, <2>2
    <3>2. l[i].id < d[k].id
      BY <1>1, <1>7, <3>1, Zenon
    <3> QED
      BY <1>2, <3>1, <3>2
  <2> QED
    BY <2>1, <2>2
<1> QED
  BY <1>5, <1>6, <1>8, <1>9, <1>10, Zenon DEF r

\* A client that takes the next n events of the log from position p on, with all before p
\* below its cursor or missed, knows the log up to the last of them.
LEMMA KnowsMore ==
  ASSUME NEW l \in Seq(Events), NEW d, NEW got \in Seq(Events), NEW cur \in Nat, NEW miss,
         Chronicle(l), Knows(l, d, got, cur, miss),
         NEW more, miss \subseteq more, more \subseteq IdsOf(l), more \cap IdsOf(d) = {},
         \A id \in more \ miss : ~ (id <= cur),
         NEW p \in 1..Len(l), NEW n \in 1..Len(l) - p + 1,
         \A i \in 1..p-1 : l[i].id <= cur \/ l[i].id \in more,
         \A i \in p..Len(l) : l[i].id > cur /\ l[i].id \notin more,
         NEW m \in Seq(Events), Len(m) = Len(got) + n,
         \A i \in 1..Len(got) : m[i] = got[i],
         \A i \in 1..n : m[Len(got) + i] = l[p + i - 1]
  PROVE  Knows(l, d, m, l[p + n - 1].id, more)
<1>1. /\ Len(l) \in Nat /\ Len(got) \in Nat
      /\ \A i \in 1..Len(l) : l[i].id \in Nat
      /\ \A i \in 1..Len(got) : got[i].id \in Nat
  BY EventSequence
<1>2. \A k \in 1..Len(l) : \A i \in 1..k-1 : l[i].id < l[k].id
  BY Zenon DEF Chronicle
<1> DEFINE new == l[p + n - 1].id
<1>3. /\ p + n - 1 \in 1..Len(l) /\ p + n - 1 \in p..Len(l)
      /\ new \in Nat /\ new > cur
  BY <1>1
<1>4. \A i \in 1..n : /\ p + i - 1 \in 1..Len(l) /\ p + i - 1 \in p..Len(l)
                      /\ p + i - 1 = p + n - 1 \/ p + i - 1 \in 1..(p + n - 1) - 1
  BY <1>1
<1>5. \A i \in 1..n : l[p + i - 1].id <= new
  <2> SUFFICES ASSUME NEW i \in 1..n PROVE l[p + i - 1].id <= new
    OBVIOUS
  <2>1. p + i - 1 = p + n - 1 \/ l[p + i - 1].id < new
    BY <1>2, <1>3, <1>4, Zenon
  <2>2. l[p + i - 1].id \in Nat
    BY <1>1, <1>4, Zenon
  <2> QED
    BY <1>3, <2>1, <2>2
<1>6. \A i \in 1..Len(m) : i \in 1..Len(got) \/ \E k \in 1..n : i = Len(got) + k
  <2> SUFFICES ASSUME NEW i \in 1..Len(m), i \notin 1..Len(got)
               PROVE  \E k \in 1..n : i = Len(got) + k
    OBVIOUS
  <2>1. i - Len(got) \in 1..n /\ i = Len(got) + (i - Len(got))
    BY <1>1
  <2> QED
    BY <2>1, Zenon
<1>7. /\ \A i \in 1..Len(got) : i \in 1..Len(m)
      /\ \A i \in 1..n : Len(got) + i \in 1..Len(m)
  BY <1>1
<1>8. \A i \in 1..Len(got) : got[i].id <= cur /\ got[i].id <= new /\ \E k \in 1..Len(l) : got[i] = l[k]
  <2>1. \A i \in 1..Len(got) : got[i].id <= cur /\ \E k \in 1..Len(l) : got[i] = l[k]
    BY Zenon DEF Knows
  <2>2. \A i \in 1..Len(got) : got[i].id <= new
    BY <1>1, <1>3, <2>1
  <2> QED
    BY <2>1, <2>2, Zenon
<1>9. \A i \in 1..Len(m) : m[i].id <= new /\ \E k \in 1..Len(l) : m[i] = l[k]
  <2> HIDE DEF new
  <2> SUFFICES ASSUME NEW i \in 1..Len(m)
               PROVE  m[i].id <= new /\ \E k \in 1..Len(l) : m[i] = l[k]
    BY Zenon
  <2>1. CASE i \in 1..Len(got)
    BY <1>8, <2>1, Zenon
  <2>2. CASE i \notin 1..Len(got)
    <3>1. PICK k \in 1..n : i = Len(got) + k
      BY <1>6, <2>2, Zenon
    <3>2. m[i] = l[p + k - 1]
      BY <3>1, Zenon
    <3> QED
      BY <1>4, <1>5, <3>2, Zenon
  <2> QED
    BY <2>1, <2>2, Zenon
<1>10. \A k \in 1..Len(m) : \A i \in 1..k-1 : m[i].id < m[k].id
  <2> SUFFICES ASSUME NEW k \in 1..Len(m), NEW i \in 1..k-1
               PROVE  m[i].id < m[k].id
    BY Zenon
  <2>1. CASE k \in 1..Len(got)
    <3>1. i \in 1..Len(got)
      BY <1>1, <2>1
    <3>2. got[i].id < got[k].id
      BY <2>1, Zenon DEF Knows
    <3> QED
      BY <2>1, <3>1, <3>2, Zenon
  <2>2. CASE k \notin 1..Len(got) /\ i \in 1..Len(got)
    <3>1. PICK a \in 1..n : k = Len(got) + a
      BY <1>6, <2>2, Zenon
    <3>2. m[k] = l[p + a - 1] /\ m[i] = got[i]
      BY <2>2, <3>1, Zenon
    <3>3. l[p + a - 1].id > cur /\ l[p + a - 1].id \in Nat
      BY <1>1, <1>4, Zenon
    <3>4. got[i].id <= cur /\ got[i].id \in Nat
      BY <1>1, <1>8, <2>2, Zenon
    <3> QED
      BY <3>2, <3>3, <3>4, SMTT(30)
  <2>3. CASE k \notin 1..Len(got) /\ i \notin 1..Len(got)
    <3>1. PICK a \in 1..n : k = Len(got) + a
      BY <1>6, <2>3, Zenon
    <3>2. PICK b \in 1..n : i = Len(got) + b
      <4>1. i \in 1..Len(m)
        BY <1>1
      <4> QED
        BY <1>6, <2>3, <4>1, Zenon
    <3>3. p + b - 1 \in 1..(p + a - 1) - 1
      BY <1>1, <3>1, <3>2
    <3>4. l[p + b - 1].id < l[p + a - 1].id
      BY <1>2, <1>4, <3>3, Zenon
    <3> QED
      BY <3>1, <3>2, <3>4, Zenon
  <2> QED
    BY <2>1, <2>2, <2>3, Zenon
<1>11. m # <<>> /\ new = m[Len(m)].id
  <2>1. n \in 1..n /\ Len(m) # 0
    BY <1>1
  <2>2. m[Len(m)] = l[p + n - 1]
    BY <2>1, Zenon
  <2> QED
    BY <2>1, <2>2, EmptySeq
<1>12. \A id : id \in IdsOf(m) <=> id \in IdsOf(got) \/ \E k \in 1..n : l[p + k - 1].id = id
  <2> HIDE DEF new
  <2> SUFFICES ASSUME NEW id
               PROVE  id \in IdsOf(m)
                        <=> id \in IdsOf(got) \/ \E k \in 1..n : l[p + k - 1].id = id
    BY Zenon
  <2>1. ASSUME id \in IdsOf(m)
        PROVE  id \in IdsOf(got) \/ \E k \in 1..n : l[p + k - 1].id = id
    <3>1. PICK i \in 1..Len(m) : m[i].id = id
      BY <2>1 DEF IdsOf
    <3>2. CASE i \in 1..Len(got)
      <4>1. got[i].id = id
        BY <3>1, <3>2
      <4> QED
        BY <3>2, <4>1 DEF IdsOf
    <3>3. CASE i \notin 1..Len(got)
      <4>1. PICK k \in 1..n : i = Len(got) + k
        BY <1>6, <3>3
      <4>2. l[p + k - 1].id = id
        BY <3>1, <4>1
      <4> QED
        BY <4>2
    <3> QED
      BY <3>2, <3>3
  <2>2. ASSUME id \in IdsOf(got)
        PROVE  id \in IdsOf(m)
    <3>1. PICK i \in 1..Len(got) : got[i].id = id
      BY <2>2 DEF IdsOf
    <3>2. i \in 1..Len(m) /\ m[i].id = id
      BY <1>7, <3>1
    <3> QED
      BY <3>2 DEF IdsOf
  <2>3. ASSUME NEW k \in 1..n, l[p + k - 1].id = id
        PROVE  id \in IdsOf(m)
    <3>1. Len(got) + k \in 1..Len(m) /\ m[Len(got) + k].id = id
      BY <1>7, <2>3
    <3> QED
      BY <3>1 DEF IdsOf
  <2> QED
    BY <2>1, <2>2, <2>3
<1>13. \A i \in 1..Len(l) : l[i].id <= new => (l[i].id \in IdsOf(m) <=> l[i].id \notin more)
  <2> SUFFICES ASSUME NEW i \in 1..Len(l), l[i].id <= new
               PROVE  l[i].id \in IdsOf(m) <=> l[i].id \notin more
    OBVIOUS
  <2>0. ASSUME NEW k \in 1..n
        PROVE  ~ (l[p + k - 1].id <= cur) /\ l[p + k - 1].id \notin more
    <3>1. l[p + k - 1].id \in Nat /\ l[p + k - 1].id > cur /\ l[p + k - 1].id \notin more
      BY <1>1, <1>4, Zenon
    <3> QED
      BY <3>1
  <2>1. CASE l[i].id <= cur
    <3>1. l[i].id \in IdsOf(got) <=> l[i].id \notin miss
      BY <2>1, Zenon DEF Knows
    <3>2. l[i].id \in miss <=> l[i].id \in more
      BY <2>1, Zenon
    <3>3. \A k \in 1..n : l[p + k - 1].id # l[i].id
      BY <2>0, <2>1, Zenon
    <3> QED
      BY <1>12, <3>1, <3>2, <3>3, Zenon
  <2>2. CASE ~ (l[i].id <= cur) /\ i \in 1..p-1
    <3>1. l[i].id \in more
      BY <2>2, Zenon
    <3>2. l[i].id \notin IdsOf(got)
      <4>1. \A k \in 1..Len(got) : got[k].id # l[i].id
        BY <1>8, <2>2
      <4> QED
        BY <4>1 DEF IdsOf
    <3>3. \A k \in 1..n : l[p + k - 1].id # l[i].id
      BY <2>0, <3>1, Zenon
    <3> QED
      BY <1>12, <3>1, <3>2, <3>3, Zenon
  <2>3. CASE i \notin 1..p-1
    <3>1. i \in p..Len(l)
      BY <1>1, <2>3
    <3>2. i <= p + n - 1
      <4>1. CASE i > p + n - 1
        <5>1. p + n - 1 \in 1..i-1
          BY <1>1, <1>3, <4>1
        <5>2. new < l[i].id
          BY <1>2, <5>1, Zenon
        <5> QED
          BY <1>1, <1>3, <5>2
      <4> QED
        BY <1>1, <4>1
    <3>3. i - p + 1 \in 1..n /\ p + (i - p + 1) - 1 = i
      BY <1>1, <3>1, <3>2
    <3>4. \E k \in 1..n : l[p + k - 1].id = l[i].id
      BY <3>3, Zenon
    <3>5. l[i].id \notin more
      BY <3>1, Zenon
    <3> QED
      BY <1>12, <3>4, <3>5, Zenon
  <2> QED
    BY <2>1, <2>2, <2>3, Zenon
<1> HIDE DEF new
<1>14. Knows(l, d, m, new, more)
  BY <1>9, <1>10, <1>11, <1>13, Zenon DEF Knows
<1> QED
  BY <1>14, Zenon DEF new

\* What a client takes from the head of the stream is the next event of the log.
LEMMA StreamReceives ==
  ASSUME NEW l \in Seq(Events), NEW d, NEW got \in Seq(Events), NEW cur \in Nat, NEW miss,
         Chronicle(l), Knows(l, d, got, cur, miss),
         NEW w \in Seq(Events), w # <<>>, NEW f \in Nat \ {0}, NEW p \in 1..Len(l) + 1, NEW n \in Int,
         Streams(l, cur, miss, w, f, p, n)
  PROVE  /\ p + 1 \in 1..Len(l) + 1
         /\ Knows(l, d, Append(got, Head(w)), Head(w).id, miss)
         /\ Streams(l, Head(w).id, miss, Tail(w), f, p + 1, n)
<1>1. /\ Len(l) \in Nat /\ Len(got) \in Nat /\ Len(w) \in Nat /\ Len(w) >= 1
      /\ \A i \in 1..Len(l) : l[i].id \in Nat
  BY EventSequence
<1>2. /\ p \in f..n+1 /\ n <= Len(l)
      /\ \A i \in 1..p-1 : l[i].id <= cur \/ l[i].id \in miss
      /\ \A i \in p..Len(l) : l[i].id > cur /\ l[i].id \notin miss
      /\ Len(w) = n - p + 1 /\ \A i \in 1..Len(w) : w[i] = l[p + i - 1]
  BY Zenon DEF Streams
<1>3. /\ p \in 1..Len(l) /\ 1 \in 1..Len(l) - p + 1 /\ 1 \in 1..Len(w)
      /\ p + 1 - 1 = p /\ p + 1 \in f..n+1
  BY <1>1, <1>2
<1>4. Head(w) = l[p] /\ Head(w) \in Events
  <2>1. Head(w) = w[1] /\ w[1] = l[p + 1 - 1]
    BY <1>1, <1>2, <1>3
  <2>2. Head(w) \in Events
    BY HeadTailProperties
  <2> QED
    BY <1>3, <2>1, <2>2, Zenon
<1>5. /\ Tail(w) \in Seq(Events) /\ Len(Tail(w)) = Len(w) - 1
      /\ \A i \in 1..Len(Tail(w)) : Tail(w)[i] = w[i + 1]
  BY HeadTailProperties
<1>6. Knows(l, d, Append(got, Head(w)), Head(w).id, miss)
  <2> DEFINE m == Append(got, Head(w))
  <2>1. /\ m \in Seq(Events) /\ Len(m) = Len(got) + 1
        /\ \A i \in 1..Len(got) : m[i] = got[i]
        /\ m[Len(got) + 1] = Head(w)
    BY <1>4, AppendProperties
  <2> HIDE DEF m
  <2>2. \A i \in 1..1 : m[Len(got) + i] = l[p + i - 1]
    <3>1. \A i \in 1..1 : i = 1
      OBVIOUS
    <3>2. m[Len(got) + 1] = l[p + 1 - 1]
      BY <1>3, <1>4, <2>1
    <3> QED
      BY <3>1, <3>2, Zenon
  <2>3. /\ miss \subseteq miss /\ miss \subseteq IdsOf(l) /\ miss \cap IdsOf(d) = {}
        /\ \A id \in miss \ miss : ~ (id <= cur)
    BY Zenon DEF Knows
  <2>4. Knows(l, d, m, l[p + 1 - 1].id, miss)
    BY <1>2, <1>3, <2>1, <2>2, <2>3, KnowsMore
  <2> QED
    BY <1>3, <1>4, <2>4, Zenon DEF m
<1>7. \A k \in 1..Len(l) : \A i \in 1..k-1 : l[i].id < l[k].id
  BY Zenon DEF Chronicle
<1>8. \A i \in 1..(p + 1)-1 : l[i].id <= Head(w).id \/ l[i].id \in miss
  <2> SUFFICES ASSUME NEW i \in 1..(p + 1)-1
               PROVE  l[i].id <= l[p].id
    BY <1>4, Zenon
  <2>1. i \in 1..Len(l) /\ (i = p \/ i \in 1..p-1)
    BY <1>1, <1>3
  <2>2. i = p \/ l[i].id < l[p].id
    BY <1>3, <1>7, <2>1, Zenon
  <2>3. l[i].id \in Nat /\ l[p].id \in Nat
    BY <1>1, <1>3, <2>1, Zenon
  <2> QED
    BY <2>2, <2>3, SMTT(30)
<1>9. \A i \in p+1..Len(l) : l[i].id > Head(w).id /\ l[i].id \notin miss
  <2> SUFFICES ASSUME NEW i \in p+1..Len(l)
               PROVE  l[i].id > l[p].id /\ l[i].id \notin miss
    BY <1>4, Zenon
  <2>1. i \in 1..Len(l) /\ i \in p..Len(l) /\ p \in 1..i-1
    BY <1>1, <1>3
  <2>2. l[p].id < l[i].id /\ l[i].id \in Nat /\ l[p].id \in Nat
    BY <1>1, <1>3, <1>7, <2>1, Zenon
  <2>3. l[i].id \notin miss
    BY <1>2, <2>1, Zenon
  <2> QED
    BY <2>2, <2>3
<1>10. /\ Len(Tail(w)) = n - (p + 1) + 1
       /\ \A i \in 1..Len(Tail(w)) : Tail(w)[i] = l[(p + 1) + i - 1]
  <2>1. Len(Tail(w)) = n - (p + 1) + 1
    BY <1>1, <1>2, <1>5
  <2>2. \A i \in 1..Len(Tail(w)) : i + 1 \in 1..Len(w) /\ p + (i + 1) - 1 = (p + 1) + i - 1
    BY <1>1, <1>5
  <2>3. \A i \in 1..Len(Tail(w)) : w[i + 1] = l[p + (i + 1) - 1]
    BY <1>2, <2>2, Zenon
  <2>4. \A i \in 1..Len(Tail(w)) : Tail(w)[i] = l[(p + 1) + i - 1]
    BY <1>5, <2>2, <2>3, Zenon
  <2> QED
    BY <2>1, <2>4
<1>11. l[(p + 1) - 1].id = Head(w).id
  <2>1. (p + 1) - 1 = p
    BY <1>1
  <2> QED
    BY <1>4, <2>1
<1>12. Streams(l, Head(w).id, miss, Tail(w), f, p + 1, n)
  BY <1>2, <1>3, <1>8, <1>9, <1>10, <1>11, Zenon DEF Streams
<1> QED
  BY <1>1, <1>3, <1>6, <1>12

\* The handler sends the next event of the log.
LEMMA StreamSends ==
  ASSUME NEW l \in Seq(Events), NEW cur, NEW miss, NEW w \in Seq(Events), NEW f \in Nat \ {0},
         NEW p \in Nat, NEW n \in Int, n + 1 <= Len(l),
         Streams(l, cur, miss, w, f, p, n)
  PROVE  Streams(l, cur, miss, Append(w, l[n + 1]), f, p, n + 1)
<1>1. /\ p \in f..n+1 /\ n <= Len(l)
      /\ Len(w) = n - p + 1 /\ \A i \in 1..Len(w) : w[i] = l[p + i - 1]
  BY Zenon DEF Streams
<1>2. Len(l) \in Nat /\ Len(w) \in Nat /\ l[n + 1] \in Events
  <2>1. Len(l) \in Nat /\ Len(w) \in Nat /\ \A i \in 1..Len(l) : l[i] \in Events
    BY EventSequence
  <2>2. n + 1 \in 1..Len(l)
    BY <1>1, <2>1
  <2> QED
    BY <2>1, <2>2, Zenon
<1> DEFINE m == Append(w, l[n + 1])
<1>3. /\ Len(m) = Len(w) + 1 /\ \A i \in 1..Len(w) : m[i] = w[i]
      /\ m[Len(w) + 1] = l[n + 1]
  BY <1>2, AppendProperties
<1> HIDE DEF m
<1>4. p \in f..(n+1)+1 /\ n + 1 <= Len(l) /\ Len(m) = (n + 1) - p + 1 /\ n + 1 = p + Len(m) - 1
  BY <1>1, <1>2, <1>3
<1>5. \A i \in 1..Len(m) : m[i] = l[p + i - 1]
  <2>1. \A i \in 1..Len(m) : i \in 1..Len(w) \/ i = Len(m)
    BY <1>2, <1>3
  <2>2. m[Len(m)] = l[p + Len(m) - 1]
    BY <1>3, <1>4, Zenon
  <2> QED
    BY <1>1, <1>3, <2>1, <2>2, Zenon
<1> QED
  BY <1>4, <1>5, Zenon DEF Streams, m

\* What a client has or has in flight is all of the log but what it missed, a terminal event last.
Complete(l, all, miss) ==
  /\ all # <<>> /\ all[Len(all)].status \in Terminal
  /\ IdsOf(l) = IdsOf(all) \cup miss

\* When the whole log was sent and ends with a terminal event, the client has or will have
\* all of it but what it missed, the terminal event last.
LEMMA StreamCompletes ==
  ASSUME NEW l \in Seq(Events), NEW d, NEW got \in Seq(Events), NEW cur \in Nat, NEW miss,
         Chronicle(l), Knows(l, d, got, cur, miss),
         NEW w \in Seq(Events), NEW f \in Nat \ {0}, NEW p \in 1..Len(l) + 1,
         f <= Len(l), l[Len(l)].status \in Terminal,
         Streams(l, cur, miss, w, f, p, Len(l))
  PROVE  Complete(l, got \o w, miss)
<1>1. /\ Len(l) \in Nat /\ Len(got) \in Nat /\ Len(w) \in Nat
      /\ \A i \in 1..Len(l) : l[i].id \in Nat /\ l[i].id # 0
      /\ Len(l) \in 1..Len(l)
  BY EventSequence
<1>2. /\ p \in f..Len(l)+1
      /\ \A i \in 1..p-1 : l[i].id <= cur \/ l[i].id \in miss
      /\ p > f => l[p-1].id = cur
      /\ Len(w) = Len(l) - p + 1 /\ \A i \in 1..Len(w) : w[i] = l[p + i - 1]
  BY Zenon DEF Streams
<1>3. \A k \in 1..Len(l) : \A i \in 1..k-1 : l[i].id < l[k].id
  BY Zenon DEF Chronicle
<1> DEFINE m == got \o w
<1>4. /\ m \in Seq(Events) /\ Len(m) = Len(got) + Len(w)
      /\ \A i \in 1..Len(got) : m[i] = got[i]
      /\ \A i \in 1..Len(w) : m[Len(got) + i] = w[i]
  <2>1. /\ m \in Seq(Events) /\ Len(m) = Len(got) + Len(w)
        /\ \A i \in 1..Len(got) + Len(w) : m[i] = IF i <= Len(got) THEN got[i] ELSE w[i - Len(got)]
    BY ConcatProperties, Zenon
  <2> HIDE DEF m
  <2>2. \A i \in 1..Len(got) : m[i] = got[i]
    BY <1>1, <2>1
  <2>3. \A i \in 1..Len(w) : m[Len(got) + i] = w[i]
    <3> SUFFICES ASSUME NEW i \in 1..Len(w) PROVE m[Len(got) + i] = w[i]
      OBVIOUS
    <3>1. Len(got) + i \in 1..Len(got) + Len(w) /\ ~ (Len(got) + i <= Len(got))
          /\ Len(got) + i - Len(got) = i
      BY <1>1
    <3> QED
      BY <2>1, <3>1
  <2> QED
    BY <2>1, <2>2, <2>3, Zenon
<1>5. /\ \A i \in 1..Len(got) : i \in 1..Len(m)
      /\ \A i \in 1..Len(w) : Len(got) + i \in 1..Len(m)
  <2> HIDE DEF m
  <2> QED
    BY <1>1, <1>4
<1> HIDE DEF m
<1>6. m # <<>> /\ m[Len(m)] = l[Len(l)]
  <2>1. CASE p = Len(l) + 1
    <3>1. Len(w) = 0 /\ p > f /\ p - 1 = Len(l) /\ Len(m) = Len(got)
      BY <1>1, <1>2, <1>4, <2>1
    <3>2. l[Len(l)].id = cur
      BY <1>2, <3>1, Zenon
    <3>3. cur # 0
      BY <1>1, <3>2
    <3>4. got # <<>> /\ cur = got[Len(got)].id
      BY <3>3, Zenon DEF Knows
    <3>5. Len(got) \in 1..Len(got)
      BY <3>4, EventSequence
    <3>6. PICK k \in 1..Len(l) : got[Len(got)] = l[k]
      BY <3>5, Zenon DEF Knows
    <3>7. k = Len(l)
      <4>1. CASE k # Len(l)
        <5>1. k \in 1..Len(l)-1
          BY <1>1, <4>1
        <5>2. l[k].id < l[Len(l)].id /\ l[k].id = l[Len(l)].id
          BY <1>1, <1>3, <3>2, <3>4, <3>6, <5>1, Zenon
        <5> QED
          BY <1>1, <5>2
      <4> QED
        BY <4>1
    <3>8. m[Len(m)] = l[Len(l)]
      BY <1>4, <3>1, <3>5, <3>6, <3>7, Zenon
    <3> QED
      BY <1>4, <3>1, <3>5, <3>8, EventSequence
  <2>2. CASE p # Len(l) + 1
    <3>1. Len(w) \in 1..Len(w) /\ p + Len(w) - 1 = Len(l) /\ Len(m) # 0
      BY <1>1, <1>2, <1>4, <2>2
    <3>2. m[Len(m)] = l[Len(l)]
      BY <1>2, <1>4, <3>1, ZenonT(30)
    <3> QED
      BY <3>1, <3>2, EmptySeq
  <2> QED
    BY <2>1, <2>2
<1>7. ASSUME NEW id \in IdsOf(l)
      PROVE  id \in IdsOf(m) \/ id \in miss
  <2>1. PICK i \in 1..Len(l) : l[i].id = id
    BY DEF IdsOf
  <2>2. CASE i \in 1..p-1
    <3>1. CASE l[i].id \in miss
      BY <2>1, <3>1
    <3>2. CASE l[i].id \notin miss
      <4>1. l[i].id \in IdsOf(got)
        BY <1>2, <2>2, <3>2, Zenon DEF Knows
      <4>2. PICK k \in 1..Len(got) : got[k].id = id
        BY <2>1, <4>1 DEF IdsOf
      <4>3. k \in 1..Len(m) /\ m[k].id = id
        BY <1>4, <1>5, <4>2
      <4> QED
        BY <4>3 DEF IdsOf
    <3> QED
      BY <3>1, <3>2
  <2>3. CASE i \notin 1..p-1
    <3>1. i - p + 1 \in 1..Len(w) /\ p + (i - p + 1) - 1 = i
      BY <1>1, <1>2, <2>3
    <3>2. PICK k \in 1..Len(w) : p + k - 1 = i
      BY <3>1, Zenon
    <3>3. Len(got) + k \in 1..Len(m) /\ m[Len(got) + k].id = id
      BY <1>2, <1>4, <1>5, <2>1, <3>2
    <3> QED
      BY <3>3 DEF IdsOf
  <2> QED
    BY <2>2, <2>3
<1>8. ASSUME NEW id, id \in IdsOf(m) \/ id \in miss
      PROVE  id \in IdsOf(l)
  <2>1. miss \subseteq IdsOf(l)
    BY Zenon DEF Knows
  <2>2. ASSUME NEW i \in 1..Len(m)
        PROVE  \E k \in 1..Len(l) : m[i] = l[k]
    <3>1. CASE i \in 1..Len(got)
      BY <1>4, <3>1, Zenon DEF Knows
    <3>2. CASE i \notin 1..Len(got)
      <4>1. i - Len(got) \in 1..Len(w) /\ Len(got) + (i - Len(got)) = i
        BY <1>1, <1>4, <3>2
      <4>2. PICK k \in 1..Len(w) : Len(got) + k = i
        BY <4>1, Zenon
      <4>3. p + k - 1 \in 1..Len(l)
        BY <1>1, <1>2
      <4>4. m[i] = l[p + k - 1]
        BY <1>2, <1>4, <4>2, Zenon
      <4> QED
        BY <4>3, <4>4, Zenon
    <3> QED
      BY <3>1, <3>2
  <2>3. CASE id \in IdsOf(m)
    <3>1. PICK i \in 1..Len(m) : m[i].id = id
      BY <2>3 DEF IdsOf
    <3>2. PICK k \in 1..Len(l) : m[i] = l[k]
      BY <2>2
    <3> QED
      BY <3>1, <3>2 DEF IdsOf
  <2> QED
    BY <1>8, <2>1, <2>3
<1>9. IdsOf(l) = IdsOf(m) \cup miss
  BY <1>7, <1>8
<1>10. Complete(l, m, miss)
  BY <1>6, <1>9 DEF Complete
<1> QED
  BY <1>10 DEF m

\* The ids above a cursor that the deque has lost (Evicted, for any log and deque).
Lost(l, d, cur) == {id \in IdsOf(l) \ IdsOf(d) : id > cur}

\* A snapshot r divides the log: what is before it is known or lost, what is in it is neither.
Divides(l, cur, more, r, p) ==
  /\ r \in Seq(Events) /\ Len(r) = Len(l) - p + 1
  /\ \A i \in 1..Len(l) - p + 1 : r[i] = l[p + i - 1]
  /\ \A i \in 1..p-1 : l[i].id <= cur \/ l[i].id \in more
  /\ \A i \in p..Len(l) : l[i].id > cur /\ l[i].id \notin more

MissesMore(l, d, cur, miss, more) ==
  /\ miss \subseteq more /\ more \subseteq IdsOf(l) /\ more \cap IdsOf(d) = {}
  /\ \A id \in more \ miss : ~ (id <= cur)

LEMMA SnapshotDivides ==
  ASSUME NEW l \in Seq(Events), NEW d \in Seq(Events), NEW got \in Seq(Events), NEW cur \in Nat,
         NEW miss, IsTail(d, l), Chronicle(l), Knows(l, d, got, cur, miss)
  PROVE  /\ MissesMore(l, d, cur, miss, miss \cup Lost(l, d, cur))
         /\ \E p \in 1..Len(l) + 1 : Divides(l, cur, miss \cup Lost(l, d, cur), After(d, cur), p)
<1>0. Len(l) \in Nat /\ \A i \in 1..Len(l) : l[i].id \in Nat /\ l[i].id \in IdsOf(l)
  <2>1. \A i \in 1..Len(l) : l[i].id \in IdsOf(l)
    BY DEF IdsOf
  <2> QED
    BY <2>1, EventSequence
<1>1. miss \subseteq IdsOf(l) /\ miss \cap IdsOf(d) = {}
  BY Zenon DEF Knows
<1>2. Lost(l, d, cur) \subseteq IdsOf(l) /\ Lost(l, d, cur) \cap IdsOf(d) = {}
  BY DEF Lost
<1>3. \A id \in Lost(l, d, cur) : ~ (id <= cur)
  <2>1. \A id \in IdsOf(l) : id \in Nat
    BY EventSequence DEF IdsOf
  <2> QED
    BY <2>1 DEF Lost
<1>4. PICK p \in 1..Len(l) + 1 :
        /\ After(d, cur) \in Seq(Events) /\ Len(After(d, cur)) = Len(l) - p + 1
        /\ \A i \in 1..Len(l) - p + 1 : After(d, cur)[i] = l[p + i - 1]
        /\ \A i \in 1..p-1 : l[i].id <= cur \/ l[i].id \notin IdsOf(d)
        /\ \A i \in p..Len(l) : l[i].id > cur /\ l[i].id \in IdsOf(d)
  BY AfterOfLog, Zenon
<1>5. \A i \in 1..p-1 : l[i].id <= cur \/ l[i].id \in miss \cup Lost(l, d, cur)
  <2> SUFFICES ASSUME NEW i \in 1..p-1, ~ (l[i].id <= cur)
               PROVE  l[i].id \in Lost(l, d, cur)
    BY Zenon
  <2>1. l[i].id \in Nat /\ l[i].id \in IdsOf(l) /\ l[i].id \notin IdsOf(d)
    <3>1. i \in 1..Len(l)
      BY <1>0
    <3> QED
      BY <1>0, <1>4, <3>1, Zenon
  <2> QED
    BY <2>1 DEF Lost
<1>6. \A i \in p..Len(l) : l[i].id > cur /\ l[i].id \notin miss \cup Lost(l, d, cur)
  BY <1>1, <1>2, <1>4, Zenon
<1>7. Divides(l, cur, miss \cup Lost(l, d, cur), After(d, cur), p)
  BY <1>4, <1>5, <1>6, Zenon DEF Divides
<1>8. MissesMore(l, d, cur, miss, miss \cup Lost(l, d, cur))
  BY <1>1, <1>2, <1>3 DEF MissesMore
<1> QED
  BY <1>7, <1>8, Zenon

\* A generator that starts from the client's cursor streams what the client lacks.
LEMMA SnapshotStreams ==
  ASSUME NEW l \in Seq(Events), NEW d \in Seq(Events), NEW got \in Seq(Events), NEW cur \in Nat,
         NEW miss, IsTail(d, l), Chronicle(l), Knows(l, d, got, cur, miss)
  PROVE  /\ Knows(l, d, got, cur, miss \cup Lost(l, d, cur))
         /\ \E p \in 1..Len(l) + 1 :
              /\ p = Len(l) - Len(After(d, cur)) + 1
              /\ Streams(l, cur, miss \cup Lost(l, d, cur), <<>>, p, p, p - 1)
<1> DEFINE more == miss \cup Lost(l, d, cur)
<1>0. PICK p \in 1..Len(l) + 1 : Divides(l, cur, miss \cup Lost(l, d, cur), After(d, cur), p)
  BY SnapshotDivides, Zenon
<1>1. MissesMore(l, d, cur, miss, miss \cup Lost(l, d, cur))
  BY SnapshotDivides, Zenon
<1>2. Divides(l, cur, more, After(d, cur), p) /\ MissesMore(l, d, cur, miss, more)
  BY <1>0, <1>1
<1> HIDE DEF more
<1>3. Len(l) \in Nat
  BY LenProperties
<1>4. Knows(l, d, got, cur, more)
  <2>1. \A i \in 1..Len(l) : l[i].id <= cur => (l[i].id \in IdsOf(got) <=> l[i].id \notin more)
    <3> SUFFICES ASSUME NEW i \in 1..Len(l), l[i].id <= cur
                 PROVE  l[i].id \in IdsOf(got) <=> l[i].id \notin more
      OBVIOUS
    <3>1. l[i].id \in miss <=> l[i].id \in more
      BY <1>2, Zenon DEF MissesMore
    <3> QED
      BY <3>1, Zenon DEF Knows
  <2> QED
    BY <1>2, <2>1, Zenon DEF Knows, MissesMore
<1>5. Streams(l, cur, more, <<>>, p, p, p - 1)
  <2>1. p \in p..(p - 1)+1 /\ p - 1 <= Len(l) /\ ~ (p > p)
    BY <1>3
  <2>2. Len(<<>>) = (p - 1) - p + 1 /\ \A i \in 1..Len(<<>>) : FALSE
    <3>1. Len(<<>>) = 0
      BY EmptySeq
    <3> QED
      BY <3>1
  <2> QED
    BY <1>2, <2>1, <2>2, Zenon DEF Streams, Divides
<1>6. p = Len(l) - Len(After(d, cur)) + 1
  <2>1. \A k \in Int : k = Len(l) - p + 1 => p = Len(l) - k + 1
    BY <1>3
  <2>2. Len(l) - p + 1 \in Int
    BY <1>3
  <2> QED
    BY <1>2, <2>1, <2>2, Zenon DEF Divides
<1> QED
  BY <1>4, <1>5, <1>6, Zenon DEF more

\* A polled answer brings the client to the end of the log.
LEMMA SnapshotAnswers ==
  ASSUME NEW l \in Seq(Events), NEW d \in Seq(Events), NEW got \in Seq(Events), NEW cur \in Nat,
         NEW miss, IsTail(d, l), Chronicle(l), Knows(l, d, got, cur, miss),
         NEW answer, answer = After(d, cur), answer # <<>>
  PROVE  /\ got \o answer \in Seq(Events)
         /\ answer[Len(answer)] \in Events
         /\ Knows(l, d, got \o answer, answer[Len(answer)].id, miss \cup Lost(l, d, cur))
<1> DEFINE more == miss \cup Lost(l, d, cur)
           n == Len(answer)
           m == got \o answer
<1>0. PICK p \in 1..Len(l) + 1 : Divides(l, cur, miss \cup Lost(l, d, cur), After(d, cur), p)
  BY SnapshotDivides, Zenon
<1>1. MissesMore(l, d, cur, miss, miss \cup Lost(l, d, cur))
  BY SnapshotDivides, Zenon
<1>2. Divides(l, cur, more, answer, p) /\ MissesMore(l, d, cur, miss, more)
  BY <1>0, <1>1
<1> HIDE DEF more
<1>3. /\ Len(l) \in Nat /\ Len(got) \in Nat /\ answer \in Seq(Events)
      /\ n \in Nat /\ n >= 1 /\ answer[n] \in Events
  <2>1. answer \in Seq(Events)
    BY <1>2, Zenon DEF Divides
  <2>2. /\ Len(l) \in Nat /\ Len(got) \in Nat /\ Len(answer) \in Nat /\ Len(answer) >= 1
        /\ \A i \in 1..Len(answer) : answer[i] \in Events
    BY <2>1, EventSequence
  <2> QED
    BY <2>1, <2>2
<1>4. /\ m \in Seq(Events) /\ Len(m) = Len(got) + n
      /\ \A i \in 1..Len(got) + n : m[i] = IF i <= Len(got) THEN got[i] ELSE answer[i - Len(got)]
  BY <1>3, ConcatProperties, Zenon
<1>5. n = Len(l) - p + 1 /\ \A i \in 1..n : answer[i] = l[p + i - 1]
  BY <1>2 DEF Divides
<1> HIDE DEF n, m
<1>6. \A i \in 1..Len(got) : m[i] = got[i]
  BY <1>3, <1>4
<1>7. \A i \in 1..n : m[Len(got) + i] = l[p + i - 1]
  <2> SUFFICES ASSUME NEW i \in 1..n PROVE m[Len(got) + i] = l[p + i - 1]
    OBVIOUS
  <2>1. Len(got) + i \in 1..Len(got) + n /\ ~ (Len(got) + i <= Len(got))
        /\ Len(got) + i - Len(got) = i
    BY <1>3
  <2>2. m[Len(got) + i] = answer[i]
    BY <1>4, <2>1
  <2> QED
    BY <1>5, <2>2
<1>8. p \in 1..Len(l) /\ n \in 1..Len(l) - p + 1 /\ n \in 1..n
  BY <1>3, <1>5
<1>9. Knows(l, d, m, l[p + n - 1].id, more)
  <2>1. /\ \A i \in 1..p-1 : l[i].id <= cur \/ l[i].id \in more
        /\ \A i \in p..Len(l) : l[i].id > cur /\ l[i].id \notin more
    BY <1>2, Zenon DEF Divides
  <2>2. /\ miss \subseteq more /\ more \subseteq IdsOf(l) /\ more \cap IdsOf(d) = {}
        /\ \A id \in more \ miss : ~ (id <= cur)
    BY <1>2, Zenon DEF MissesMore
  <2> QED
    BY <1>4, <1>6, <1>7, <1>8, <2>1, <2>2, KnowsMore
<1>10. answer[n] = l[p + n - 1]
  BY <1>5, <1>8, Zenon
<1>11. Knows(l, d, m, answer[n].id, more)
  BY <1>9, <1>10
<1> QED
  BY <1>3, <1>4, <1>11, Zenon DEF m, n, more
-----------------------------------------------------------------------------
\* What the invariant says of the state of a client and of a session.
LEMMA ClientState ==
  ASSUME SocketIInv, NEW c \in Clients
  PROVE  /\ watched[c] \in Jobs
         /\ log[watched[c]] \in Seq(Events) /\ events[watched[c]] \in Seq(Events)
         /\ received[c] \in Seq(Events) /\ cursor[c] \in Nat
         /\ IsTail(events[watched[c]], log[watched[c]])
         /\ Chronicle(log[watched[c]])
         /\ KnowsAll(c)
<1>1. /\ watched[c] \in Jobs
      /\ log[watched[c]] \in Seq(Events) /\ events[watched[c]] \in Seq(Events)
      /\ received[c] \in Seq(Events)
  BY DEF SocketIInv, SocketTypeOK, TypeOK
<1>2. cursor[c] \in Nat
  BY HubAssumption DEF SocketIInv, SocketTypeOK, Cursors
<1>3. IsTail(events[watched[c]], log[watched[c]]) /\ Chronicle(log[watched[c]]) /\ KnowsAll(c)
  BY <1>1, Zenon DEF SocketIInv, IInv, DequeIsTail, Chronicles
<1> QED
  BY <1>1, <1>2, <1>3, Zenon

LEMMA SessionState ==
  ASSUME SocketIInv, NEW s \in Sessions
  PROVE  /\ job[s] \in Jobs /\ log[job[s]] \in Seq(Events) /\ wire[s] \in Seq(Events)
         /\ yielded[s] \in Seq(Events) /\ after[s] \in Nat
         /\ first[s] \in Nat \ {0} /\ Len(yielded[s]) \in Nat /\ SentTo(s) \in Int
         /\ SessionIInv(s)
<1>1. /\ job[s] \in Jobs /\ log[job[s]] \in Seq(Events) /\ wire[s] \in Seq(Events)
      /\ yielded[s] \in Seq(Events)
  BY DEF SocketIInv, SocketTypeOK, TypeOK
<1>2. after[s] \in Nat
  BY HubAssumption DEF SocketIInv, SocketTypeOK, Cursors
<1>3. SessionIInv(s) /\ first[s] \in Nat \ {0}
  BY DEF SocketIInv, InStep, SessionIInv
<1>4. Len(yielded[s]) \in Nat
  BY <1>1, LenProperties
<1>5. SentTo(s) \in Int
  <2>1. \A f, n, k \in Int : f + n - k \in Int
    OBVIOUS
  <2>2. first[s] \in Int /\ Len(yielded[s]) \in Int /\ (IF handler[s] = "send" THEN 2 ELSE 1) \in Int
    BY <1>3, <1>4
  <2> QED
    BY <2>1, <2>2, Zenon DEF SentTo
<1> QED
  BY <1>1, <1>2, <1>3, <1>4, <1>5

\* A step that leaves a session or a client as it is.
SameSession(s) ==
  /\ pc'[s] = pc[s] /\ job'[s] = job[s] /\ first'[s] = first[s] /\ yielded'[s] = yielded[s]
  /\ handler'[s] = handler[s] /\ after'[s] = after[s] /\ link'[s] = link[s]
  /\ wire'[s] = wire[s] /\ closed'[s] = closed[s]

SameClient(c) ==
  /\ received'[c] = received[c] /\ cursor'[c] = cursor[c] /\ missed'[c] = missed[c]
  /\ session_of'[c] = session_of[c]

LEMMA SessionFrame ==
  ASSUME NEW s \in Sessions, SessionIInv(s), SameSession(s), log' = log
  PROVE  SessionIInv(s)'
BY DEF SessionIInv, SameSession

LEMMA ConnectionFrame ==
  ASSUME NEW c \in Clients, NEW s \in Sessions, ConnectionIInv(c, s), SameSession(s), SameClient(c),
         log' = log, watched' = watched
  PROVE  ConnectionIInv(c, s)'
<1>1. SentTo(s)' = SentTo(s)
  BY DEF SentTo, SameSession
<1> QED
  BY <1>1 DEF ConnectionIInv, SameSession, SameClient

\* A step that changes one session s and some clients, who are at s or at no session
\* afterwards, leaves the others in step.
LEMMA OthersStayInStep ==
  ASSUME SocketIInv, IInv', SocketTypeOK', log' = log, events' = events, watched' = watched,
         NEW s, NEW C \in SUBSET Clients,
         \A t \in Sessions \ {s} : SameSession(t),
         s \in Sessions => SessionIInv(s)',
         \A c \in Clients \ C : SameClient(c) /\ session_of[c] # s,
         \A c \in C : KnowsAll(c)',
         \A c \in C : session_of'[c] # None => session_of'[c] = s,
         \A c \in C : session_of'[c] = s /\ s \in Sessions => ConnectionIInv(c, s)',
         \A c, e \in C : session_of'[c] # None /\ session_of'[c] = session_of'[e] => c = e
  PROVE  SocketIInv'
<1>1. Chronicles'
  BY DEF SocketIInv, Chronicles
<1>2. \A c \in Clients : KnowsAll(c)'
  <2>1. ASSUME NEW c \in Clients \ C
        PROVE  KnowsAll(c)'
    <3>1. KnowsAll(c) /\ SameClient(c)
      BY DEF SocketIInv
    <3> QED
      BY <3>1 DEF KnowsAll, SameClient
  <2> QED
    BY <2>1
<1>3. \A t \in Sessions : SessionIInv(t)'
  <2>1. ASSUME NEW t \in Sessions \ {s}
        PROVE  SessionIInv(t)'
    <3>1. SessionIInv(t) /\ SameSession(t)
      BY DEF SocketIInv, InStep
    <3> QED
      BY <3>1, SessionFrame
  <2> QED
    BY <2>1
<1>4. \A c \in Clients : session_of'[c] \in Sessions \cup {None}
  BY DEF SocketTypeOK
<1>5. ASSUME NEW c \in Clients, NEW t \in Sessions, session_of'[c] = t
      PROVE  ConnectionIInv(c, t)'
  <2>1. CASE c \in C
    <3>1. t = s
      BY <1>5, <2>1, SocketAssumption
    <3>2. ConnectionIInv(c, s)'
      BY <1>5, <2>1, <3>1
    <3> QED
      BY <3>1, <3>2
  <2>2. CASE c \notin C
    <3>1. SameClient(c) /\ session_of[c] # s /\ session_of[c] = t
      BY <1>5, <2>2 DEF SameClient
    <3>2. ConnectionIInv(c, t) /\ SameSession(t)
      BY <3>1 DEF SocketIInv, InStep
    <3> QED
      BY <3>1, <3>2, ConnectionFrame
  <2> QED
    BY <2>1, <2>2
<1>6. OwnConnections'
  <2> SUFFICES ASSUME NEW c \in Clients, NEW e \in Clients, session_of'[c] # None,
                      session_of'[c] = session_of'[e]
               PROVE  c = e
    BY DEF OwnConnections
  <2>1. CASE c \in C /\ e \in C
    BY <2>1
  <2>2. CASE c \notin C /\ e \notin C
    <3>1. session_of[c] # None /\ session_of[c] = session_of[e]
      BY <2>2 DEF SameClient
    <3> QED
      BY <3>1 DEF SocketIInv, OwnConnections
  <2>3. CASE c \in C /\ e \notin C
    <3>1. session_of'[e] # s
      BY <2>3 DEF SameClient
    <3> QED
      BY <2>3, <3>1
  <2>4. CASE c \notin C /\ e \in C
    <3>1. session_of'[c] # s
      BY <2>4 DEF SameClient
    <3> QED
      BY <2>4, <3>1
  <2> QED
    BY <2>1, <2>2, <2>3, <2>4, Zenon
<1>7. InStep'
  BY <1>3, <1>5 DEF InStep
<1> QED
  BY <1>1, <1>2, <1>6, <1>7 DEF SocketIInv

\* A step of one session that no client takes part in.
LEMMA SessionStep ==
  ASSUME SocketIInv, IInv', SocketTypeOK', log' = log, events' = events,
         UNCHANGED <<watched, session_of, cursor, received, missed>>,
         NEW s \in Sessions,
         \A t \in Sessions \ {s} : SameSession(t),
         SessionIInv(s)',
         \A c \in Clients : session_of[c] = s => ConnectionIInv(c, s)'
  PROVE  SocketIInv'
<1> DEFINE C == {c \in Clients : session_of[c] = s}
<1>1. /\ watched' = watched /\ session_of' = session_of /\ cursor' = cursor
      /\ received' = received /\ missed' = missed
  OBVIOUS
<1>2. \A c \in Clients : KnowsAll(c)'
  BY <1>1 DEF SocketIInv, KnowsAll
<1>3. \A c \in Clients \ C : SameClient(c) /\ session_of[c] # s
  BY <1>1 DEF SameClient
<1>4. /\ \A c \in C : session_of'[c] # None => session_of'[c] = s
      /\ \A c \in C : session_of'[c] = s /\ s \in Sessions => ConnectionIInv(c, s)'
      /\ \A c, e \in C : session_of'[c] # None /\ session_of'[c] = session_of'[e] => c = e
  BY <1>1 DEF SocketIInv, OwnConnections
<1>5. C \in SUBSET Clients
  OBVIOUS
<1> HIDE DEF C
<1> QED
  BY <1>1, <1>2, <1>3, <1>4, <1>5, OthersStayInStep

LEMMA HubStutter == ASSUME IInv, UNCHANGED vars PROVE IInv'
  BY NextIInv

\* UNCHANGED on the variables of the model's groups.
LEMMA Unchanged ==
  /\ UNCHANGED vars => /\ nextId' = nextId /\ events' = events /\ subscribers' = subscribers
                       /\ pc' = pc /\ job' = job /\ replay' = replay /\ queue' = queue
                       /\ log' = log /\ first' = first /\ yielded' = yielded
  /\ UNCHANGED hubStep => /\ after' = after /\ link' = link /\ wire' = wire /\ closed' = closed
                          /\ drops' = drops /\ watched' = watched /\ session_of' = session_of
                          /\ cursor' = cursor /\ received' = received
  /\ UNCHANGED socketVars => UNCHANGED hubStep /\ handler' = handler /\ missed' = missed
BY DEF vars, hubStep, socketVars

LEMMA ReadyIInv ==
  ASSUME SocketIInv, NEW s \in Sessions, HandlerReady(s)
  PROVE  SocketIInv'
<1>1. /\ handler[s] = "accepted" /\ UNCHANGED vars /\ UNCHANGED hubStep /\ missed' = missed
      /\ handler' = [handler EXCEPT ![s] = IF link[s] = "reset" THEN "none" ELSE "ready"]
  BY DEF HandlerReady
<1>2. IInv'
  BY <1>1, HubStutter DEF SocketIInv
<1>3. SocketTypeOK'
  BY <1>1, <1>2, Unchanged DEF SocketIInv, SocketTypeOK, IInv
<1>4. \A t \in Sessions \ {s} : SameSession(t)
  BY <1>1, Unchanged DEF SameSession, SocketIInv, SocketTypeOK
<1>5. /\ handler'[s] \in {"none", "ready"} /\ link[s] # "reset" => handler'[s] = "ready"
  BY <1>1 DEF SocketIInv, SocketTypeOK
<1>6. SessionIInv(s)'
  <2>1. SessionIInv(s)
    BY SessionState
  <2> QED
    BY <1>1, <1>5, <2>1, Unchanged DEF SessionIInv
<1>7. ASSUME NEW c \in Clients, session_of[c] = s
      PROVE  ConnectionIInv(c, s)'
  <2>1. ConnectionIInv(c, s)
    BY <1>7 DEF SocketIInv, InStep
  <2> QED
    BY <1>1, <1>5, <2>1, Unchanged DEF ConnectionIInv
<1>8. log' = log /\ events' = events /\ UNCHANGED <<watched, session_of, cursor, received, missed>>
  BY <1>1, Unchanged
<1> QED
  BY <1>2, <1>3, <1>4, <1>6, <1>7, <1>8, SessionStep

LEMMA SendFailsIInv ==
  ASSUME SocketIInv, NEW s \in Sessions, HandlerSendFails(s)
  PROVE  SocketIInv'
<1>1. /\ handler[s] = "send" /\ link[s] = "reset" /\ Abandon(s)
      /\ UNCHANGED hubStep /\ missed' = missed
      /\ handler' = [handler EXCEPT ![s] = "none"]
  BY DEF HandlerSendFails
<1>2. /\ IInv' /\ log' = log /\ events' = events /\ job' = job /\ first' = first
      /\ yielded' = yielded /\ pc' = [pc EXCEPT ![s] = "closing"]
  BY <1>1, LeaveIInv DEF SocketIInv, Abandon
<1>3. SocketTypeOK'
  BY <1>1, <1>2, Unchanged DEF SocketIInv, SocketTypeOK, IInv
<1>4. \A t \in Sessions \ {s} : SameSession(t)
  BY <1>1, <1>2, Unchanged DEF SameSession, SocketIInv, SocketTypeOK, TypeOK
<1>5. handler'[s] = "none" /\ pc'[s] = "closing"
  BY <1>1, <1>2 DEF SocketIInv, SocketTypeOK, TypeOK
<1>6. SessionIInv(s)'
  <2>1. SessionIInv(s)
    BY SessionState
  <2> QED
    BY <1>2, <1>5, <2>1 DEF SessionIInv
<1>7. ASSUME NEW c \in Clients, session_of[c] = s
      PROVE  FALSE
  BY <1>1, <1>7 DEF SocketIInv, InStep, ConnectionIInv
<1>8. UNCHANGED <<watched, session_of, cursor, received, missed>>
  BY <1>1, Unchanged
<1> QED
  BY <1>2, <1>3, <1>4, <1>6, <1>7, <1>8, SessionStep

LEMMA CleanupIInv ==
  ASSUME SocketIInv, NEW s \in Sessions, HandlerCleanup(s)
  PROVE  SocketIInv'
<1>1. Unregister(s) /\ UNCHANGED socketVars
  BY DEF HandlerCleanup
<1>2. /\ IInv' /\ log' = log /\ events' = events /\ job' = job /\ first' = first
      /\ yielded' = yielded /\ pc' = [pc EXCEPT ![s] = "idle"] /\ pc[s] = "closing"
  BY <1>1, LeaveIInv DEF SocketIInv, Unregister
<1>3. SocketTypeOK'
  BY <1>1, <1>2, Unchanged DEF SocketIInv, SocketTypeOK, IInv
<1>4. \A t \in Sessions \ {s} : SameSession(t)
  BY <1>1, <1>2, Unchanged DEF SameSession, SocketIInv, SocketTypeOK, TypeOK
<1>5. pc'[s] = "idle" /\ handler' = handler
  BY <1>1, <1>2, Unchanged DEF SocketIInv, SocketTypeOK, TypeOK
<1>6. SessionIInv(s)'
  <2>1. SessionIInv(s)
    BY SessionState
  <2> QED
    BY <1>2, <1>5, <2>1 DEF SessionIInv
<1>7. ASSUME NEW c \in Clients, session_of[c] = s
      PROVE  ConnectionIInv(c, s)'
  <2>1. ConnectionIInv(c, s)
    BY <1>7 DEF SocketIInv, InStep
  <2>2. SentTo(s)' = SentTo(s)
    BY <1>2, <1>5 DEF SentTo
  <2> QED
    BY <1>1, <1>2, <2>1, <2>2, Unchanged DEF ConnectionIInv
<1>8. UNCHANGED <<watched, session_of, cursor, received, missed>>
  BY <1>1, Unchanged
<1> QED
  BY <1>2, <1>3, <1>4, <1>6, <1>7, <1>8, SessionStep

LEMMA NoticeIInv ==
  ASSUME SocketIInv, NEW s \in Sessions, Notice(s)
  PROVE  SocketIInv'
<1>1. /\ link[s] = "down" /\ link' = [link EXCEPT ![s] = "reset"] /\ UNCHANGED vars
      /\ UNCHANGED <<handler, after, wire, closed, drops, watched, session_of, cursor, received, missed>>
  BY DEF Notice
<1>2. IInv'
  BY <1>1, HubStutter DEF SocketIInv
<1>3. SocketTypeOK'
  BY <1>1, <1>2 DEF SocketIInv, SocketTypeOK, IInv
<1>4. \A t \in Sessions \ {s} : SameSession(t)
  BY <1>1, Unchanged DEF SameSession, SocketIInv, SocketTypeOK
<1>5. SessionIInv(s)'
  <2>1. SessionIInv(s)
    BY SessionState
  <2> QED
    BY <1>1, <2>1, Unchanged DEF SessionIInv
<1>6. ASSUME NEW c \in Clients, session_of[c] = s
      PROVE  FALSE
  BY <1>1, <1>6 DEF SocketIInv, InStep, ConnectionIInv
<1>7. log' = log /\ events' = events
  BY <1>1, Unchanged
<1> QED
  BY <1>1, <1>2, <1>3, <1>4, <1>5, <1>6, <1>7, SessionStep

LEMMA ConnectIInv ==
  ASSUME SocketIInv, NEW c \in Clients, NEW s \in Sessions, Connect(c, s)
  PROVE  SocketIInv'
<1>1. /\ session_of[c] = None /\ handler[s] = "none" /\ pc[s] = "idle"
      /\ \A d \in Clients : session_of[d] # s
      /\ session_of' = [session_of EXCEPT ![c] = s]
      /\ handler' = [handler EXCEPT ![s] = "accepted"]
      /\ after' = [after EXCEPT ![s] = cursor[c]]
      /\ job' = [job EXCEPT ![s] = watched[c]]
      /\ link' = [link EXCEPT ![s] = "up"]
      /\ wire' = [wire EXCEPT ![s] = <<>>]
      /\ closed' = [closed EXCEPT ![s] = FALSE]
  BY DEF Connect
<1>2. /\ nextId' = nextId /\ events' = events /\ subscribers' = subscribers /\ pc' = pc
      /\ replay' = replay /\ queue' = queue /\ log' = log /\ first' = first /\ yielded' = yielded
      /\ drops' = drops /\ watched' = watched /\ cursor' = cursor /\ received' = received
      /\ missed' = missed
  BY DEF Connect
<1>3. watched[c] \in Jobs /\ cursor[c] \in Cursors
  BY DEF SocketIInv, SocketTypeOK
<1>4. job'[s] = watched[c] /\ \A t \in Sessions \ {s} : job'[t] = job[t]
  BY <1>1 DEF SocketIInv, SocketTypeOK, TypeOK
<1>5. IInv'
  <2>1. TypeOK'
    BY <1>1, <1>2, <1>3 DEF SocketIInv, SocketTypeOK, TypeOK
  <2>2. LogOrdered' /\ DequeIsTail'
    BY <1>2 DEF SocketIInv, IInv, LogOrdered, DequeIsTail, IsTail
  <2>3. Registered'
    BY <1>1, <1>2, <1>4 DEF SocketIInv, IInv, Registered
  <2>4. NoGapNoRepeat'
    BY <1>1, <1>2, <1>4 DEF SocketIInv, IInv, NoGapNoRepeat
  <2> QED
    BY <2>1, <2>2, <2>3, <2>4 DEF IInv
<1>6. SocketTypeOK'
  <2>1. <<>> \in Seq(Events)
    BY EmptySeq
  <2>2. TypeOK'
    BY <1>5 DEF IInv
  <2> QED
    BY <1>1, <1>2, <1>3, <2>1, <2>2 DEF SocketIInv, SocketTypeOK
<1>7. \A t \in Sessions \ {s} : SameSession(t)
  BY <1>1, <1>2, <1>4 DEF SameSession, SocketIInv, SocketTypeOK
<1>8. /\ handler'[s] = "accepted" /\ after'[s] = cursor[c] /\ link'[s] = "up" /\ wire'[s] = <<>>
      /\ closed'[s] = FALSE /\ session_of'[c] = s
      /\ \A d \in Clients \ {c} : session_of'[d] = session_of[d]
  BY <1>1 DEF SocketIInv, SocketTypeOK
<1>9. SessionIInv(s)'
  <2>1. SessionIInv(s)
    BY SessionState
  <2> QED
    BY <1>1, <1>2, <1>8, <2>1 DEF SessionIInv
<1>10. ConnectionIInv(c, s)'
  BY <1>2, <1>4, <1>8 DEF ConnectionIInv
<1>11. \A d \in Clients \ {c} : SameClient(d) /\ session_of[d] # s
  BY <1>1, <1>2, <1>8 DEF SameClient
<1>12. KnowsAll(c)'
  BY <1>2 DEF SocketIInv, KnowsAll
<1>13. {c} \in SUBSET Clients
  OBVIOUS
<1>14. /\ \A d \in {c} : KnowsAll(d)'
       /\ \A d \in {c} : session_of'[d] # None => session_of'[d] = s
       /\ \A d \in {c} : session_of'[d] = s /\ s \in Sessions => ConnectionIInv(d, s)'
       /\ \A d, e \in {c} : session_of'[d] # None /\ session_of'[d] = session_of'[e] => d = e
  BY <1>8, <1>10, <1>12
<1> QED
  BY <1>2, <1>5, <1>6, <1>7, <1>9, <1>11, <1>13, <1>14, OthersStayInStep

\* A client that leaves its session: the session's wire and link may change with it.
LEMMA ClientLeaves ==
  ASSUME SocketIInv, SocketTypeOK', UNCHANGED <<vars, handler, after, closed, watched, cursor, received, missed>>,
         NEW c \in Clients, NEW s \in Sessions, session_of[c] = s,
         session_of' = [session_of EXCEPT ![c] = None],
         \A t \in Sessions \ {s} : link'[t] = link[t] /\ wire'[t] = wire[t]
  PROVE  SocketIInv'
<1>1. /\ UNCHANGED vars /\ handler' = handler /\ after' = after /\ closed' = closed
      /\ watched' = watched /\ cursor' = cursor /\ received' = received /\ missed' = missed
  OBVIOUS
<1>2. IInv'
  BY <1>1, HubStutter DEF SocketIInv
<1>3. session_of'[c] = None /\ \A d \in Clients \ {c} : session_of'[d] = session_of[d]
  BY DEF SocketIInv, SocketTypeOK
<1>4. \A t \in Sessions \ {s} : SameSession(t)
  BY <1>1, Unchanged DEF SameSession
<1>5. SessionIInv(s)'
  <2>1. SessionIInv(s)
    BY SessionState
  <2> QED
    BY <1>1, <2>1, Unchanged DEF SessionIInv
<1>6. \A d \in Clients \ {c} : SameClient(d) /\ session_of[d] # s
  <2>1. s # None
    BY SocketAssumption
  <2> QED
    BY <1>1, <1>3, <2>1 DEF SameClient, SocketIInv, OwnConnections
<1>7. KnowsAll(c)'
  BY <1>1, Unchanged DEF SocketIInv, KnowsAll
<1>8. {c} \in SUBSET Clients
  OBVIOUS
<1>9. /\ \A d \in {c} : KnowsAll(d)'
      /\ \A d \in {c} : session_of'[d] # None => session_of'[d] = s
      /\ \A d \in {c} : session_of'[d] = s /\ s \in Sessions => ConnectionIInv(d, s)'
      /\ \A d, e \in {c} : session_of'[d] # None /\ session_of'[d] = session_of'[e] => d = e
  BY <1>3, <1>7, SocketAssumption
<1>10. log' = log /\ events' = events /\ watched' = watched
  BY <1>1, Unchanged
<1> DEFINE C == {c}
<1>11. /\ C \in SUBSET Clients
       /\ \A d \in Clients \ C : SameClient(d) /\ session_of[d] # s
       /\ \A d \in C : KnowsAll(d)'
       /\ \A d \in C : session_of'[d] # None => session_of'[d] = s
       /\ \A d \in C : session_of'[d] = s /\ s \in Sessions => ConnectionIInv(d, s)'
       /\ \A d, e \in C : session_of'[d] # None /\ session_of'[d] = session_of'[e] => d = e
  BY <1>6, <1>8, <1>9
<1> HIDE DEF C
<1> QED
  BY <1>2, <1>4, <1>5, <1>10, <1>11, OthersStayInStep, SMTT(60)

LEMMA DropIInv ==
  ASSUME SocketIInv, NEW c \in Clients, Drop(c)
  PROVE  SocketIInv'
<1>1. /\ session_of[c] # None /\ drops < MaxDrops /\ drops' = drops + 1
      /\ link' = [link EXCEPT ![session_of[c]] = "down"]
      /\ wire' = [wire EXCEPT ![session_of[c]] = <<>>]
      /\ session_of' = [session_of EXCEPT ![c] = None]
      /\ UNCHANGED <<vars, handler, after, closed, watched, cursor, received, missed>>
  BY DEF Drop
<1>2. PICK s \in Sessions : s = session_of[c]
  BY <1>1 DEF SocketIInv, SocketTypeOK
<1>3. IInv'
  BY <1>1, HubStutter DEF SocketIInv
<1>4. SocketTypeOK'
  <2>1. <<>> \in Seq(Events) /\ TypeOK'
    BY <1>3, EmptySeq DEF IInv
  <2>2. drops' \in 0..MaxDrops
    BY <1>1, SocketAssumption DEF SocketIInv, SocketTypeOK
  <2> QED
    BY <1>1, <2>1, <2>2 DEF SocketIInv, SocketTypeOK
<1>5. \A t \in Sessions \ {s} : link'[t] = link[t] /\ wire'[t] = wire[t]
  BY <1>1, <1>2 DEF SocketIInv, SocketTypeOK
<1> QED
  BY <1>1, <1>2, <1>4, <1>5, ClientLeaves

LEMMA ClosedIInv ==
  ASSUME SocketIInv, NEW c \in Clients, ClientClosed(c)
  PROVE  SocketIInv'
<1>1. /\ session_of[c] # None /\ wire' = wire /\ drops' = drops
      /\ link' = [link EXCEPT ![session_of[c]] = "reset"]
      /\ session_of' = [session_of EXCEPT ![c] = None]
      /\ UNCHANGED <<vars, handler, after, closed, watched, cursor, received, missed>>
  BY DEF ClientClosed
<1>2. PICK s \in Sessions : s = session_of[c]
  BY <1>1 DEF SocketIInv, SocketTypeOK
<1>3. IInv'
  BY <1>1, HubStutter DEF SocketIInv
<1>4. SocketTypeOK'
  <2>1. TypeOK'
    BY <1>3 DEF IInv
  <2> QED
    BY <1>1, <2>1 DEF SocketIInv, SocketTypeOK
<1>5. \A t \in Sessions \ {s} : link'[t] = link[t] /\ wire'[t] = wire[t]
  BY <1>1, <1>2 DEF SocketIInv, SocketTypeOK
<1> QED
  BY <1>1, <1>2, <1>4, <1>5, ClientLeaves

\* Before anything was sent on a connection its client receives nothing from it.
LEMMA WireStreams ==
  ASSUME SocketIInv, NEW c \in Clients, NEW s \in Sessions, session_of[c] = s, wire[s] # <<>>
  PROVE  /\ handler[s] \in {"next", "send", "none"} /\ job[s] = watched[c]
         /\ \E p \in 1..Len(log[job[s]]) + 1 :
              Streams(log[job[s]], cursor[c], missed[c], wire[s], first[s], p, SentTo(s))
<1>1. ConnectionIInv(c, s)
  BY DEF SocketIInv, InStep
<1>2. handler[s] \in {"next", "send", "none"}
  BY <1>1 DEF ConnectionIInv, SocketIInv, SocketTypeOK
<1> QED
  BY <1>1, <1>2 DEF ConnectionIInv

LEMMA ReceiveIInv ==
  ASSUME SocketIInv, NEW c \in Clients, ClientReceive(c)
  PROVE  SocketIInv'
<1>1. PICK s \in Sessions : s = session_of[c]
  BY DEF ClientReceive, SocketIInv, SocketTypeOK
<1>2. /\ wire[s] # <<>>
      /\ received' = [received EXCEPT ![c] = Append(received[c], Head(wire[s]))]
      /\ cursor' = [cursor EXCEPT ![c] = Head(wire[s]).id]
      /\ wire' = [wire EXCEPT ![s] = Tail(wire[s])]
      /\ UNCHANGED vars
      /\ UNCHANGED <<handler, after, link, closed, drops, watched, session_of, missed>>
  BY <1>1 DEF ClientReceive
<1>3. /\ handler' = handler /\ after' = after /\ link' = link /\ closed' = closed /\ drops' = drops
      /\ watched' = watched /\ session_of' = session_of /\ missed' = missed
      /\ log' = log /\ events' = events /\ job' = job /\ first' = first /\ yielded' = yielded
      /\ pc' = pc
  BY <1>2, Unchanged
<1>4. /\ log[job[s]] \in Seq(Events) /\ wire[s] \in Seq(Events) /\ first[s] \in Nat \ {0}
      /\ SentTo(s) \in Int /\ received[c] \in Seq(Events) /\ cursor[c] \in Nat
  BY SessionState, ClientState
<1>5. /\ Head(wire[s]) \in Events /\ Tail(wire[s]) \in Seq(Events)
      /\ Append(received[c], Head(wire[s])) \in Seq(Events)
  BY <1>2, <1>4, HeadTailProperties, AppendProperties
<1>6. /\ received'[c] = Append(received[c], Head(wire[s])) /\ cursor'[c] = Head(wire[s]).id
      /\ wire'[s] = Tail(wire[s])
      /\ \A d \in Clients \ {c} : received'[d] = received[d] /\ cursor'[d] = cursor[d]
      /\ \A t \in Sessions \ {s} : wire'[t] = wire[t]
  BY <1>2 DEF SocketIInv, SocketTypeOK
<1>7. IInv'
  BY <1>2, HubStutter DEF SocketIInv
<1>8. SocketTypeOK'
  <2>1. TypeOK' /\ Head(wire[s]).id \in Cursors
    BY <1>5, <1>7, HubAssumption DEF IInv, Events, EventIds, Cursors
  <2> QED
    BY <1>2, <1>3, <1>5, <2>1 DEF SocketIInv, SocketTypeOK
<1>9. /\ handler[s] \in {"next", "send", "none"} /\ job[s] = watched[c]
      /\ \E p \in 1..Len(log[job[s]]) + 1 :
           Streams(log[job[s]], cursor[c], missed[c], wire[s], first[s], p, SentTo(s))
  BY <1>1, <1>2, WireStreams
<1>10. PICK p \in 1..Len(log[job[s]]) + 1 :
         Streams(log[job[s]], cursor[c], missed[c], wire[s], first[s], p, SentTo(s))
  BY <1>9
<1>11. /\ p + 1 \in 1..Len(log[job[s]]) + 1
       /\ Knows(log[job[s]], events[job[s]], Append(received[c], Head(wire[s])), Head(wire[s]).id, missed[c])
       /\ Streams(log[job[s]], Head(wire[s]).id, missed[c], Tail(wire[s]), first[s], p + 1, SentTo(s))
  <2>1. Chronicle(log[job[s]])
    BY <1>9, ClientState
  <2>2. Knows(log[job[s]], events[job[s]], received[c], cursor[c], missed[c])
    BY <1>9, ClientState DEF KnowsAll
  <2> QED
    BY <1>2, <1>4, <1>10, <2>1, <2>2, StreamReceives
<1>12. KnowsAll(c)'
  BY <1>3, <1>6, <1>9, <1>11 DEF KnowsAll
<1>13. ConnectionIInv(c, s)'
  <2>1. ConnectionIInv(c, s)
    BY <1>1 DEF SocketIInv, InStep
  <2>2. SentTo(s)' = SentTo(s)
    BY <1>3 DEF SentTo
  <2>3. \E q \in 1..Len(log'[job'[s]]) + 1 :
          Streams(log'[job'[s]], cursor'[c], missed'[c], wire'[s], first'[s], q, SentTo(s)')
    BY <1>3, <1>6, <1>11, <2>2
  <2> QED
    BY <1>3, <1>9, <2>1, <2>2, <2>3 DEF ConnectionIInv
<1>14. \A t \in Sessions \ {s} : SameSession(t)
  BY <1>3, <1>6 DEF SameSession
<1>15. SessionIInv(s)'
  <2>1. SessionIInv(s)
    BY SessionState
  <2> QED
    BY <1>3, <2>1 DEF SessionIInv
<1> DEFINE C == {c}
<1>16. /\ C \in SUBSET Clients
       /\ \A d \in Clients \ C : SameClient(d) /\ session_of[d] # s
       /\ \A d \in C : KnowsAll(d)'
       /\ \A d \in C : session_of'[d] # None => session_of'[d] = s
       /\ \A d \in C : session_of'[d] = s /\ s \in Sessions => ConnectionIInv(d, s)'
       /\ \A d, e \in C : session_of'[d] # None /\ session_of'[d] = session_of'[e] => d = e
  <2>1. \A d \in Clients \ {c} : SameClient(d) /\ session_of[d] # s
    BY <1>1, <1>3, <1>6, SocketAssumption DEF SameClient, SocketIInv, OwnConnections
  <2> QED
    BY <1>1, <1>3, <1>12, <1>13, <2>1
<1> HIDE DEF C
<1> QED
  BY <1>3, <1>7, <1>8, <1>14, <1>15, <1>16, OthersStayInStep, SMTT(60)

LEMMA PollIInv ==
  ASSUME SocketIInv, NEW c \in Clients, Poll(c)
  PROVE  SocketIInv'
<1> DEFINE answer == After(events[watched[c]], cursor[c])
           lost == Evicted(watched[c], cursor[c])
<1>1. /\ session_of[c] = None /\ answer # <<>>
      /\ received' = [received EXCEPT ![c] = received[c] \o answer]
      /\ cursor' = [cursor EXCEPT ![c] = answer[Len(answer)].id]
      /\ missed' = [missed EXCEPT ![c] = missed[c] \cup lost]
      /\ UNCHANGED vars
      /\ UNCHANGED <<handler, after, link, wire, closed, drops, watched, session_of>>
  BY DEF Poll
<1>2. /\ handler' = handler /\ after' = after /\ link' = link /\ closed' = closed /\ drops' = drops
      /\ watched' = watched /\ session_of' = session_of /\ wire' = wire
      /\ log' = log /\ events' = events /\ job' = job /\ first' = first /\ yielded' = yielded
      /\ pc' = pc
  BY <1>1, Unchanged
<1>3. /\ received[c] \o answer \in Seq(Events)
      /\ answer[Len(answer)] \in Events
      /\ Knows(log[watched[c]], events[watched[c]], received[c] \o answer,
               answer[Len(answer)].id, missed[c] \cup lost)
  <2>1. /\ log[watched[c]] \in Seq(Events) /\ events[watched[c]] \in Seq(Events)
        /\ received[c] \in Seq(Events) /\ cursor[c] \in Nat
        /\ IsTail(events[watched[c]], log[watched[c]])
        /\ Chronicle(log[watched[c]])
        /\ Knows(log[watched[c]], events[watched[c]], received[c], cursor[c], missed[c])
    BY ClientState DEF KnowsAll
  <2>2. lost = Lost(log[watched[c]], events[watched[c]], cursor[c])
    BY DEF Lost, Evicted
  <2> HIDE DEF lost
  <2>3. answer = After(events[watched[c]], cursor[c]) /\ answer # <<>>
    BY <1>1
  <2> HIDE DEF answer
  <2> QED
    BY <2>1, <2>2, <2>3, SnapshotAnswers
<1> HIDE DEF answer
<1>4. /\ received'[c] = received[c] \o answer /\ cursor'[c] = answer[Len(answer)].id
      /\ missed'[c] = missed[c] \cup lost
      /\ \A d \in Clients \ {c} : /\ received'[d] = received[d] /\ cursor'[d] = cursor[d]
                                  /\ missed'[d] = missed[d]
  <2> HIDE DEF lost
  <2> QED
    BY <1>1 DEF SocketIInv, SocketTypeOK
<1>5. IInv'
  BY <1>1, HubStutter DEF SocketIInv
<1>6. SocketTypeOK'
  <2>1. TypeOK' /\ answer[Len(answer)].id \in Cursors
    BY <1>3, <1>5, HubAssumption DEF IInv, Events, EventIds, Cursors
  <2>2. lost \subseteq EventIds
    <3>1. \A id \in IdsOf(log[watched[c]]) : id \in EventIds
      <4>1. \A e \in Events : e.id \in EventIds
        BY DEF Events
      <4> QED
        BY <4>1, ClientState, EventSequence DEF IdsOf
    <3> QED
      BY <3>1 DEF Evicted
  <2> HIDE DEF lost
  <2> QED
    BY <1>1, <1>2, <1>3, <2>1, <2>2 DEF SocketIInv, SocketTypeOK
<1>7. KnowsAll(c)'
  BY <1>2, <1>3, <1>4 DEF KnowsAll
<1>8. InStep'
  <2>1. \A t \in Sessions : SameSession(t)
    BY <1>2 DEF SameSession
  <2>2. ASSUME NEW d \in Clients, NEW t \in Sessions, session_of'[d] = t
        PROVE  ConnectionIInv(d, t)'
    <3>1. d # c
      BY <1>1, <1>2, <2>2, SocketAssumption
    <3>2. ConnectionIInv(d, t) /\ SameClient(d)
      BY <1>2, <1>4, <2>2, <3>1 DEF SocketIInv, InStep, SameClient
    <3> QED
      BY <1>2, <2>1, <3>2, ConnectionFrame
  <2>3. ASSUME NEW t \in Sessions
        PROVE  SessionIInv(t)'
    BY <1>2, <2>1, SessionState, SessionFrame
  <2> QED
    BY <2>2, <2>3 DEF InStep
<1>9. \A d \in Clients : KnowsAll(d)'
  <2>1. ASSUME NEW d \in Clients \ {c}
        PROVE  KnowsAll(d)'
    BY <1>2, <1>4 DEF SocketIInv, KnowsAll
  <2> QED
    BY <1>7, <2>1
<1>10. Chronicles' /\ OwnConnections'
  BY <1>2 DEF SocketIInv, Chronicles, OwnConnections
<1> QED
  BY <1>5, <1>6, <1>8, <1>9, <1>10 DEF SocketIInv

LEMMA ChronicleGrows ==
  ASSUME NEW l \in Seq(Events), NEW e \in Events, Chronicle(l), ~ Finished(l),
         \A i \in 1..Len(l) : l[i].id < e.id
  PROVE  Chronicle(Append(l, e))
<1> DEFINE m == Append(l, e)
<1>1. /\ Len(m) = Len(l) + 1 /\ Len(l) \in Nat
      /\ \A i \in 1..Len(l) : m[i] = l[i]
      /\ m[Len(l) + 1] = e
  BY AppendProperties, LenProperties
<1> HIDE DEF m
<1>2. \A i \in 1..Len(m) : i < Len(m) => m[i].status \notin Terminal
  <2>1. \A i \in 1..Len(m) : i < Len(m) => i \in 1..Len(l)
    BY <1>1
  <2>2. \A i \in 1..Len(l) : l[i].status \notin Terminal
    BY Zenon DEF Finished
  <2> QED
    BY <1>1, <2>1, <2>2, Zenon
<1>3. ASSUME NEW k \in 1..Len(m), NEW i \in 1..k-1
      PROVE  m[i].id < m[k].id
  <2>1. i \in 1..Len(l)
    BY <1>1
  <2>2. CASE k \in 1..Len(l)
    <3>1. l[i].id < l[k].id
      BY <2>2 DEF Chronicle
    <3> QED
      BY <1>1, <2>1, <2>2, <3>1, Zenon
  <2>3. CASE k \notin 1..Len(l)
    <3>1. k = Len(l) + 1
      BY <1>1, <2>3
    <3> QED
      BY <1>1, <2>1, <3>1, Zenon
  <2> QED
    BY <2>2, <2>3
<1> QED
  BY <1>2, <1>3 DEF Chronicle, m

LEMMA PublishProgressIInv ==
  ASSUME SocketIInv, NEW j \in Jobs, NEW st \in Statuses, PublishProgress(j, st)
  PROVE  SocketIInv'
<1> DEFINE e == Stored(j, st)
<1>1. ~ Finished(log[j]) /\ Publish(j, st) /\ UNCHANGED socketVars
  BY DEF PublishProgress
<1>2. IInv'
  BY <1>1, PublishIInv DEF SocketIInv
<1>3. /\ handler' = handler /\ after' = after /\ link' = link /\ closed' = closed /\ drops' = drops
      /\ watched' = watched /\ session_of' = session_of /\ wire' = wire /\ cursor' = cursor
      /\ received' = received /\ missed' = missed
  BY <1>1, Unchanged
<1>4. SocketTypeOK'
  BY <1>2, <1>3 DEF SocketIInv, SocketTypeOK, IInv
<1>5. /\ log' = [log EXCEPT ![j] = Append(log[j], e)]
      /\ events' = [events EXCEPT ![j] = Retain(events[j], e)]
      /\ pc' = pc /\ job' = job /\ first' = first /\ yielded' = yielded
  BY <1>1 DEF Publish
<1>6. e \in Events /\ e.id = nextId + 1
  BY <1>1, HubAssumption DEF SocketIInv, IInv, TypeOK, Publish, Stored, Events, EventIds
<1>7. \A i \in 1..Len(log[j]) : log[j][i].id < e.id
  <2>1. log[j] \in Seq(Events) /\ nextId \in Nat
    BY HubAssumption DEF SocketIInv, IInv, TypeOK
  <2>2. \A i \in 1..Len(log[j]) : log[j][i].id \in Nat
    BY <2>1, EventSequence
  <2>3. \A i \in 1..Len(log[j]) : log[j][i].id <= nextId
    BY DEF SocketIInv, IInv, LogOrdered
  <2> QED
    BY <1>6, <2>1, <2>2, <2>3
<1> HIDE DEF e
<1>8. /\ log'[j] = Append(log[j], e) /\ events'[j] = Retain(events[j], e)
      /\ \A k \in Jobs \ {j} : log'[k] = log[k] /\ events'[k] = events[k]
      /\ log[j] \in Seq(Events) /\ events[j] \in Seq(Events)
  BY <1>5 DEF SocketIInv, IInv, TypeOK
<1>9. Chronicles'
  <2>1. Chronicle(Append(log[j], e))
    BY <1>1, <1>6, <1>7, <1>8, ChronicleGrows DEF SocketIInv, Chronicles
  <2>2. \A k \in Jobs \ {j} : Chronicle(log'[k])
    BY <1>8 DEF SocketIInv, Chronicles
  <2>3. Chronicle(log'[j])
    BY <1>8, <2>1
  <2>4. \A k \in Jobs : Chronicle(log'[k])
    BY <2>2, <2>3
  <2> QED
    BY <2>4 DEF Chronicles, Chronicle
<1>10. ASSUME NEW c \in Clients
       PROVE  /\ KnowsAll(c)'
              /\ watched[c] = j => cursor[c] < e.id
  <2>1. Knows(log[watched[c]], events[watched[c]], received[c], cursor[c], missed[c])
    BY ClientState DEF KnowsAll
  <2>2. received[c] \in Seq(Events) /\ cursor[c] \in Nat /\ watched[c] \in Jobs
    BY ClientState
  <2>3. CASE watched[c] = j
    <3>1. /\ Knows(Append(log[j], e), Retain(events[j], e), received[c], cursor[c], missed[c])
          /\ cursor[c] < e.id
      BY <1>6, <1>7, <1>8, <2>1, <2>2, <2>3, KnowsGrows
    <3> QED
      BY <1>3, <1>8, <2>3, <3>1 DEF KnowsAll
  <2>4. CASE watched[c] # j
    BY <1>3, <1>8, <2>1, <2>2, <2>4 DEF KnowsAll
  <2> QED
    BY <2>3, <2>4
<1>11. /\ Len(log'[j]) = Len(log[j]) + 1 /\ Len(log[j]) \in Nat
       /\ \A i \in 1..Len(log[j]) : log'[j][i] = log[j][i]
  BY <1>6, <1>8, AppendProperties, LenProperties
<1>12. ASSUME NEW t \in Sessions
       PROVE  SessionIInv(t)'
  <2>1. SessionIInv(t) /\ first[t] \in Nat \ {0} /\ job[t] \in Jobs
    BY SessionState
  <2>2. CASE job[t] # j
    BY <1>3, <1>5, <1>8, <2>1, <2>2 DEF SessionIInv
  <2>3. CASE job[t] = j
    <3>1. ASSUME NEW i \in 1..Len(yielded[t]), pc[t] = "open"
          PROVE  /\ first[t] + i - 1 <= Len(log'[j])
                 /\ yielded[t][i] = log'[j][first[t] + i - 1]
      <4>1. first[t] + i - 1 <= Len(log[j]) /\ yielded[t][i] = log[j][first[t] + i - 1]
        BY <2>1, <2>3, <3>1 DEF SessionIInv
      <4>2. first[t] + i - 1 \in 1..Len(log[j]) /\ first[t] + i - 1 <= Len(log'[j])
        BY <1>11, <2>1, <4>1
      <4> QED
        BY <1>11, <4>1, <4>2, Zenon
    <3> QED
      BY <1>3, <1>5, <2>1, <2>3, <3>1 DEF SessionIInv
  <2> QED
    BY <2>2, <2>3
<1>13. ASSUME NEW c \in Clients, NEW t \in Sessions, session_of'[c] = t
       PROVE  ConnectionIInv(c, t)'
  <2>1. ConnectionIInv(c, t) /\ job[t] = watched[c] /\ job[t] \in Jobs
    BY <1>3, <1>13, SessionState DEF SocketIInv, InStep, ConnectionIInv
  <2>2. SentTo(t)' = SentTo(t)
    BY <1>3, <1>5 DEF SentTo
  <2>3. CASE job[t] # j
    BY <1>3, <1>5, <1>8, <2>1, <2>2, <2>3 DEF ConnectionIInv
  <2>4. CASE job[t] = j
    <3>1. ~ closed[t]
      <4>1. CASE closed[t]
        <5>1. /\ SentTo(t) = Len(log[j]) /\ SentTo(t) >= first[t] /\ first[t] \in Nat \ {0}
              /\ log[j][SentTo(t)].status \in Terminal
          BY <2>1, <2>4, <4>1, SessionState DEF ConnectionIInv
        <5>2. SentTo(t) \in 1..Len(log[j])
          BY <1>11, <5>1
        <5> QED
          BY <1>1, <5>1, <5>2 DEF Finished
      <4> QED
        BY <4>1
    <3>2. ASSUME NEW p \in 1..Len(log[j]) + 1,
                 Streams(log[j], cursor[c], missed[c], wire[t], first[t], p, SentTo(t))
          PROVE  /\ p \in 1..Len(log'[j]) + 1
                 /\ Streams(log'[j], cursor[c], missed[c], wire[t], first[t], p, SentTo(t))
      <4>1. /\ wire[t] \in Seq(Events) /\ first[t] \in Nat \ {0} /\ SentTo(t) \in Int
            /\ cursor[c] \in Nat /\ cursor[c] < e.id
        BY <1>10, <2>1, <2>4, SessionState, ClientState
      <4>2. missed[c] \subseteq IdsOf(log[j])
        <5>1. missed[c] \subseteq IdsOf(log[watched[c]])
          BY ClientState, Zenon DEF KnowsAll, Knows
        <5> QED
          BY <2>1, <2>4, <5>1
      <4>3. Streams(Append(log[j], e), cursor[c], missed[c], wire[t], first[t], p, SentTo(t))
        <5>1. p \in Nat
          BY <1>11
        <5> QED
          BY <1>6, <1>7, <1>8, <3>2, <4>1, <4>2, <5>1, StreamsGrow, Zenon
      <4> QED
        BY <1>8, <1>11, <4>3
    <3> QED
      BY <1>3, <1>5, <2>1, <2>2, <2>4, <3>1, <3>2 DEF ConnectionIInv
  <2> QED
    BY <2>3, <2>4
<1>14. OwnConnections'
  BY <1>3 DEF SocketIInv, OwnConnections
<1>15. InStep'
  BY <1>12, <1>13 DEF InStep
<1> QED
  BY <1>2, <1>4, <1>9, <1>10, <1>14, <1>15 DEF SocketIInv

LEMMA HandlerSubscribeIInv ==
  ASSUME SocketIInv, NEW s \in Sessions, HandlerSubscribe(s)
  PROVE  SocketIInv'
<1> DEFINE j == job[s]
           r == After(events[j], after[s])
<1>1. /\ handler[s] = "ready" /\ Subscribe(s, j, after[s]) /\ UNCHANGED hubStep
      /\ handler' = [handler EXCEPT ![s] = "next"]
      /\ missed' = [c \in Clients |-> IF session_of[c] = s THEN missed[c] \cup Evicted(j, after[s])
                                                           ELSE missed[c]]
  BY DEF HandlerSubscribe
<1>2. /\ after' = after /\ link' = link /\ wire' = wire /\ closed' = closed
      /\ drops' = drops /\ watched' = watched /\ session_of' = session_of
      /\ cursor' = cursor /\ received' = received
  BY <1>1, Unchanged
<1>3. /\ j \in Jobs /\ after[s] \in Nat /\ log[j] \in Seq(Events) /\ SessionIInv(s)
      /\ pc[s] = "idle"
  BY <1>1, SessionState DEF Subscribe
<1>4. IInv'
  BY <1>1, <1>3, SubscribeIInv DEF SocketIInv
<1>5. /\ log' = log /\ events' = events
      /\ pc' = [pc EXCEPT ![s] = "open"] /\ job' = [job EXCEPT ![s] = j]
      /\ first' = [first EXCEPT ![s] = Len(log[j]) - Len(r) + 1]
      /\ yielded' = [yielded EXCEPT ![s] = <<>>]
  BY <1>1 DEF Subscribe
<1> HIDE DEF r
<1>6. /\ pc'[s] = "open" /\ job'[s] = j /\ first'[s] = Len(log[j]) - Len(r) + 1 /\ yielded'[s] = <<>>
      /\ handler'[s] = "next"
      /\ \A t \in Sessions \ {s} : /\ pc'[t] = pc[t] /\ job'[t] = job[t] /\ first'[t] = first[t]
                                   /\ yielded'[t] = yielded[t] /\ handler'[t] = handler[t]
  BY <1>1, <1>5 DEF SocketIInv, SocketTypeOK, TypeOK
<1>7. SocketTypeOK'
  <2>1. TypeOK'
    BY <1>4 DEF IInv
  <2>2. Evicted(j, after[s]) \subseteq EventIds
    <3>1. \A e \in Events : e.id \in EventIds
      BY DEF Events
    <3>2. \A id \in IdsOf(log[j]) : id \in EventIds
      BY <1>3, <3>1, EventSequence DEF IdsOf
    <3> QED
      BY <3>2 DEF Evicted
  <2>3. missed' \in [Clients -> SUBSET EventIds]
    BY <1>1, <2>2 DEF SocketIInv, SocketTypeOK
  <2> QED
    BY <1>1, <1>2, <2>1, <2>3 DEF SocketIInv, SocketTypeOK
<1>8. \A t \in Sessions \ {s} : SameSession(t)
  BY <1>2, <1>6 DEF SameSession
<1>9. SessionIInv(s)'
  <2>1. first'[s] \in Nat \ {0}
    <3>1. first'[s] \in 1..Len(log'[job'[s]]) + 1
      BY <1>4, <1>6 DEF IInv, NoGapNoRepeat
    <3> QED
      BY <1>5, <1>6, <1>3, <3>1, LenProperties
  <2>2. Len(yielded'[s]) = 0
    BY <1>6, EmptySeq
  <2> QED
    BY <1>6, <2>1, <2>2 DEF SessionIInv
<1>10. ASSUME NEW c \in Clients, session_of[c] = s
       PROVE  KnowsAll(c)' /\ ConnectionIInv(c, s)'
  <2> DEFINE l == log[j]
             lost == Lost(l, events[j], cursor[c])
  <2>1. ConnectionIInv(c, s)
    BY <1>10 DEF SocketIInv, InStep
  <2>2. j = watched[c] /\ link[s] = "up" /\ ~ closed[s] /\ after[s] = cursor[c] /\ wire[s] = <<>>
    BY <1>1, <2>1 DEF ConnectionIInv
  <2>3. missed'[c] = missed[c] \cup lost
    BY <1>1, <1>10, <2>2 DEF Lost, Evicted
  <2>4. /\ l \in Seq(Events) /\ events[j] \in Seq(Events) /\ received[c] \in Seq(Events)
        /\ cursor[c] \in Nat /\ IsTail(events[j], l) /\ Chronicle(l)
        /\ Knows(l, events[j], received[c], cursor[c], missed[c])
    BY <2>2, ClientState DEF KnowsAll
  <2> HIDE DEF l
  <2>5. Knows(l, events[j], received[c], cursor[c], missed[c] \cup lost)
    BY <2>4, SnapshotStreams
  <2>6. PICK p \in 1..Len(l) + 1 :
          /\ p = Len(l) - Len(After(events[j], cursor[c])) + 1
          /\ Streams(l, cursor[c], missed[c] \cup lost, <<>>, p, p, p - 1)
    BY <2>4, SnapshotStreams
  <2> HIDE DEF lost
  <2>7. first'[s] = p
    BY <1>6, <2>2, <2>6 DEF r, l
  <2>8. SentTo(s)' = p - 1
    <3>1. Len(yielded'[s]) = 0 /\ Len(l) \in Nat
      BY <1>6, <2>4, EmptySeq, LenProperties
    <3> QED
      BY <1>6, <2>7, <3>1 DEF SentTo
  <2>9. KnowsAll(c)'
    BY <1>2, <1>5, <2>2, <2>3, <2>5 DEF KnowsAll, l
  <2>10. /\ p \in 1..Len(log'[job'[s]]) + 1
         /\ Streams(log'[job'[s]], cursor'[c], missed'[c], wire'[s], first'[s], p, SentTo(s)')
    BY <1>2, <1>5, <1>6, <2>2, <2>3, <2>6, <2>7, <2>8 DEF l
  <2>11. ConnectionIInv(c, s)'
    BY <1>2, <1>6, <2>2, <2>10 DEF ConnectionIInv
  <2> QED
    BY <2>9, <2>11
<1> DEFINE C == {c \in Clients : session_of[c] = s}
<1>11. /\ C \in SUBSET Clients
       /\ \A c \in Clients \ C : SameClient(c) /\ session_of[c] # s
       /\ \A c \in C : KnowsAll(c)'
       /\ \A c \in C : session_of'[c] # None => session_of'[c] = s
       /\ \A c \in C : session_of'[c] = s /\ s \in Sessions => ConnectionIInv(c, s)'
       /\ \A c, e \in C : session_of'[c] # None /\ session_of'[c] = session_of'[e] => c = e
  <2>1. \A c \in Clients \ C : SameClient(c) /\ session_of[c] # s
    BY <1>1, <1>2 DEF SameClient
  <2>2. \A c, e \in C : session_of'[c] # None /\ session_of'[c] = session_of'[e] => c = e
    BY <1>2 DEF SocketIInv, OwnConnections
  <2> QED
    BY <1>2, <1>10, <2>1, <2>2
<1>12. log' = log /\ events' = events /\ watched' = watched
  BY <1>2, <1>5
<1> HIDE DEF C, j, r
<1> QED
  BY <1>4, <1>7, <1>8, <1>9, <1>11, <1>12, OthersStayInStep, SMTT(60)

\* The generator yields the next event of the log.
LEMMA HandlerNextIInv ==
  ASSUME SocketIInv, NEW s \in Sessions, HandlerNext(s)
  PROVE  SocketIInv'
<1> DEFINE n == first[s] + Len(yielded[s])
<1>1. /\ handler[s] = "next" /\ (YieldReplay(s) \/ YieldLive(s)) /\ UNCHANGED hubStep
      /\ missed' = missed /\ handler' = [handler EXCEPT ![s] = "send"]
  BY DEF HandlerNext
<1>2. /\ after' = after /\ link' = link /\ wire' = wire /\ closed' = closed
      /\ drops' = drops /\ watched' = watched /\ session_of' = session_of
      /\ cursor' = cursor /\ received' = received
  BY <1>1, Unchanged
<1>3. IInv'
  BY <1>1, YieldIInv DEF SocketIInv
<1>4. /\ pc' = pc /\ job' = job /\ first' = first /\ log' = log /\ events' = events
  BY <1>1 DEF YieldReplay, YieldLive, session
<1>5. /\ n <= Len(log[job[s]])
      /\ yielded' = [yielded EXCEPT ![s] = Append(yielded[s], log[job[s]][n])]
  <2>1. Feed!Show(s)
    BY <1>1, YieldShows DEF SocketIInv
  <2> QED
    BY <2>1 DEF Feed!Show
<1>6. /\ log[job[s]] \in Seq(Events) /\ yielded[s] \in Seq(Events) /\ first[s] \in Nat \ {0}
      /\ Len(yielded[s]) \in Nat /\ Len(log[job[s]]) \in Nat /\ SessionIInv(s)
  BY SessionState, LenProperties
<1>7. n \in 1..Len(log[job[s]])
  BY <1>5, <1>6
<1>8. log[job[s]][n] \in Events
  BY <1>6, <1>7, EventSequence
<1>9. /\ handler'[s] = "send" /\ yielded'[s] = Append(yielded[s], log[job[s]][n])
      /\ \A t \in Sessions \ {s} : handler'[t] = handler[t] /\ yielded'[t] = yielded[t]
  <2> HIDE DEF n
  <2> QED
    BY <1>1, <1>5 DEF SocketIInv, SocketTypeOK, TypeOK
<1>10. /\ Len(yielded'[s]) = Len(yielded[s]) + 1 /\ yielded'[s] # <<>>
       /\ \A i \in 1..Len(yielded[s]) : yielded'[s][i] = yielded[s][i]
       /\ yielded'[s][Len(yielded[s]) + 1] = log[job[s]][n]
  <2> HIDE DEF n
  <2> QED
    BY <1>6, <1>8, <1>9, AppendProperties
<1>11. SocketTypeOK'
  BY <1>1, <1>2, <1>3 DEF SocketIInv, SocketTypeOK, IInv
<1>12. \A t \in Sessions \ {s} : SameSession(t)
  BY <1>2, <1>4, <1>9 DEF SameSession
<1>13. SessionIInv(s)'
  <2>1. ASSUME NEW i \in 1..Len(yielded'[s])
        PROVE  /\ first[s] + i - 1 <= Len(log[job[s]])
               /\ yielded'[s][i] = log[job[s]][first[s] + i - 1]
    <3>1. CASE i \in 1..Len(yielded[s])
      BY <1>1, <1>6, <1>10, <3>1 DEF SessionIInv
    <3>2. CASE i \notin 1..Len(yielded[s])
      <4>1. i = Len(yielded[s]) + 1 /\ first[s] + i - 1 = n
        BY <1>6, <1>10, <3>2
      <4> QED
        BY <1>5, <1>10, <4>1
    <3> QED
      BY <3>1, <3>2
  <2> HIDE DEF n
  <2> QED
    BY <1>1, <1>4, <1>6, <1>9, <1>10, <2>1 DEF SessionIInv
<1>14. SentTo(s)' = SentTo(s)
  <2>1. SentTo(s) = first[s] + Len(yielded[s]) - 1
    BY <1>1 DEF SentTo
  <2>2. SentTo(s)' = first[s] + (Len(yielded[s]) + 1) - 2
    BY <1>4, <1>9, <1>10 DEF SentTo
  <2> QED
    BY <1>6, <2>1, <2>2
<1>15. ASSUME NEW c \in Clients, session_of[c] = s
       PROVE  ConnectionIInv(c, s)'
  <2>1. ConnectionIInv(c, s)
    BY <1>15 DEF SocketIInv, InStep
  <2> QED
    BY <1>1, <1>2, <1>4, <1>9, <1>14, <2>1 DEF ConnectionIInv
<1> QED
  BY <1>1, <1>2, <1>3, <1>4, <1>11, <1>12, <1>13, <1>15, SessionStep

\* What the handler holds is the event of the log after those it has sent.
LEMMA HeldIsNext ==
  ASSUME SocketIInv, NEW s \in Sessions, handler[s] = "send"
  PROVE  /\ pc[s] = "open" /\ SentTo(s) = first[s] + Len(yielded[s]) - 2
         /\ SentTo(s) + 1 \in 1..Len(log[job[s]]) /\ SentTo(s) + 1 >= first[s]
         /\ Held(s) = log[job[s]][SentTo(s) + 1]
<1>1. /\ yielded[s] \in Seq(Events) /\ first[s] \in Nat \ {0} /\ Len(yielded[s]) \in Nat
      /\ log[job[s]] \in Seq(Events) /\ Len(log[job[s]]) \in Nat /\ SessionIInv(s)
  BY SessionState, LenProperties
<1>2. pc[s] = "open" /\ yielded[s] # <<>>
  BY <1>1 DEF SessionIInv
<1>3. Len(yielded[s]) \in 1..Len(yielded[s])
  BY <1>1, <1>2, EventSequence
<1>4. /\ first[s] + Len(yielded[s]) - 1 <= Len(log[job[s]])
      /\ Held(s) = log[job[s]][first[s] + Len(yielded[s]) - 1]
  BY <1>1, <1>2, <1>3, Zenon DEF SessionIInv, Held
<1>5. SentTo(s) = first[s] + Len(yielded[s]) - 2
  BY DEF SentTo
<1>6. SentTo(s) + 1 = first[s] + Len(yielded[s]) - 1
  BY <1>1, <1>5
<1>7. /\ first[s] + Len(yielded[s]) - 1 \in 1..Len(log[job[s]])
      /\ first[s] + Len(yielded[s]) - 1 >= first[s]
  BY <1>1, <1>3, <1>4
<1> QED
  BY <1>2, <1>4, <1>5, <1>6, <1>7

LEMMA HandlerSendIInv ==
  ASSUME SocketIInv, NEW s \in Sessions, HandlerSend(s)
  PROVE  SocketIInv'
<1> DEFINE l == log[job[s]]
           n == SentTo(s)
           last == Held(s).status \in Terminal
<1>1. /\ handler[s] = "send" /\ link[s] # "reset"
      /\ wire' = [wire EXCEPT ![s] = IF link[s] = "up" THEN Append(wire[s], Held(s)) ELSE wire[s]]
      /\ UNCHANGED <<after, link, drops, watched, session_of, cursor, received, missed>>
  BY DEF HandlerSend
<1>2. /\ after' = after /\ link' = link /\ drops' = drops /\ watched' = watched
      /\ session_of' = session_of /\ cursor' = cursor /\ received' = received /\ missed' = missed
  BY <1>1
<1>4. /\ last => /\ closed' = [closed EXCEPT ![s] = TRUE]
                 /\ handler' = [handler EXCEPT ![s] = "none"] /\ Abandon(s)
      /\ ~ last => /\ handler' = [handler EXCEPT ![s] = "next"]
                   /\ UNCHANGED vars /\ closed' = closed
  BY DEF HandlerSend
<1>5. /\ pc[s] = "open" /\ n = first[s] + Len(yielded[s]) - 2
      /\ n + 1 \in 1..Len(l) /\ n + 1 >= first[s] /\ Held(s) = l[n + 1]
  BY <1>1, HeldIsNext
<1>6. /\ l \in Seq(Events) /\ wire[s] \in Seq(Events) /\ first[s] \in Nat \ {0}
      /\ Len(yielded[s]) \in Nat /\ n \in Int /\ job[s] \in Jobs /\ SessionIInv(s)
      /\ Len(l) \in Nat
  BY SessionState, LenProperties
<1>7. Held(s) \in Events
  <2> HIDE DEF l, n
  <2> QED
    BY <1>5, <1>6, EventSequence
<1> HIDE DEF last, n, l
<1>8. IInv'
  BY <1>4, LeaveIInv, HubStutter DEF SocketIInv
<1>9. /\ job' = job /\ first' = first /\ yielded' = yielded /\ log' = log /\ events' = events
      /\ last => pc' = [pc EXCEPT ![s] = "closing"]
      /\ ~ last => pc' = pc
  BY <1>4, Unchanged DEF Abandon
<1>10. /\ \A t \in Sessions \ {s} : /\ pc'[t] = pc[t] /\ handler'[t] = handler[t]
                                    /\ wire'[t] = wire[t] /\ closed'[t] = closed[t]
       /\ last => pc'[s] = "closing" /\ handler'[s] = "none" /\ closed'[s] = TRUE
       /\ ~ last => pc'[s] = "open" /\ handler'[s] = "next" /\ closed'[s] = closed[s]
       /\ link[s] = "up" => wire'[s] = Append(wire[s], Held(s))
  BY <1>1, <1>4, <1>5, <1>9, SMTT(30) DEF SocketIInv, SocketTypeOK, TypeOK
<1>11. SocketTypeOK'
  <2>1. TypeOK'
    BY <1>8 DEF IInv
  <2>2. Append(wire[s], Held(s)) \in Seq(Events)
    BY <1>6, <1>7, AppendProperties
  <2>3. wire' \in [Sessions -> Seq(Events)]
    BY <1>1, <1>6, <2>2 DEF SocketIInv, SocketTypeOK
  <2>4. /\ handler' \in [Sessions -> {"none", "accepted", "ready", "next", "send"}]
        /\ closed' \in [Sessions -> BOOLEAN]
    BY <1>4 DEF SocketIInv, SocketTypeOK
  <2> QED
    BY <1>2, <2>1, <2>3, <2>4 DEF SocketIInv, SocketTypeOK
<1>12. \A t \in Sessions \ {s} : SameSession(t)
  BY <1>2, <1>9, <1>10 DEF SameSession
<1>13. SessionIInv(s)'
  BY <1>1, <1>5, <1>6, <1>9, <1>10 DEF SessionIInv
<1>14. SentTo(s)' = n + 1
  <2>1. SentTo(s)' = first[s] + Len(yielded[s]) - 1
    <3>1. handler'[s] # "send"
      BY <1>10
    <3> QED
      BY <1>9, <3>1 DEF SentTo
  <2> QED
    BY <1>5, <1>6, <2>1
<1>15. ASSUME NEW c \in Clients, session_of[c] = s
       PROVE  ConnectionIInv(c, s)'
  <2>1. ConnectionIInv(c, s)
    BY <1>15 DEF SocketIInv, InStep
  <2>2. /\ job[s] = watched[c] /\ link[s] = "up" /\ ~ closed[s]
        /\ \E p \in 1..Len(l) + 1 : Streams(l, cursor[c], missed[c], wire[s], first[s], p, n)
    BY <1>1, <2>1 DEF ConnectionIInv, l, n
  <2>3. PICK p \in 1..Len(l) + 1 : Streams(l, cursor[c], missed[c], wire[s], first[s], p, n)
    BY <2>2
  <2>4. Streams(l, cursor[c], missed[c], Append(wire[s], l[n + 1]), first[s], p, n + 1)
    <3>1. p \in Nat /\ n + 1 <= Len(l)
      BY <1>5, <1>6
    <3> QED
      BY <1>6, <2>3, <3>1, StreamSends, Zenon
  <2>5. /\ p \in 1..Len(log'[job'[s]]) + 1
        /\ Streams(log'[job'[s]], cursor'[c], missed'[c], wire'[s], first'[s], p, SentTo(s)')
    BY <1>2, <1>5, <1>9, <1>10, <1>14, <2>2, <2>4 DEF l
  <2>6. last => n + 1 = Len(l)
    <3>1. \A i \in 1..Len(l) : i < Len(l) => l[i].status \notin Terminal
      BY <1>6 DEF SocketIInv, Chronicles, Chronicle, l
    <3> QED
      BY <1>5, <1>6, <3>1 DEF last
  <2>7. last => /\ SentTo(s)' = Len(log'[job'[s]]) /\ SentTo(s)' >= first'[s]
                /\ log'[job'[s]][SentTo(s)'].status \in Terminal
    BY <1>5, <1>9, <1>14, <2>6 DEF l, last
  <2>8. CASE last
    BY <1>2, <1>9, <1>10, <2>2, <2>5, <2>7, <2>8 DEF ConnectionIInv
  <2>9. CASE ~ last
    BY <1>2, <1>9, <1>10, <2>2, <2>5, <2>9 DEF ConnectionIInv
  <2> QED
    BY <2>8, <2>9
<1> QED
  BY <1>2, <1>8, <1>9, <1>11, <1>12, <1>13, <1>15, SessionStep
-----------------------------------------------------------------------------
LEMMA InitSocketIInv == SocketInit => SocketIInv
<1> SUFFICES ASSUME SocketInit PROVE SocketIInv
  OBVIOUS
<1>1. IInv
  BY InitIInv DEF SocketInit
<1>2. <<>> \in Seq(Events) /\ Len(<<>>) = 0
  BY EmptySeq
<1>3. SocketTypeOK
  BY <1>1, <1>2, HubAssumption, SocketAssumption DEF IInv, SocketInit, SocketTypeOK, Cursors
<1>4. \A j \in Jobs : log[j] = <<>> /\ events[j] = <<>>
  BY DEF SocketInit, Init
<1>5. Chronicle(<<>>)
  BY <1>2 DEF Chronicle
<1>6. Knows(<<>>, <<>>, <<>>, 0, {})
  BY <1>2 DEF Knows
<1>7. Chronicles
  BY <1>4, <1>5 DEF Chronicles
<1>8. \A c \in Clients : KnowsAll(c)
  BY <1>3, <1>4, <1>6 DEF KnowsAll, SocketInit, SocketTypeOK
<1>9. InStep
  BY SocketAssumption DEF InStep, SocketInit, Init, SessionIInv
<1>10. OwnConnections
  BY DEF OwnConnections, SocketInit
<1> QED
  BY <1>1, <1>3, <1>7, <1>8, <1>9, <1>10 DEF SocketIInv

LEMMA NextSocketIInv == SocketIInv /\ [SocketNext]_allVars => SocketIInv'
<1> SUFFICES ASSUME SocketIInv, [SocketNext]_allVars PROVE SocketIInv'
  OBVIOUS
<1>1. ASSUME NEW j \in Jobs, NEW st \in Statuses, PublishProgress(j, st) PROVE SocketIInv'
  BY <1>1, PublishProgressIInv
<1>2. ASSUME NEW c \in Clients, NEW s \in Sessions, Connect(c, s) PROVE SocketIInv'
  BY <1>2, ConnectIInv
<1>3. ASSUME NEW s \in Sessions,
             HandlerReady(s) \/ HandlerSubscribe(s) \/ HandlerNext(s) \/ HandlerSend(s)
             \/ HandlerSendFails(s) \/ HandlerCleanup(s) \/ Notice(s)
      PROVE  SocketIInv'
  BY <1>3, ReadyIInv, HandlerSubscribeIInv, HandlerNextIInv, HandlerSendIInv, SendFailsIInv,
     CleanupIInv, NoticeIInv
<1>4. ASSUME NEW c \in Clients, Drop(c) \/ ClientReceive(c) \/ ClientClosed(c) \/ Poll(c)
      PROVE  SocketIInv'
  BY <1>4, DropIInv, ReceiveIInv, ClosedIInv, PollIInv
<1>5. CASE UNCHANGED allVars
  <2>1. UNCHANGED vars /\ UNCHANGED socketVars
    BY <1>5 DEF allVars
  <2>2. /\ handler' = handler /\ after' = after /\ link' = link /\ closed' = closed /\ drops' = drops
        /\ watched' = watched /\ session_of' = session_of /\ wire' = wire /\ cursor' = cursor
        /\ received' = received /\ missed' = missed
        /\ log' = log /\ events' = events /\ job' = job /\ first' = first /\ yielded' = yielded
        /\ pc' = pc
    BY <2>1, Unchanged
  <2>3. IInv'
    BY <2>1, HubStutter DEF SocketIInv
  <2>4. SocketTypeOK'
    BY <2>2, <2>3 DEF SocketIInv, SocketTypeOK, IInv
  <2>5. Chronicles' /\ OwnConnections' /\ \A c \in Clients : KnowsAll(c)'
    BY <2>2 DEF SocketIInv, Chronicles, OwnConnections, KnowsAll
  <2>6. /\ \A s \in Sessions : SameSession(s)
        /\ \A c \in Clients : SameClient(c)
    BY <2>2 DEF SameSession, SameClient
  <2>7. \A s \in Sessions : SessionIInv(s)'
    BY <2>2, <2>6, SessionFrame, SessionState
  <2>8. ASSUME NEW c \in Clients, NEW s \in Sessions, session_of'[c] = s
        PROVE  ConnectionIInv(c, s)'
    <3>1. ConnectionIInv(c, s)
      BY <2>2, <2>8 DEF SocketIInv, InStep
    <3> QED
      BY <2>2, <2>6, <3>1, ConnectionFrame
  <2> QED
    BY <2>3, <2>4, <2>5, <2>7, <2>8 DEF SocketIInv, InStep
<1> QED
  BY <1>1, <1>2, <1>3, <1>4, <1>5 DEF SocketNext

LEMMA SocketInvariant == SocketSpec => []SocketIInv
<1> QED
  BY InitSocketIInv, NextSocketIInv, PTL DEF SocketSpec

(* Every reachable state of the hub, its handlers and its clients is well typed: at most
   MaxDrops connections have failed, a cursor is an event id or 0. *)
THEOREM SocketIsTyped == SocketSpec => []SocketTypeOK
<1>1. SocketIInv => SocketTypeOK
  BY DEF SocketIInv
<1> QED
  BY <1>1, SocketInvariant, PTL

(* However many connections fail, and in whatever order a client reconnects and polls, it
   receives events of its own job, each once, in the order of their ids. *)
THEOREM SocketReceivesOnce == SocketSpec => []ReceivedOnceInOrder
<1>1. SocketIInv => ReceivedOnceInOrder
  <2> SUFFICES ASSUME SocketIInv, NEW c \in Clients
               PROVE  /\ \A k \in 1..Len(received[c]) : \A i \in 1..k-1 :
                           received[c][i].id < received[c][k].id
                      /\ \A i \in 1..Len(received[c]) : received[c][i].job = watched[c]
    BY DEF ReceivedOnceInOrder
  <2>1. Knows(log[watched[c]], events[watched[c]], received[c], cursor[c], missed[c])
        /\ watched[c] \in Jobs
    BY ClientState DEF KnowsAll
  <2>2. ASSUME NEW i \in 1..Len(received[c])
        PROVE  received[c][i].job = watched[c]
    <3>1. PICK k \in 1..Len(log[watched[c]]) : received[c][i] = log[watched[c]][k]
      BY <2>1, Zenon DEF Knows
    <3> QED
      BY <2>1, <3>1 DEF SocketIInv, IInv, LogOrdered
  <2>3. \A k \in 1..Len(received[c]) : \A i \in 1..k-1 : received[c][i].id < received[c][k].id
    BY <2>1, Zenon DEF Knows
  <2> QED
    BY <2>2, <2>3
<1> QED
  BY <1>1, SocketInvariant, PTL

(* A client with a cursor has every event of its job up to the cursor, except exactly those
   that the bounded deque had dropped when it asked. *)
THEOREM SocketSkipsNothing == SocketSpec => []NothingSkipped
<1>1. SocketIInv => NothingSkipped
  <2> SUFFICES ASSUME SocketIInv, NEW c \in Clients, NEW id \in IdsOf(log[watched[c]]),
                      id <= cursor[c]
               PROVE  id \in IdsOf(received[c]) <=> id \notin missed[c]
    BY DEF NothingSkipped
  <2>1. Knows(log[watched[c]], events[watched[c]], received[c], cursor[c], missed[c])
    BY ClientState DEF KnowsAll
  <2>2. PICK i \in 1..Len(log[watched[c]]) : log[watched[c]][i].id = id
    BY DEF IdsOf
  <2> QED
    BY <2>1, <2>2 DEF Knows
<1> QED
  BY <1>1, SocketInvariant, PTL

(* When the server closes a connection normally, the client has, or has in flight, all of
   the job's events but those it missed, the terminal event last. *)
THEOREM SocketCloseIsComplete == SocketSpec => []NormalCloseIsComplete
<1>1. SocketIInv => NormalCloseIsComplete
  <2> SUFFICES ASSUME SocketIInv, NEW c \in Clients, NEW s \in Sessions, session_of[c] = s, closed[s]
               PROVE  /\ received[c] \o wire[s] # <<>>
                      /\ (received[c] \o wire[s])[Len(received[c] \o wire[s])].status \in Terminal
                      /\ IdsOf(log[watched[c]]) = IdsOf(received[c] \o wire[s]) \cup missed[c]
    BY DEF NormalCloseIsComplete, SocketIInv, SocketTypeOK
  <2> DEFINE l == log[job[s]]
  <2>1. ConnectionIInv(c, s)
    BY DEF SocketIInv, InStep
  <2>2. /\ job[s] = watched[c] /\ SentTo(s) = Len(l) /\ SentTo(s) >= first[s]
        /\ l[SentTo(s)].status \in Terminal
        /\ \E p \in 1..Len(l) + 1 :
             Streams(l, cursor[c], missed[c], wire[s], first[s], p, SentTo(s))
    BY <2>1 DEF ConnectionIInv
  <2>3. /\ l \in Seq(Events) /\ wire[s] \in Seq(Events) /\ first[s] \in Nat \ {0}
        /\ received[c] \in Seq(Events) /\ cursor[c] \in Nat /\ Chronicle(l)
        /\ Knows(l, events[job[s]], received[c], cursor[c], missed[c])
    BY <2>2, SessionState, ClientState DEF KnowsAll
  <2>4. Len(l) \in Nat
    BY <2>3, LenProperties
  <2> HIDE DEF l
  <2>5. first[s] <= Len(l) /\ l[Len(l)].status \in Terminal
    BY <2>2, <2>3, <2>4
  <2>6. PICK p \in 1..Len(l) + 1 :
          Streams(l, cursor[c], missed[c], wire[s], first[s], p, Len(l))
    BY <2>2
  <2>7. /\ received[c] \o wire[s] # <<>>
        /\ (received[c] \o wire[s])[Len(received[c] \o wire[s])].status \in Terminal
        /\ IdsOf(l) = IdsOf(received[c] \o wire[s]) \cup missed[c]
    <3> DEFINE d == events[job[s]]
               got == received[c]
               cur == cursor[c]
               miss == missed[c]
               w == wire[s]
               f == first[s]
    <3>1. /\ l \in Seq(Events) /\ w \in Seq(Events) /\ f \in Nat \ {0}
          /\ got \in Seq(Events) /\ cur \in Nat /\ Chronicle(l)
          /\ Knows(l, d, got, cur, miss)
          /\ f <= Len(l) /\ l[Len(l)].status \in Terminal
          /\ Streams(l, cur, miss, w, f, p, Len(l))
      BY <2>3, <2>5, <2>6
    <3> HIDE DEF d, got, cur, miss, w, f
    <3>2. Complete(l, got \o w, miss)
      BY <3>1, StreamCompletes
    <3> QED
      BY <3>2 DEF got, w, miss, Complete
  <2> QED
    BY <2>2, <2>7 DEF l
<1> QED
  BY <1>1, SocketInvariant, PTL
=============================================================================
