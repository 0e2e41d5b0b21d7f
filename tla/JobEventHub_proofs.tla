------------------------ MODULE JobEventHub_proofs ------------------------
(***************************************************************************)
(* Proofs about JobEventHub, for every set of jobs, sessions and statuses, *)
(* every deque length and every number of publications.                    *)
(***************************************************************************)
EXTENDS JobEventHub, SequenceLemmas

\* What the comprehension of replay and subscribe_from leaves is a suffix.
LEMMA AfterIsSuffix ==
  ASSUME NEW seq \in Seq(Events), NEW after \in Nat
  PROVE  \E p \in 1..Len(seq) + 1 :
           /\ After(seq, after) = SubSeq(seq, p, Len(seq))
           /\ \A i \in 1..p-1 : seq[i].id <= after
           /\ p <= Len(seq) => seq[p].id > after
<1>1. Len(seq) \in Nat /\ \A i \in 1..Len(seq) : seq[i].id \in Nat
  <2>1. Len(seq) \in Nat /\ \A i \in 1..Len(seq) : seq[i] \in Events
    BY ElementOfSeq, LenProperties
  <2> QED
    BY <2>1 DEF Events, EventIds
<1>2. CASE Newer(seq, after) = {}
  <2>1. After(seq, after) = SubSeq(seq, Len(seq) + 1, Len(seq))
    BY <1>1, <1>2, SubSeqEmpty DEF After
  <2>2. \A i \in 1..Len(seq) : seq[i].id <= after
    BY <1>1, <1>2 DEF Newer
  <2> QED
    BY <1>1, <2>1, <2>2
<1>3. CASE Newer(seq, after) # {}
  <2> DEFINE p == CHOOSE i \in Newer(seq, after) : \A k \in Newer(seq, after) : i <= k
  <2>1. Newer(seq, after) \in SUBSET Nat
    BY <1>1 DEF Newer
  <2>2. p \in Newer(seq, after) /\ \A k \in Newer(seq, after) : p <= k
    BY <1>3, <2>1, LeastNatural, Zenon
  <2>3. After(seq, after) = SubSeq(seq, p, Len(seq))
    BY <1>3, Zenon DEF After
  <2> HIDE DEF p
  <2>4. p \in 1..Len(seq) /\ seq[p].id > after
    BY <2>2 DEF Newer
  <2>5. \A i \in 1..p-1 : seq[i].id <= after
    BY <1>1, <2>2, <2>4 DEF Newer
  <2> QED
    BY <1>1, <2>3, <2>4, <2>5
<1> QED
  BY <1>2, <1>3

\* SuffixOfSuffix for events.
LEMMA SuffixOfEvents ==
  ASSUME NEW l \in Seq(Events), NEW t \in Seq(Events), NEW p \in 1..Len(l) + 1,
         t = SubSeq(l, p, Len(l)), NEW q \in 1..Len(t) + 1
  PROVE  /\ SubSeq(t, q, Len(t)) = SubSeq(l, p + q - 1, Len(l))
         /\ SubSeq(t, q, Len(t)) \in Seq(Events)
         /\ Len(SubSeq(t, q, Len(t))) = Len(l) - (p + q - 1) + 1
BY SuffixOfSuffix, SMTT(60)

\* A suffix of the deque is a suffix of the log.
LEMMA SuffixOfDeque ==
  ASSUME NEW l \in Seq(Events), NEW seq \in Seq(Events), IsTail(seq, l),
         MaxEvents \in Nat \ {0}, NEW q \in 1..Len(seq) + 1
  PROVE  \E p \in 1..Len(l) + 1 :
           /\ SubSeq(seq, q, Len(seq)) = SubSeq(l, p, Len(l))
           /\ SubSeq(seq, q, Len(seq)) \in Seq(Events)
           /\ Len(SubSeq(seq, q, Len(seq))) = Len(l) - p + 1
           /\ p - q = Len(l) - Len(seq)
<1>1. Len(l) \in Nat /\ Len(seq) \in Nat
  BY LenProperties
<1>2. Len(seq) = IF Len(l) < MaxEvents THEN Len(l) ELSE MaxEvents
  BY Zenon DEF IsTail
<1>3. PICK m \in 1..Len(l) + 1 : m = Len(l) - Len(seq) + 1
  <2>1. Len(seq) <= Len(l)
    BY <1>1, <1>2
  <2>2. Len(l) - Len(seq) + 1 \in 1..Len(l) + 1
    BY <1>1, <2>1
  <2> QED
    BY <2>2, Zenon
<1>4. seq = SubSeq(l, m, Len(l))
  BY <1>3, Zenon DEF IsTail
<1>5. /\ SubSeq(seq, q, Len(seq)) = SubSeq(l, m + q - 1, Len(l))
      /\ SubSeq(seq, q, Len(seq)) \in Seq(Events)
      /\ Len(SubSeq(seq, q, Len(seq))) = Len(l) - (m + q - 1) + 1
  <2>1. \A k \in 1..Len(l) + 1 : seq = SubSeq(l, k, Len(l)) =>
          /\ SubSeq(seq, q, Len(seq)) = SubSeq(l, k + q - 1, Len(l))
          /\ SubSeq(seq, q, Len(seq)) \in Seq(Events)
          /\ Len(SubSeq(seq, q, Len(seq))) = Len(l) - (k + q - 1) + 1
    BY SuffixOfEvents, Zenon
  <2> QED
    BY <1>4, <2>1, Zenon
<1>6. m + q - 1 \in 1..Len(l) + 1 /\ (m + q - 1) - q = Len(l) - Len(seq)
  BY <1>1, <1>3
<1> QED
  BY <1>5, <1>6, Zenon

\* SlideWindow for events.
LEMMA SlideEvents ==
  ASSUME NEW l \in Seq(Events), NEW e \in Events, NEW n \in 1..Len(l)
  PROVE  /\ Append(Tail(SubSeq(l, n, Len(l))), e) \in Seq(Events)
         /\ Len(Append(Tail(SubSeq(l, n, Len(l))), e)) = Len(l) - n + 1
         /\ Append(Tail(SubSeq(l, n, Len(l))), e)
              = SubSeq(Append(l, e), n + 1, Len(Append(l, e)))
BY SlideWindow, ZenonT(60)

\* Appending to the deque keeps it the tail of the log.
LEMMA RetainIsTail ==
  ASSUME NEW l \in Seq(Events), NEW seq \in Seq(Events), NEW e \in Events,
         MaxEvents \in Nat \ {0}, IsTail(seq, l)
  PROVE  Retain(seq, e) \in Seq(Events) /\ IsTail(Retain(seq, e), Append(l, e))
<1>1. Len(l) \in Nat /\ Len(Append(l, e)) = Len(l) + 1 /\ Append(l, e) \in Seq(Events)
  BY LenProperties, AppendProperties
<1>2. CASE Len(seq) = MaxEvents
  <2> DEFINE u == Append(Tail(seq), e)
  <2>1. Len(l) >= MaxEvents
    BY <1>1, <1>2 DEF IsTail
  <2>2. PICK n \in 1..Len(l) : n = Len(l) - MaxEvents + 1
    <3>1. Len(l) - MaxEvents + 1 \in 1..Len(l)
      BY <1>1, <2>1
    <3> QED
      BY <3>1, Zenon
  <2>3. seq = SubSeq(l, n, Len(l))
    BY <1>2, <2>2 DEF IsTail
  <2>4. Retain(seq, e) = u
    BY <1>2 DEF Retain
  <2>5. /\ u \in Seq(Events)
        /\ Len(u) = Len(l) - n + 1
        /\ u = SubSeq(Append(l, e), n + 1, Len(Append(l, e)))
    BY <2>3, SlideEvents, Zenon
  <2> HIDE DEF u
  <2>6. Len(u) = MaxEvents /\ Len(Append(l, e)) - Len(u) + 1 = n + 1
    BY <1>1, <2>2, <2>5
  <2>7. Len(u) = IF Len(Append(l, e)) < MaxEvents THEN Len(Append(l, e)) ELSE MaxEvents
    BY <1>1, <2>1, <2>6
  <2>8. u = SubSeq(Append(l, e), Len(Append(l, e)) - Len(u) + 1, Len(Append(l, e)))
    BY <2>5, <2>6, Zenon
  <2> QED
    BY <2>4, <2>5, <2>7, <2>8, Zenon DEF IsTail
<1>3. CASE Len(seq) # MaxEvents
  <2> DEFINE m == Append(l, e)
  <2>1. Len(seq) = Len(l) /\ Len(l) < MaxEvents
    BY <1>1, <1>3 DEF IsTail
  <2>2. seq = SubSeq(l, 1, Len(l))
    <3>1. Len(l) - Len(seq) + 1 = 1
      BY <1>1, <2>1
    <3> QED
      BY <3>1, Zenon DEF IsTail
  <2>3. Retain(seq, e) = m
    BY <1>3, <2>2, SubSeqFull, Zenon DEF Retain
  <2>4. m \in Seq(Events) /\ Len(m) = Len(l) + 1
    BY <1>1
  <2> HIDE DEF m
  <2>5. Len(m) - Len(m) + 1 = 1 /\ Len(m) = IF Len(m) < MaxEvents THEN Len(m) ELSE MaxEvents
    BY <1>1, <2>1, <2>4
  <2>6. m = SubSeq(m, 1, Len(m))
    BY <2>4, SubSeqFull, Zenon
  <2>7. IsTail(m, m)
    BY <2>5, <2>6, Zenon DEF IsTail
  <2> QED
    BY <2>3, <2>4, <2>7, Zenon DEF m
<1> QED
  BY <1>2, <1>3

-----------------------------------------------------------------------------
\* A queue is registered under its generator's job, and only there, from the
\* snapshot until the finally block has run.
Registered ==
  \A s \in Sessions, j \in Jobs :
    s \in subscribers[j] <=> pc[s] # "idle" /\ job[s] = j

\* The inductive invariant: NoGapNoRepeat needs to know that the deque is the
\* tail of the log and that exactly the live generators are registered.
IInv ==
  /\ TypeOK
  /\ LogOrdered
  /\ DequeIsTail
  /\ Registered
  /\ NoGapNoRepeat

\* What a generator has shown and still holds.
Owed(s) == (yielded[s] \o replay[s]) \o queue[s]

LEMMA OwedIsEvents ==
  ASSUME TypeOK, NEW s \in Sessions
  PROVE  /\ yielded[s] \in Seq(Events) /\ replay[s] \in Seq(Events)
         /\ queue[s] \in Seq(Events)
         /\ yielded[s] \o replay[s] \in Seq(Events)
<1>1. /\ yielded[s] \in Seq(Events) /\ replay[s] \in Seq(Events)
      /\ queue[s] \in Seq(Events)
  BY DEF TypeOK
<1>2. yielded[s] \o replay[s] \in Seq(Events)
  BY <1>1, ConcatProperties, Zenon
<1> QED
  BY <1>1, <1>2

LEMMA OwedGrows ==
  ASSUME TypeOK, NEW s \in Sessions, NEW e \in Events
  PROVE  (yielded[s] \o replay[s]) \o Append(queue[s], e) = Append(Owed(s), e)
<1>1. queue[s] \in Seq(Events) /\ yielded[s] \o replay[s] \in Seq(Events)
  BY OwedIsEvents
<1>2. \A a, b \in Seq(Events) : a \o Append(b, e) = Append(a \o b, e)
  BY AppendToConcat
<1> QED
  BY <1>1, <1>2, Zenon DEF Owed

LEMMA InitIInv == Init => IInv
<1> SUFFICES ASSUME Init PROVE IInv
  OBVIOUS
<1>1. TypeOK
  BY HubAssumption DEF Init, TypeOK
<1>2. LogOrdered /\ Registered /\ NoGapNoRepeat
  BY DEF Init, LogOrdered, Registered, NoGapNoRepeat
<1>3. DequeIsTail
  <2>1. IsTail(<<>>, <<>>)
    BY HubAssumption DEF IsTail
  <2> QED
    BY <2>1 DEF Init, DequeIsTail
<1> QED
  BY <1>1, <1>2, <1>3 DEF IInv

LEMMA PublishIInv ==
  ASSUME IInv, NEW j \in Jobs, NEW st \in Statuses, Publish(j, st)
  PROVE  IInv'
<1> DEFINE e == Stored(j, st)
<1>1. e \in Events /\ e.id = nextId + 1 /\ e.job = j /\ nextId + 1 \in Nat
  BY HubAssumption DEF IInv, TypeOK, Publish, Stored, Events, EventIds
<1>2. /\ nextId' = nextId + 1
      /\ events' = [events EXCEPT ![j] = Retain(events[j], e)]
      /\ queue' = [s \in Sessions |->
                     IF s \in subscribers[j] THEN Append(queue[s], e) ELSE queue[s]]
      /\ log' = [log EXCEPT ![j] = Append(log[j], e)]
      /\ UNCHANGED <<subscribers, pc, job, replay, first, yielded>>
  BY Zenon DEF Publish
<1> HIDE DEF e
<1>3. TypeOK' /\ DequeIsTail'
  <2>1. MaxEvents \in Nat \ {0} /\ log[j] \in Seq(Events) /\ events[j] \in Seq(Events)
    BY HubAssumption DEF IInv, TypeOK
  <2>2. IsTail(events[j], log[j])
    BY DEF IInv, DequeIsTail
  <2>3. /\ Retain(events[j], e) \in Seq(Events)
        /\ IsTail(Retain(events[j], e), Append(log[j], e))
    BY <1>1, <2>1, <2>2, RetainIsTail
  <2>4. DequeIsTail'
    <3>1. /\ events'[j] = Retain(events[j], e) /\ log'[j] = Append(log[j], e)
          /\ \A k \in Jobs \ {j} : events'[k] = events[k] /\ log'[k] = log[k]
      BY <1>2 DEF IInv, TypeOK
    <3> QED
      BY <2>3, <3>1 DEF IInv, DequeIsTail, IsTail
  <2>5. nextId' \in 0..MaxPublished
    BY <1>2, HubAssumption DEF IInv, TypeOK, Publish
  <2>6. Append(log[j], e) \in Seq(Events) /\ \A s \in Sessions : queue'[s] \in Seq(Events)
    BY <1>1, <1>2, <2>1, AppendProperties DEF IInv, TypeOK
  <2> QED
    BY <1>2, <2>3, <2>4, <2>5, <2>6 DEF IInv, TypeOK
<1>4. LogOrdered'
  <2>1. /\ log'[j] = Append(log[j], e) /\ log[j] \in Seq(Events)
        /\ \A k \in Jobs \ {j} : log'[k] = log[k]
    BY <1>2 DEF IInv, TypeOK
  <2>2. /\ Len(log'[j]) = Len(log[j]) + 1 /\ Len(log[j]) \in Nat
        /\ \A i \in 1..Len(log[j]) : log'[j][i] = log[j][i]
        /\ log'[j][Len(log[j]) + 1] = e
    BY <1>1, <2>1, AppendProperties, LenProperties
  <2>3. /\ \A k \in Jobs : Len(log[k]) \in Nat /\ \A i \in 1..Len(log[k]) : log[k][i].id \in Nat
        /\ nextId \in Nat
    <3>1. \A k \in Jobs : Len(log[k]) \in Nat /\ \A i \in 1..Len(log[k]) : log[k][i] \in Events
      BY ElementOfSeq, LenProperties DEF IInv, TypeOK
    <3> QED
      BY <3>1, SMTT(30) DEF IInv, TypeOK, Events, EventIds
  <2>4. ASSUME NEW k \in Jobs, NEW i \in 1..Len(log'[k])
        PROVE  log'[k][i].id <= nextId' /\ log'[k][i].job = k
    BY <1>1, <1>2, <2>1, <2>2, <2>3 DEF IInv, LogOrdered
  <2>5. ASSUME NEW k \in Jobs, NEW h \in 1..Len(log'[k]), NEW i \in 1..h-1
        PROVE  log'[k][i].id < log'[k][h].id
    <3>1. CASE k # j
      BY <2>1, <2>5, <3>1 DEF IInv, LogOrdered
    <3>2. CASE k = j /\ h <= Len(log[j])
      <4>1. i \in 1..Len(log[j]) /\ h \in 1..Len(log[j])
        BY <2>2, <2>5, <3>2
      <4>2. log[j][i].id < log[j][h].id
        BY <2>5, <4>1 DEF IInv, LogOrdered
      <4> QED
        BY <2>2, <3>2, <4>1, <4>2
    <3>3. CASE k = j /\ h = Len(log[j]) + 1
      <4>1. i \in 1..Len(log[j])
        BY <2>2, <2>5, <3>3
      <4>2. log[j][i].id <= nextId /\ log[j][i].id \in Nat
        BY <2>3, <4>1 DEF IInv, LogOrdered
      <4> QED
        BY <1>1, <2>2, <2>3, <3>3, <4>1, <4>2, SMTT(60)
    <3> QED
      BY <2>2, <2>5, <3>1, <3>2, <3>3
  <2> QED
    BY <2>4, <2>5 DEF LogOrdered
<1>5. Registered'
  BY <1>2 DEF IInv, Registered
<1>6. NoGapNoRepeat'
  <2> SUFFICES ASSUME NEW s \in Sessions, pc[s] # "idle"
               PROVE  /\ first[s] \in 1..Len(log'[job[s]]) + 1
                      /\ (yielded[s] \o replay[s]) \o queue'[s]
                           = SubSeq(log'[job[s]], first[s], Len(log'[job[s]]))
    BY <1>2 DEF NoGapNoRepeat
  <2>1. /\ first[s] \in 1..Len(log[job[s]]) + 1
        /\ (yielded[s] \o replay[s]) \o queue[s]
             = SubSeq(log[job[s]], first[s], Len(log[job[s]]))
        /\ job[s] \in Jobs
        /\ log[job[s]] \in Seq(Events)
    BY DEF IInv, NoGapNoRepeat, TypeOK
  <2>2. CASE job[s] # j
    <3>1. queue'[s] = queue[s] /\ log'[job[s]] = log[job[s]]
      BY <1>2, <2>1, <2>2 DEF IInv, Registered, TypeOK
    <3> QED
      BY <2>1, <3>1
  <2>3. CASE job[s] = j
    <3>1. queue'[s] = Append(queue[s], e) /\ log'[job[s]] = Append(log[job[s]], e)
      BY <1>2, <2>1, <2>3 DEF IInv, Registered, TypeOK
    <3>2. (yielded[s] \o replay[s]) \o Append(queue[s], e)
            = Append((yielded[s] \o replay[s]) \o queue[s], e)
      BY <1>1, OwedGrows, Zenon DEF IInv, Owed
    <3>3. SubSeq(Append(log[job[s]], e), first[s], Len(Append(log[job[s]], e)))
            = Append(SubSeq(log[job[s]], first[s], Len(log[job[s]])), e)
      BY <1>1, <2>1, SuffixOfAppend, Zenon
    <3>4. first[s] \in 1..Len(Append(log[job[s]], e)) + 1
      BY <1>1, <2>1, AppendProperties, LenProperties
    <3> QED
      BY <2>1, <3>1, <3>2, <3>3, <3>4, Zenon
  <2> QED
    BY <2>2, <2>3
<1> QED
  BY <1>3, <1>4, <1>5, <1>6 DEF IInv

LEMMA SubscribeIInv ==
  ASSUME IInv, NEW s \in Sessions, NEW j \in Jobs, NEW after \in Nat,
         Subscribe(s, j, after)
  PROVE  IInv'
<1> DEFINE r == After(events[j], after)
<1>1. /\ pc' = [pc EXCEPT ![s] = "open"]
      /\ job' = [job EXCEPT ![s] = j]
      /\ replay' = [replay EXCEPT ![s] = r]
      /\ queue' = [queue EXCEPT ![s] = <<>>]
      /\ subscribers' = [subscribers EXCEPT ![j] = subscribers[j] \cup {s}]
      /\ first' = [first EXCEPT ![s] = Len(log[j]) - Len(r) + 1]
      /\ yielded' = [yielded EXCEPT ![s] = <<>>]
      /\ UNCHANGED <<nextId, events, log>>
      /\ pc[s] = "idle"
  BY Zenon DEF Subscribe
<1> HIDE DEF r
<1>2. /\ r \in Seq(Events)
      /\ Len(log[j]) - Len(r) + 1 \in 1..Len(log[j]) + 1
      /\ r = SubSeq(log[j], Len(log[j]) - Len(r) + 1, Len(log[j]))
  <2>1. /\ log[j] \in Seq(Events) /\ events[j] \in Seq(Events)
        /\ Len(log[j]) \in Nat /\ Len(events[j]) \in Nat
    BY LenProperties DEF IInv, TypeOK
  <2>2. PICK q \in 1..Len(events[j]) + 1 : r = SubSeq(events[j], q, Len(events[j]))
    BY <2>1, AfterIsSuffix, Zenon DEF r
  <2>3. IsTail(events[j], log[j]) /\ MaxEvents \in Nat \ {0}
    BY HubAssumption, Zenon DEF IInv, DequeIsTail
  <2>4. PICK p \in 1..Len(log[j]) + 1 : /\ r = SubSeq(log[j], p, Len(log[j]))
                                         /\ r \in Seq(Events)
                                         /\ Len(r) = Len(log[j]) - p + 1
    BY <2>1, <2>2, <2>3, SuffixOfDeque, ZenonT(60)
  <2>5. p = Len(log[j]) - Len(r) + 1
    BY <2>1, <2>4
  <2> QED
    BY <2>4, <2>5, Zenon
<1>3. TypeOK'
  BY <1>1, <1>2, SMTT(60) DEF IInv, TypeOK
<1>4. LogOrdered' /\ DequeIsTail'
  <2>1. nextId' = nextId /\ events' = events /\ log' = log
    BY <1>1
  <2>2. LogOrdered /\ DequeIsTail
    BY DEF IInv
  <2> QED
    BY <2>1, <2>2 DEF LogOrdered, DequeIsTail, IsTail
<1>5. Registered'
  <2>1. /\ \A t \in Sessions : pc'[t] = IF t = s THEN "open" ELSE pc[t]
        /\ \A t \in Sessions : job'[t] = IF t = s THEN j ELSE job[t]
        /\ \A k \in Jobs :
             subscribers'[k] = IF k = j THEN subscribers[j] \cup {s} ELSE subscribers[k]
    BY <1>1 DEF IInv, TypeOK
  <2>2. \A t \in Sessions, k \in Jobs :
          t \in subscribers[k] <=> pc[t] # "idle" /\ job[t] = k
    BY DEF IInv, Registered
  <2>3. \A t \in Sessions, k \in Jobs :
          t \in subscribers'[k] <=> pc'[t] # "idle" /\ job'[t] = k
    BY <1>1, <2>1, <2>2
  <2> QED
    BY <2>3, Zenon DEF Registered
<1>6. NoGapNoRepeat'
  <2> SUFFICES ASSUME NEW t \in Sessions, pc'[t] # "idle"
               PROVE  /\ first'[t] \in 1..Len(log'[job'[t]]) + 1
                      /\ (yielded'[t] \o replay'[t]) \o queue'[t]
                           = SubSeq(log'[job'[t]], first'[t], Len(log'[job'[t]]))
    BY <1>1 DEF NoGapNoRepeat
  <2>1. CASE t # s
    BY <1>1, <2>1 DEF IInv, NoGapNoRepeat, TypeOK
  <2>2. CASE t = s
    <3>1. /\ yielded'[s] = <<>> /\ replay'[s] = r /\ queue'[s] = <<>> /\ log' = log
          /\ job'[s] = j /\ first'[s] = Len(log[j]) - Len(r) + 1
      BY <1>1 DEF IInv, TypeOK
    <3>2. (<<>> \o r) \o <<>> = r
      BY <1>2, ConcatEmptySeq
    <3> QED
      BY <1>2, <2>2, <3>1, <3>2
  <2> QED
    BY <2>1, <2>2
<1> QED
  BY <1>3, <1>4, <1>5, <1>6 DEF IInv

LEMMA YieldIInv ==
  ASSUME IInv, NEW s \in Sessions, YieldReplay(s) \/ YieldLive(s)
  PROVE  IInv'
<1>1. /\ pc[s] = "open"
      /\ UNCHANGED <<nextId, events, subscribers, pc, job, log, first>>
  BY DEF YieldReplay, YieldLive, session
<1>2. /\ yielded' \in [Sessions -> Seq(Events)]
      /\ replay' \in [Sessions -> Seq(Events)]
      /\ queue' \in [Sessions -> Seq(Events)]
      /\ \A t \in Sessions : Owed(t)' = Owed(t)
  <2>1. CASE YieldReplay(s)
    <3>1. replay[s] \in Seq(Events) /\ replay[s] # <<>> /\ yielded[s] \in Seq(Events)
      BY <2>1 DEF YieldReplay, IInv, TypeOK
    <3>2. /\ Append(yielded[s], Head(replay[s])) \in Seq(Events)
          /\ Tail(replay[s]) \in Seq(Events)
      BY <3>1, HeadTailProperties, AppendProperties
    <3>3. Append(yielded[s], Head(replay[s])) \o Tail(replay[s]) = yielded[s] \o replay[s]
      BY <3>1, MoveHead, Zenon
    <3>4. /\ yielded'[s] = Append(yielded[s], Head(replay[s]))
          /\ replay'[s] = Tail(replay[s])
          /\ queue' = queue
          /\ \A t \in Sessions \ {s} : yielded'[t] = yielded[t] /\ replay'[t] = replay[t]
      BY <2>1 DEF YieldReplay, IInv, TypeOK
    <3>5. /\ yielded' \in [Sessions -> Seq(Events)]
          /\ replay' \in [Sessions -> Seq(Events)]
      BY <2>1, <3>2 DEF YieldReplay, IInv, TypeOK
    <3> QED
      BY <3>3, <3>4, <3>5 DEF Owed, IInv, TypeOK
  <2>2. CASE YieldLive(s)
    <3>1. queue[s] \in Seq(Events) /\ queue[s] # <<>> /\ yielded[s] \in Seq(Events)
          /\ replay[s] = <<>>
      BY <2>2 DEF YieldLive, IInv, TypeOK
    <3>2. /\ Append(yielded[s], Head(queue[s])) \in Seq(Events)
          /\ Tail(queue[s]) \in Seq(Events)
      BY <3>1, HeadTailProperties, AppendProperties
    <3>3. Append(yielded[s], Head(queue[s])) \o Tail(queue[s]) = yielded[s] \o queue[s]
      BY <3>1, MoveHead, Zenon
    <3>4. /\ yielded'[s] = Append(yielded[s], Head(queue[s]))
          /\ queue'[s] = Tail(queue[s])
          /\ replay' = replay
          /\ \A t \in Sessions \ {s} : yielded'[t] = yielded[t] /\ queue'[t] = queue[t]
      BY <2>2 DEF YieldLive, IInv, TypeOK
    <3>5. /\ yielded' \in [Sessions -> Seq(Events)]
          /\ queue' \in [Sessions -> Seq(Events)]
      BY <2>2, <3>2 DEF YieldLive, IInv, TypeOK
    <3>6. /\ yielded'[s] \o <<>> = yielded'[s]
          /\ yielded[s] \o <<>> = yielded[s]
      BY <3>1, <3>2, <3>4, ConcatEmptySeq
    <3>7. Owed(s)' = Owed(s)
      BY <3>1, <3>3, <3>4, <3>6, Zenon DEF Owed
    <3> QED
      BY <3>4, <3>5, <3>7 DEF Owed, IInv, TypeOK
  <2> QED
    BY <2>1, <2>2
<1>3. TypeOK'
  BY <1>1, <1>2 DEF IInv, TypeOK
<1>4. LogOrdered' /\ DequeIsTail' /\ Registered'
  BY <1>1 DEF IInv, LogOrdered, DequeIsTail, IsTail, Registered
<1>5. NoGapNoRepeat'
  BY <1>1, <1>2 DEF IInv, NoGapNoRepeat, Owed
<1> QED
  BY <1>3, <1>4, <1>5 DEF IInv

LEMMA LeaveIInv ==
  ASSUME IInv, NEW s \in Sessions, Abandon(s) \/ Unregister(s)
  PROVE  IInv'
<1>1. UNCHANGED <<nextId, events, job, replay, queue, log, first, yielded>>
  BY DEF Abandon, Unregister
<1>2. TypeOK'
  <2>1. pc' \in [Sessions -> {"idle", "open", "closing"}]
    BY DEF IInv, TypeOK, Abandon, Unregister
  <2>2. subscribers' \in [Jobs -> SUBSET Sessions]
    <3>1. CASE Abandon(s)
      BY <3>1 DEF IInv, TypeOK, Abandon
    <3>2. CASE Unregister(s)
      BY <3>2 DEF IInv, TypeOK, Unregister
    <3> QED
      BY <3>1, <3>2
  <2> QED
    BY <1>1, <2>1, <2>2 DEF IInv, TypeOK
<1>3. LogOrdered' /\ DequeIsTail'
  <2>1. nextId' = nextId /\ events' = events /\ log' = log
    BY <1>1
  <2>2. LogOrdered /\ DequeIsTail
    BY DEF IInv
  <2> QED
    BY <2>1, <2>2 DEF LogOrdered, DequeIsTail, IsTail
<1>4. Registered'
  BY <1>1, SMTT(60) DEF IInv, Registered, TypeOK, Abandon, Unregister
<1>5. \A t \in Sessions : pc'[t] # "idle" => pc[t] # "idle"
  BY DEF IInv, TypeOK, Abandon, Unregister
<1>6. NoGapNoRepeat'
  BY <1>1, <1>5 DEF IInv, NoGapNoRepeat
<1> QED
  BY <1>2, <1>3, <1>4, <1>6 DEF IInv

LEMMA NextIInv == IInv /\ [Next]_vars => IInv'
<1> SUFFICES ASSUME IInv, [Next]_vars PROVE IInv'
  OBVIOUS
<1>1. ASSUME NEW j \in Jobs, NEW st \in Statuses, Publish(j, st) PROVE IInv'
  BY <1>1, PublishIInv
<1>2. ASSUME NEW s \in Sessions, NEW j \in Jobs, NEW after \in 0..nextId, Subscribe(s, j, after)
      PROVE  IInv'
  <2>1. after \in Nat
    BY HubAssumption DEF IInv, TypeOK
  <2> QED
    BY <1>2, <2>1, SubscribeIInv
<1>3. ASSUME NEW s \in Sessions, YieldReplay(s) \/ YieldLive(s) PROVE IInv'
  BY <1>3, YieldIInv
<1>4. ASSUME NEW s \in Sessions, Abandon(s) \/ Unregister(s) PROVE IInv'
  BY <1>4, LeaveIInv
<1>5. CASE UNCHANGED vars
  BY <1>5 DEF vars, IInv, TypeOK, LogOrdered, DequeIsTail, IsTail, Registered, NoGapNoRepeat
<1> QED
  BY <1>1, <1>2, <1>3, <1>4, <1>5 DEF Next

(* The hub never loses or repeats an event of a live subscription, whatever the
   number of jobs, subscribers and publications and however short the deque. *)
THEOREM HubNoGapNoRepeat == Spec => []NoGapNoRepeat
<1>1. Spec => []IInv
  BY InitIInv, NextIInv, PTL DEF Spec
<1>2. IInv => NoGapNoRepeat
  BY DEF IInv
<1> QED
  BY <1>1, <1>2, PTL

(* Every reachable state of the hub is well typed, its events are filed in id
   order and its deques are the tails of the logs. *)
THEOREM HubInvariant == Spec => [](TypeOK /\ LogOrdered /\ DequeIsTail)
<1>1. Spec => []IInv
  BY InitIInv, NextIInv, PTL DEF Spec
<1>2. IInv => TypeOK /\ LogOrdered /\ DequeIsTail
  BY DEF IInv
<1> QED
  BY <1>1, <1>2, PTL
-----------------------------------------------------------------------------
\* The refinement: what the event loop shows is what the abstract feed shows.

\* In the concatenation of what was yielded, replayed and queued, the element
\* after the yielded ones is the next one to yield.
LEMMA NextOwed ==
  ASSUME NEW y \in Seq(Events), NEW r \in Seq(Events), NEW q \in Seq(Events)
  PROVE  /\ r # <<>> => ((y \o r) \o q)[Len(y) + 1] = Head(r)
         /\ r = <<>> /\ q # <<>> => ((y \o r) \o q)[Len(y) + 1] = Head(q)
         /\ r # <<>> \/ q # <<>> => Len(y) + 1 <= Len((y \o r) \o q)
<1>1. /\ y \o r \in Seq(Events)
      /\ Len(y \o r) = Len(y) + Len(r)
      /\ \A i \in 1..Len(y) + Len(r) : (y \o r)[i] = IF i <= Len(y) THEN y[i] ELSE r[i - Len(y)]
  BY ConcatProperties
<1> DEFINE c == y \o r
<1>2. /\ Len(c \o q) = Len(c) + Len(q)
      /\ \A i \in 1..Len(c) + Len(q) : (c \o q)[i] = IF i <= Len(c) THEN c[i] ELSE q[i - Len(c)]
  <2> HIDE DEF c
  <2>1. c \in Seq(Events)
    BY <1>1, Zenon DEF c
  <2> QED
    BY <2>1, ConcatProperties
<1>3. /\ Len(y) \in Nat /\ Len(r) \in Nat /\ Len(q) \in Nat
      /\ r # <<>> => Len(r) >= 1 /\ Head(r) = r[1]
      /\ q # <<>> => Len(q) >= 1 /\ Head(q) = q[1]
      /\ r = <<>> => Len(r) = 0
  BY EmptySeq, LenProperties
<1>4. /\ Len(c) = Len(y) + Len(r)
      /\ \A i \in 1..Len(y) + Len(r) : c[i] = IF i <= Len(y) THEN y[i] ELSE r[i - Len(y)]
  BY <1>1, Zenon
<1> HIDE DEF c
<1>5. /\ r # <<>> => (c \o q)[Len(y) + 1] = Head(r)
      /\ r = <<>> /\ q # <<>> => (c \o q)[Len(y) + 1] = Head(q)
      /\ r # <<>> \/ q # <<>> => Len(y) + 1 <= Len(c \o q)
  BY <1>2, <1>3, <1>4
<1> QED
  BY <1>5, Zenon DEF c

LEMMA YieldShows ==
  ASSUME IInv, NEW s \in Sessions, YieldReplay(s) \/ YieldLive(s)
  PROVE  Feed!Show(s)
<1> DEFINE l == log[job[s]]
           e == IF replay[s] # <<>> THEN Head(replay[s]) ELSE Head(queue[s])
           n == first[s] + Len(yielded[s])
<1>1. /\ pc[s] = "open" /\ UNCHANGED <<log, pc, job, first>>
      /\ replay[s] # <<>> \/ queue[s] # <<>>
      /\ yielded' = [yielded EXCEPT ![s] = Append(yielded[s], e)]
  BY DEF YieldReplay, YieldLive, session
<1>2. /\ l \in Seq(Events) /\ Len(l) \in Nat
      /\ first[s] \in 1..Len(l) + 1
      /\ Owed(s) = SubSeq(l, first[s], Len(l))
      /\ Len(yielded[s]) \in Nat
  BY <1>1, OwedIsEvents, LenProperties DEF IInv, TypeOK, NoGapNoRepeat, Owed
<1>3. /\ Owed(s)[Len(yielded[s]) + 1] = e
      /\ Len(yielded[s]) + 1 <= Len(Owed(s))
  <2>1. /\ yielded[s] \in Seq(Events) /\ replay[s] \in Seq(Events) /\ queue[s] \in Seq(Events)
    BY OwedIsEvents, Zenon DEF IInv
  <2>2. \/ replay[s] # <<>> /\ e = Head(replay[s])
        \/ replay[s] = <<>> /\ queue[s] # <<>> /\ e = Head(queue[s])
    BY <1>1
  <2> HIDE DEF e
  <2>3. /\ replay[s] # <<>> => Owed(s)[Len(yielded[s]) + 1] = Head(replay[s])
        /\ replay[s] = <<>> /\ queue[s] # <<>> => Owed(s)[Len(yielded[s]) + 1] = Head(queue[s])
        /\ replay[s] # <<>> \/ queue[s] # <<>> => Len(yielded[s]) + 1 <= Len(Owed(s))
    BY <2>1, NextOwed, Zenon DEF Owed
  <2> QED
    BY <2>2, <2>3, Zenon
<1>4. /\ Len(SubSeq(l, first[s], Len(l))) = Len(l) - first[s] + 1
      /\ \A i \in 1..Len(l) - first[s] + 1 : SubSeq(l, first[s], Len(l))[i] = l[first[s] + i - 1]
  <2> HIDE DEF l
  <2>1. \A i \in first[s]..Len(l) : l[i] \in Events
    BY <1>2, ElementOfSeq
  <2> QED
    BY <1>2, <2>1, SubSeqProperties
<1> HIDE DEF l, e
<1>5. n <= Len(l) /\ l[n] = e
  <2> DEFINE k == Len(yielded[s]) + 1
  <2>1. /\ Len(Owed(s)) = Len(l) - first[s] + 1
        /\ \A i \in 1..Len(l) - first[s] + 1 : Owed(s)[i] = l[first[s] + i - 1]
        /\ Owed(s)[k] = e
        /\ k <= Len(Owed(s))
    BY <1>2, <1>3, <1>4, Zenon
  <2>2. k \in 1..Len(l) - first[s] + 1 /\ first[s] + k - 1 = n /\ n <= Len(l)
    BY <1>2, <2>1
  <2> HIDE DEF k, n
  <2>3. l[first[s] + k - 1] = e
    BY <2>1, <2>2, Zenon
  <2> QED
    BY <2>2, <2>3, Zenon
<1> QED
  BY <1>1, <1>5, Zenon DEF Feed!Show, l

LEMMA SubscribeFollows ==
  ASSUME IInv, NEW s \in Sessions, NEW j \in Jobs, NEW after \in Nat,
         Subscribe(s, j, after)
  PROVE  \E f \in 1..Len(log[j]) + 1 : Feed!Follow(s, j, after, f)
<1> DEFINE l == log[j]
           d == events[j]
           r == After(d, after)
<1>1. /\ l \in Seq(Events) /\ d \in Seq(Events)
      /\ Len(l) \in Nat /\ Len(d) \in Nat
      /\ \A i \in 1..Len(l) : l[i].id \in Nat
  <2>1. l \in Seq(Events) /\ d \in Seq(Events)
    BY DEF IInv, TypeOK
  <2>2. \A i \in 1..Len(l) : l[i] \in Events
    BY <2>1, ElementOfSeq, Zenon
  <2> QED
    BY <2>1, <2>2, LenProperties DEF Events, EventIds
<1>2. IsTail(d, l) /\ MaxEvents \in Nat \ {0}
  BY HubAssumption, Zenon DEF IInv, DequeIsTail
<1>3. \A k \in 1..Len(l) : \A i \in 1..k-1 : l[i].id < l[k].id
  BY DEF IInv, LogOrdered
<1>4. PICK q \in 1..Len(d) + 1 :
        /\ r = SubSeq(d, q, Len(d))
        /\ \A i \in 1..q-1 : d[i].id <= after
        /\ q <= Len(d) => d[q].id > after
  BY <1>1, AfterIsSuffix
<1> HIDE DEF l, d, r
<1>5. PICK p \in 1..Len(l) + 1 : /\ r = SubSeq(l, p, Len(l))
                                /\ Len(r) = Len(l) - p + 1
                                /\ p - q = Len(l) - Len(d)
  BY <1>1, <1>2, <1>4, SuffixOfDeque, ZenonT(60)
<1>6. Len(l) - Len(r) + 1 = p
  BY <1>1, <1>5
<1>7. \A i \in 1..Len(d) : d[i] = l[Len(l) - Len(d) + i]
  <2>1. PICK m \in Int : m = Len(l) - Len(d) + 1
    <3>1. Len(l) - Len(d) + 1 \in Int
      BY <1>1
    <3> QED
      BY <3>1, Zenon
  <2>2. d = SubSeq(l, m, Len(l))
    BY <1>2, <2>1, Zenon DEF IsTail
  <2>3. Len(d) <= Len(l)
    <3>1. Len(d) = IF Len(l) < MaxEvents THEN Len(l) ELSE MaxEvents
      BY <1>2, Zenon DEF IsTail
    <3> QED
      BY <1>1, <1>2, <3>1
  <2>4. \A i \in m..Len(l) : l[i] \in Events
    BY <1>1, <2>1, <2>3, ElementOfSeq
  <2>5. \A i \in 1..Len(l) - m + 1 : SubSeq(l, m, Len(l))[i] = l[m + i - 1]
    BY <1>1, <2>4, SubSeqProperties
  <2>6. /\ Len(l) - m + 1 = Len(d)
        /\ \A i \in 1..Len(d) : m + i - 1 = Len(l) - Len(d) + i
    BY <1>1, <2>1
  <2>7. \A i \in 1..Len(d) : d[i] = l[m + i - 1]
    BY <2>2, <2>5, <2>6, Zenon
  <2> QED
    BY <2>6, <2>7, Zenon
<1>8. \A i \in 1..p-1 : l[i].id <= after \/ i + MaxEvents <= Len(l)
  <2> SUFFICES ASSUME NEW i \in 1..p-1, ~ (i + MaxEvents <= Len(l))
               PROVE  l[i].id <= after
    OBVIOUS
  <2>1. Len(d) = IF Len(l) < MaxEvents THEN Len(l) ELSE MaxEvents
    BY <1>2, Zenon DEF IsTail
  <2>2. PICK k \in Int : k = i - (Len(l) - Len(d))
    <3>1. i - (Len(l) - Len(d)) \in Int
      BY <1>1
    <3> QED
      BY <3>1, Zenon
  <2>3. k \in 1..q-1 /\ k \in 1..Len(d)
    BY <1>1, <1>2, <1>5, <2>1, <2>2
  <2>4. d[k].id <= after /\ d[k] = l[Len(l) - Len(d) + k]
    BY <1>4, <1>7, <2>3
  <2>5. Len(l) - Len(d) + k = i
    BY <1>1, <2>2
  <2> QED
    BY <2>4, <2>5
<1>9. \A i \in p..Len(l) : l[i].id > after
  <2> SUFFICES ASSUME NEW i \in p..Len(l) PROVE l[i].id > after
    OBVIOUS
  <2>1. q <= Len(d) /\ Len(l) - Len(d) + q = p /\ q \in 1..Len(d) /\ p \in 1..Len(l)
        /\ i \in 1..Len(l)
    BY <1>1, <1>5
  <2>2. l[p].id > after
    BY <1>4, <1>7, <2>1
  <2>3. i = p \/ l[p].id < l[i].id
    BY <1>3, <2>1
  <2> QED
    BY <1>1, <2>1, <2>2, <2>3
<1>10. /\ pc[s] = "idle"
       /\ pc' = [pc EXCEPT ![s] = "open"]
       /\ job' = [job EXCEPT ![s] = j]
       /\ first' = [first EXCEPT ![s] = p]
       /\ yielded' = [yielded EXCEPT ![s] = <<>>]
       /\ UNCHANGED log
  BY <1>6, Zenon DEF Subscribe, l, d, r
<1>11. {t \in Sessions : pc'[t] = "open"} = {t \in Sessions : pc[t] = "open"} \cup {s}
  BY <1>10 DEF IInv, TypeOK
<1>12. Feed!StartsAt(j, after, p)
  BY <1>8, <1>9, Zenon DEF Feed!StartsAt, l
<1> QED
  BY <1>10, <1>11, <1>12 DEF Feed!Follow, l

LEMMA InitFeed == Init => Feed!Init
BY DEF Init, Feed!Init

LEMMA NextFeed == IInv /\ [Next]_vars => [Feed!Next]_(Feed!vars)
<1> SUFFICES ASSUME IInv, [Next]_vars PROVE [Feed!Next]_(Feed!vars)
  OBVIOUS
<1>1. ASSUME NEW j \in Jobs, NEW st \in Statuses, Publish(j, st) PROVE Feed!Next
  <2>1. Stored(j, st) \in Events
    BY <1>1, HubAssumption DEF IInv, TypeOK, Publish, Stored, Events, EventIds
  <2>2. \A i \in 1..Len(log[j]) : log[j][i].id < Stored(j, st).id
    <3>1. Len(log[j]) \in Nat /\ \A i \in 1..Len(log[j]) : log[j][i] \in Events
      BY ElementOfSeq, LenProperties DEF IInv, TypeOK
    <3> QED
      BY <3>1, HubAssumption, SMTT(60) DEF IInv, TypeOK, LogOrdered, Stored, Events, EventIds
  <2>3. Feed!Record(j, Stored(j, st))
    BY <1>1, <2>2 DEF Publish, Feed!Record
  <2> QED
    BY <2>1, <2>3 DEF Feed!Next
<1>2. ASSUME NEW s \in Sessions, NEW j \in Jobs, NEW after \in 0..nextId, Subscribe(s, j, after)
      PROVE  Feed!Next
  <2>1. after \in Nat /\ after \in Cursors
    BY HubAssumption DEF IInv, TypeOK, Cursors
  <2>2. PICK f \in 1..Len(log[j]) + 1 : Feed!Follow(s, j, after, f)
    BY <1>2, <2>1, SubscribeFollows
  <2> QED
    BY <2>1, <2>2, Zenon DEF Feed!Next
<1>3. ASSUME NEW s \in Sessions, YieldReplay(s) \/ YieldLive(s) PROVE Feed!Next
  BY <1>3, YieldShows, Zenon DEF Feed!Next
<1>4. ASSUME NEW s \in Sessions, Abandon(s) PROVE Feed!Next
  <2>1. {t \in Sessions : pc'[t] = "open"} = {t \in Sessions : pc[t] = "open"} \ {s}
    BY <1>4 DEF Abandon, IInv, TypeOK
  <2>2. Feed!Stop(s)
    BY <1>4, <2>1 DEF Abandon, Feed!Stop
  <2> QED
    BY <2>2, Zenon DEF Feed!Next
<1>5. ASSUME NEW s \in Sessions, Unregister(s) PROVE UNCHANGED Feed!vars
  <2>1. {t \in Sessions : pc'[t] = "open"} = {t \in Sessions : pc[t] = "open"}
    BY <1>5 DEF Unregister, IInv, TypeOK
  <2> QED
    BY <1>5, <2>1 DEF Unregister, Feed!vars
<1>6. CASE UNCHANGED vars
  BY <1>6 DEF vars, Feed!vars
<1> QED
  BY <1>1, <1>2, <1>3, <1>4, <1>5, <1>6 DEF Next

(* The hub's snapshot, live queue and bounded deque implement the abstract feed:
   every subscriber reads the job's log from its cursor, in order, without gaps. *)
THEOREM HubImplementsFeed == Spec => ImplementsFeed
<1>1. Spec => []IInv
  BY InitIInv, NextIInv, PTL DEF Spec
<1> QED
  BY <1>1, InitFeed, NextFeed, PTL DEF Spec, ImplementsFeed, Feed!Spec
=============================================================================
