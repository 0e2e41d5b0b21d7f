------------------------- MODULE StreamPipeline_proofs -------------------------
(***************************************************************************)
(* Proofs about TranscriptionWorker, for any workers, engines, streams and *)
(* jobs, and any number of faults; then about StreamPipeline, which puts   *)
(* its sockets in front of these workers: chunk files and what             *)
(* finalizations are computed over.                                        *)
(***************************************************************************)
EXTENDS StreamPipeline, SequenceLemmas, FiniteSetTheorems

-----------------------------------------------------------------------------
(* The worker: its place in run_once, the events of its job and the account of the queue. *)

\* What a job's engines have done, and what its listener has seen.
Unasked(n) == \A e \in Engines : outcome[n][e] = "unasked"
Asked(n) == \A e \in Engines : outcome[n][e] = "unasked" <=> e \notin jobs[n].engines
Settled(n) == \A e \in Engines : outcome[n][e] # "running"

UpTo(n, rank) == \A i \in 1..Len(events[n]) : Rank(events[n][i]) <= rank

InOrder(n) ==
  \A i \in 1..Len(events[n]) - 1 : Rank(events[n][i]) < Rank(events[n][i + 1])

Agrees(n, status) ==
  jobs[n].kind = "batch" =>
    /\ status = "COMPLETED" => Successful(n) = jobs[n].engines
    /\ status = "PARTIAL_SUCCESS" =>
         Successful(n) # {} /\ Successful(n) \subseteq jobs[n].engines
                            /\ Successful(n) # jobs[n].engines
    /\ status = "FAILED" => Successful(n) = {} \/ faults > 0

\* A worker's place in run_once, and what it says of the job.
Place(w) ==
  LET n == current[w] IN
  /\ n \in 1..taken
  /\ last[w] # None <=> pc[w] = "reporting"
  /\ UpTo(n, 4) /\ (jobs[n].kind # "batch" => events[n] = <<>>)
  /\ pc[w] = "taken" => events[n] = <<>> /\ Unasked(n)
  /\ pc[w] = "prepared" => UpTo(n, 1) /\ Unasked(n) /\ jobs[n].kind = "batch"
  /\ pc[w] \in {"diarizing", "diarized"} => UpTo(n, 2) /\ Unasked(n) /\ jobs[n].kind = "batch"
  /\ pc[w] = "running" => UpTo(n, 3) /\ Asked(n) /\ jobs[n].input # "absent"
  /\ pc[w] = "reporting" =>
       /\ UpTo(n, Rank(last[w]) - 1)
       /\ Settled(n) /\ Agrees(n, last[w])
       /\ jobs[n].kind # "chunk" => last[w] \in Terminal

Places ==
  \A w \in Workers : IF pc[w] = "idle" THEN current[w] = 0 /\ last[w] = None ELSE Place(w)

OwnJobs == \A v, w \in Workers : current[v] = current[w] /\ current[v] # 0 => v = w

Untouched == \A n \in Numbers : n > taken => events[n] = <<>> /\ Unasked(n)

ReportedJobs == {n \in 1..taken : Reported(n)}
GivenUpJobs == {n \in 1..taken : GivenUp(n)}

Accounts ==
  /\ \A n \in ReportedJobs : Settled(n) /\ Agrees(n, events[n][Len(events[n])])
  /\ done = Cardinality(ReportedJobs)
  /\ Cardinality(GivenUpJobs) <= faults

WorkerIInv ==
  /\ TypeOK
  /\ Places
  /\ OwnJobs
  /\ Untouched
  /\ StatusesInOrder
  /\ Accounts
-----------------------------------------------------------------------------
\* Statuses, sequences of them and finite sets of jobs.
LEMMA RankFacts ==
  /\ \A status \in Statuses : Rank(status) \in 1..5
  /\ \A status \in Statuses : status \in Terminal <=> Rank(status) = 5
  /\ Rank("PREPROCESSING") = 1 /\ Rank("DIARIZING") = 2 /\ Rank("TRANSCRIBING") = 3
  /\ Rank("ALIGNING") = 4
BY DEF Rank, Statuses, Terminal

LEMMA StatusSequence ==
  ASSUME NEW seq \in Seq(Statuses)
  PROVE  /\ Len(seq) \in Nat
         /\ \A i \in 1..Len(seq) : seq[i] \in Statuses /\ Rank(seq[i]) \in 1..5
         /\ seq # <<>> <=> Len(seq) \in 1..Len(seq)
<1>1. Len(seq) \in Nat /\ \A i \in 1..Len(seq) : seq[i] \in Statuses
  BY LenProperties, ElementOfSeq
<1>2. seq # <<>> <=> Len(seq) \in 1..Len(seq)
  BY <1>1, EmptySeq
<1> QED
  BY <1>1, <1>2, RankFacts, Zenon

LEMMA NotTerminalYet ==
  ASSUME NEW seq \in Seq(Statuses), \A i \in 1..Len(seq) : Rank(seq[i]) <= 4
  PROVE  seq # <<>> => seq[Len(seq)] \notin Terminal
<1>1. /\ \A i \in 1..Len(seq) : seq[i] \in Statuses
      /\ seq # <<>> => Len(seq) \in 1..Len(seq)
  BY StatusSequence, Zenon
<1>2. \A i \in 1..Len(seq) : Rank(seq[i]) # 5
  OBVIOUS
<1> QED
  BY <1>1, <1>2, RankFacts, Zenon

\* Appending a status above all the others.
LEMMA AppendStatus ==
  ASSUME NEW seq \in Seq(Statuses), NEW status \in Statuses,
         \A i \in 1..Len(seq) - 1 : Rank(seq[i]) < Rank(seq[i + 1]),
         \A i \in 1..Len(seq) : Rank(seq[i]) <= Rank(status) - 1
  PROVE  LET more == Append(seq, status) IN
         /\ more \in Seq(Statuses) /\ more # <<>>
         /\ more[Len(more)] = status
         /\ \A i \in 1..Len(more) - 1 : Rank(more[i]) < Rank(more[i + 1])
         /\ \A i \in 1..Len(more) : Rank(more[i]) <= Rank(status)
<1> DEFINE more == Append(seq, status)
<1>1. /\ more \in Seq(Statuses) /\ Len(more) = Len(seq) + 1 /\ Len(seq) \in Nat
      /\ \A i \in 1..Len(seq) : more[i] = seq[i] /\ Rank(seq[i]) \in 1..5
      /\ more[Len(seq) + 1] = status
  BY AppendProperties, StatusSequence
<1> HIDE DEF more
<1>2. more # <<>>
  BY <1>1, EmptySeq
<1>3. Rank(status) \in 1..5
  BY RankFacts
<1>4. \A i \in 1..Len(more) : i \in 1..Len(seq) \/ i = Len(seq) + 1
  BY <1>1
<1>5. \A i \in 1..Len(more) : Rank(more[i]) <= Rank(status)
  <2>1. \A i \in 1..Len(seq) : Rank(more[i]) <= Rank(status)
    <3>1. \A i \in 1..Len(seq) : Rank(seq[i]) <= Rank(status)
      BY <1>1, <1>3
    <3> QED
      BY <1>1, <3>1, Zenon
  <2>2. Rank(status) <= Rank(status)
    BY <1>3
  <2> QED
    BY <1>1, <1>4, <2>1, <2>2, Zenon
<1>6. \A i \in 1..Len(more) - 1 : Rank(more[i]) < Rank(more[i + 1])
  <2> SUFFICES ASSUME NEW i \in 1..Len(more) - 1 PROVE Rank(more[i]) < Rank(more[i + 1])
    OBVIOUS
  <2>1. i \in 1..Len(seq) /\ (i \in 1..Len(seq) - 1 \/ i = Len(seq))
    BY <1>1
  <2>2. CASE i \in 1..Len(seq) - 1
    <3>1. i + 1 \in 1..Len(seq)
      BY <1>1, <2>2
    <3> QED
      BY <1>1, <2>1, <2>2, <3>1, Zenon
  <2>3. CASE i = Len(seq)
    <3>1. Rank(seq[i]) < Rank(status)
      BY <1>1, <1>3, <2>1
    <3> QED
      BY <1>1, <2>1, <2>3, <3>1, Zenon
  <2> QED
    BY <2>1, <2>2, <2>3
<1>7. more[Len(more)] = status
  BY <1>1, Zenon
<1> QED
  BY <1>1, <1>2, <1>5, <1>6, <1>7, Zenon DEF more

LEMMA FiniteJobs ==
  ASSUME NEW n \in Nat, NEW T \in SUBSET (1..n)
  PROVE  IsFiniteSet(T) /\ Cardinality(T) \in Nat
<1>1. IsFiniteSet(1..n)
  BY FS_Interval
<1> QED
  BY <1>1, FS_Subset, FS_CardinalityType

\* The variables' types, one by one.
LEMMA WorkerTypes ==
  ASSUME TypeOK
  PROVE  /\ taken \in Nat /\ taken <= Len(jobs) /\ Len(jobs) \in Nat /\ MaxJobs \in Nat
         /\ 1..taken \subseteq Numbers /\ 1..taken \subseteq 1..Len(jobs)
         /\ \A n \in 1..Len(jobs) : jobs[n] \in Jobs
         /\ \A n \in Numbers : events[n] \in Seq(Statuses)
         /\ \A w \in Workers : current[w] \in 0..taken
<1>1. /\ jobs \in Seq(Jobs) /\ Len(jobs) <= MaxJobs /\ taken \in 0..Len(jobs)
      /\ \A n \in Numbers : events[n] \in Seq(Statuses)
      /\ \A w \in Workers : current[w] \in 0..taken
  BY DEF TypeOK
<1>2. Len(jobs) \in Nat /\ MaxJobs \in Nat
  BY <1>1, LenProperties, WorkerAssumption
<1> QED
  BY <1>1, <1>2, ElementOfSeq DEF Numbers

\* A job in work has not been reported.
LEMMA LowIsUnreported ==
  ASSUME NEW seq \in Seq(Statuses), NEW kind,
         \A i \in 1..Len(seq) : Rank(seq[i]) <= 4, kind = "chunk" => seq = <<>>
  PROVE  ~ (seq # <<>> /\ (seq[Len(seq)] \in Terminal \/ kind = "chunk"))
BY NotTerminalYet
-----------------------------------------------------------------------------
LEMMA InitWorker == Init => WorkerIInv
<1> SUFFICES ASSUME Init PROVE WorkerIInv
  OBVIOUS
<1>1. <<>> \in Seq(Jobs) /\ <<>> \in Seq(Numbers) /\ <<>> \in Seq(Statuses) /\ Len(<<>>) = 0
  BY EmptySeq
<1>2. MaxJobs \in Nat /\ MaxFaults \in Nat
  BY WorkerAssumption
<1>3. Nothing \in [chunks : Seq(Numbers), results : SUBSET (Numbers \X Engines)]
  BY <1>1 DEF Nothing
<1>4. TypeOK
  <2>1. /\ chunks \in [Workers -> [Streams -> Seq(Numbers)]]
        /\ results \in [Workers -> [Streams -> SUBSET (Numbers \X Engines)]]
        /\ final \in [Numbers -> [chunks : Seq(Numbers), results : SUBSET (Numbers \X Engines)]]
    BY <1>1, <1>3 DEF Init
  <2>2. /\ jobs \in Seq(Jobs) /\ Len(jobs) <= MaxJobs /\ taken \in 0..Len(jobs)
        /\ done \in 0..taken /\ current \in [Workers -> 0..taken] /\ faults \in 0..MaxFaults
    BY <1>1, <1>2 DEF Init
  <2>3. /\ events \in [Numbers -> Seq(Statuses)]
        /\ outcome \in [Numbers -> [Engines -> {"unasked", "running", "ok", "failed"}]]
        /\ last \in [Workers -> Statuses \cup {None}] /\ known \in [Workers -> SUBSET Streams]
    BY <1>1 DEF Init
  <2> QED
    BY <2>1, <2>2, <2>3 DEF TypeOK, Init
<1>5. Places
  BY DEF Init, Places
<1>6. OwnJobs /\ Untouched
  BY DEF Init, OwnJobs, Untouched, Unasked
<1>7. StatusesInOrder
  BY <1>1 DEF Init, StatusesInOrder
<1>8. Accounts
  <2>1. 1..taken = {}
    BY DEF Init
  <2>2. ReportedJobs = {} /\ GivenUpJobs = {}
    BY <2>1 DEF ReportedJobs, GivenUpJobs
  <2> QED
    BY <2>2, FS_EmptySet DEF Init, Accounts
<1> QED
  BY <1>4, <1>5, <1>6, <1>7, <1>8 DEF WorkerIInv

\* What nothing happens to stays as it is.
LEMMA JobStays ==
  ASSUME NEW m, jobs'[m].kind = jobs[m].kind, jobs'[m].engines = jobs[m].engines,
         events'[m] = events[m], outcome'[m] = outcome[m]
  PROVE  /\ Reported(m)' <=> Reported(m)
         /\ \A rank : UpTo(m, rank) => UpTo(m, rank)'
         /\ InOrder(m) => InOrder(m)'
         /\ Unasked(m) => Unasked(m)'
         /\ Asked(m) => Asked(m)'
         /\ Settled(m) => Settled(m)'
BY DEF Reported, UpTo, InOrder, Unasked, Asked, Settled

LEMMA AgreementStays ==
  ASSUME NEW m, NEW status, jobs'[m].kind = jobs[m].kind, jobs'[m].engines = jobs[m].engines,
         outcome'[m] = outcome[m], faults > 0 => faults' > 0, Agrees(m, status)
  PROVE  Agrees(m, status)'
<1>1. Successful(m)' = Successful(m)
  BY DEF Successful
<1> QED
  BY <1>1, Zenon DEF Agrees

LEMMA PlaceStays ==
  ASSUME NEW v, NEW n, n = current[v], Place(v), pc'[v] = pc[v], last'[v] = last[v],
         current'[v] = n, jobs'[n] = jobs[n], events'[n] = events[n], outcome'[n] = outcome[n],
         1..taken \subseteq 1..taken', faults > 0 => faults' > 0
  PROVE  Place(v)'
<1>1. /\ \A rank : UpTo(n, rank) => UpTo(n, rank)'
      /\ Unasked(n) => Unasked(n)'
      /\ Asked(n) => Asked(n)'
      /\ Settled(n) => Settled(n)'
  BY JobStays, Zenon
<1>2. \A status : Agrees(n, status) => Agrees(n, status)'
  BY AgreementStays, Zenon
<1> QED
  BY <1>1, <1>2, Zenon DEF Place

\* A worker goes on with its job.
LEMMA MovePreserves ==
  ASSUME WorkerIInv, TypeOK', NEW w \in Workers, NEW n, n = current[w],
         pc[w] # "idle", pc'[w] # "idle", Place(w)', InOrder(n)',
         jobs' = jobs, taken' = taken, done' = done, current' = current, faults' >= faults,
         \A v \in Workers \ {w} : pc'[v] = pc[v] /\ last'[v] = last[v],
         \A m \in Numbers \ {n} : events'[m] = events[m] /\ outcome'[m] = outcome[m]
  PROVE  WorkerIInv'
<1>1. /\ taken \in Nat /\ MaxJobs \in Nat /\ 1..taken \subseteq Numbers
      /\ \A v \in Workers : current[v] \in 0..taken
      /\ n \in 1..taken /\ n \in Numbers
      /\ events[n] \in Seq(Statuses) /\ events'[n] \in Seq(Statuses)
  <2>1. n \in 1..taken
    BY DEF WorkerIInv, Places, Place
  <2>2. events' \in [Numbers -> Seq(Statuses)]
    BY DEF TypeOK
  <2> QED
    BY <2>1, <2>2, WorkerTypes DEF WorkerIInv
<1>2. faults \in Nat /\ faults' \in Nat
  BY WorkerAssumption DEF WorkerIInv, TypeOK
<1>3. Places'
  <2>1. ASSUME NEW v \in Workers \ {w}, pc[v] # "idle"
        PROVE  Place(v)'
    <3>1. PICK m : m = current[v]
      OBVIOUS
    <3>2. m \in Numbers /\ m # n /\ Place(v)
      BY <1>1, <2>1, <3>1 DEF WorkerIInv, Places, Place, OwnJobs
    <3> QED
      BY <1>2, <2>1, <3>1, <3>2, PlaceStays
  <2> QED
    BY <2>1 DEF WorkerIInv, Places
<1>4. OwnJobs'
  BY DEF WorkerIInv, OwnJobs
<1>5. Untouched'
  BY <1>1 DEF WorkerIInv, Untouched, Unasked
<1>6. StatusesInOrder'
  BY DEF WorkerIInv, StatusesInOrder, InOrder
<1>7. ~ Reported(n) /\ ~ Reported(n)'
  <2>1. /\ UpTo(n, 4) /\ (jobs[n].kind # "batch" => events[n] = <<>>)
        /\ UpTo(n, 4)' /\ (jobs'[n].kind # "batch" => events'[n] = <<>>)
    BY DEF WorkerIInv, Places, Place
  <2> QED
    BY <1>1, <2>1, LowIsUnreported DEF UpTo, Reported
<1>8. \A m \in 1..taken : Reported(m)' <=> Reported(m)
  BY <1>1, <1>7, JobStays
<1>9. ReportedJobs' = ReportedJobs
  BY <1>8 DEF ReportedJobs
<1>10. GivenUpJobs' = GivenUpJobs
  BY <1>8 DEF GivenUpJobs, GivenUp
<1>11. ASSUME NEW m \in ReportedJobs, NEW status, status = events[m][Len(events[m])]
       PROVE  Settled(m)' /\ Agrees(m, status)' /\ events'[m] = events[m]
  <2>1. m \in Numbers /\ m # n /\ Settled(m) /\ Agrees(m, status)
    BY <1>1, <1>7, <1>11 DEF WorkerIInv, Accounts, ReportedJobs
  <2>2. events'[m] = events[m] /\ outcome'[m] = outcome[m]
    BY <2>1
  <2> QED
    BY <1>2, <2>1, <2>2, JobStays, AgreementStays
<1>12. Accounts'
  <2>1. Cardinality(GivenUpJobs) \in Nat
    BY <1>1, FiniteJobs DEF GivenUpJobs
  <2> QED
    BY <1>2, <1>9, <1>10, <1>11, <2>1 DEF WorkerIInv, Accounts
<1> QED
  BY <1>3, <1>4, <1>5, <1>6, <1>12 DEF WorkerIInv

\* A worker ends run_once, and has reported its job, or gives it up.
LEMMA EndPreserves ==
  ASSUME WorkerIInv, TypeOK', NEW w \in Workers, NEW n, n = current[w],
         pc[w] # "idle", pc'[w] = "idle", last'[w] = None, InOrder(n)',
         jobs' = jobs, taken' = taken, outcome' = outcome, current' = [current EXCEPT ![w] = 0],
         \A v \in Workers \ {w} : pc'[v] = pc[v] /\ last'[v] = last[v],
         \A m \in Numbers \ {n} : events'[m] = events[m],
         \/ /\ Reported(n)' /\ Settled(n)
            /\ \A status : status = events'[n][Len(events'[n])] => Agrees(n, status)'
            /\ done' = done + 1 /\ faults' = faults
         \/ events' = events /\ done' = done /\ faults' = faults + 1
  PROVE  WorkerIInv'
<1>1. /\ taken \in Nat /\ MaxJobs \in Nat /\ 1..taken \subseteq Numbers
      /\ \A v \in Workers : current[v] \in 0..taken
      /\ n \in 1..taken /\ n \in Numbers
      /\ events[n] \in Seq(Statuses)
  <2>1. n \in 1..taken
    BY DEF WorkerIInv, Places, Place
  <2> QED
    BY <2>1, WorkerTypes DEF WorkerIInv
<1>2. faults \in Nat /\ faults' \in Nat /\ (faults > 0 => faults' > 0)
  BY WorkerAssumption DEF WorkerIInv, TypeOK
<1>3. /\ \A v \in Workers \ {w} : current'[v] = current[v] /\ current[v] # n
      /\ current'[w] = 0
  <2>1. \A v \in Workers \ {w} : current[v] # current[w]
    BY <1>1 DEF WorkerIInv, OwnJobs
  <2> QED
    BY <2>1 DEF WorkerIInv, TypeOK
<1>4. Places'
  <2>1. ASSUME NEW v \in Workers \ {w}, pc[v] # "idle"
        PROVE  Place(v)'
    <3>1. PICK m : m = current[v]
      OBVIOUS
    <3>2. m \in Numbers /\ m # n /\ Place(v)
      BY <1>1, <1>3, <2>1, <3>1 DEF WorkerIInv, Places, Place
    <3> QED
      BY <1>2, <1>3, <2>1, <3>1, <3>2, PlaceStays
  <2> QED
    BY <1>3, <2>1 DEF WorkerIInv, Places
<1>5. OwnJobs'
  BY <1>3 DEF WorkerIInv, OwnJobs
<1>6. Untouched'
  BY <1>1 DEF WorkerIInv, Untouched, Unasked
<1>7. StatusesInOrder'
  BY DEF WorkerIInv, StatusesInOrder, InOrder
<1>8. ~ Reported(n)
  <2>1. UpTo(n, 4) /\ (jobs[n].kind # "batch" => events[n] = <<>>)
    BY DEF WorkerIInv, Places, Place
  <2> QED
    BY <1>1, <2>1, LowIsUnreported DEF UpTo, Reported
<1>9. \A m \in Numbers \ {n} : Reported(m)' <=> Reported(m)
  BY <1>1, JobStays
<1>10. ASSUME NEW m \in ReportedJobs, NEW status, status = events[m][Len(events[m])]
       PROVE  Settled(m)' /\ Agrees(m, status)' /\ events'[m] = events[m] /\ m # n
  <2>1. m \in Numbers /\ m # n /\ Settled(m) /\ Agrees(m, status)
    BY <1>1, <1>8, <1>10 DEF WorkerIInv, Accounts, ReportedJobs
  <2>2. events'[m] = events[m] /\ outcome'[m] = outcome[m]
    BY <2>1
  <2> QED
    BY <1>2, <2>1, <2>2, JobStays, AgreementStays
<1>11. /\ IsFiniteSet(ReportedJobs) /\ Cardinality(ReportedJobs) \in Nat
       /\ IsFiniteSet(GivenUpJobs) /\ Cardinality(GivenUpJobs) \in Nat
  BY <1>1, FiniteJobs DEF ReportedJobs, GivenUpJobs
<1>12. CASE /\ Reported(n)' /\ Settled(n)
            /\ \A status : status = events'[n][Len(events'[n])] => Agrees(n, status)'
            /\ done' = done + 1 /\ faults' = faults
  <2>1. ReportedJobs' = ReportedJobs \cup {n}
    BY <1>1, <1>9, <1>12 DEF ReportedJobs
  <2>2. n \notin ReportedJobs
    BY <1>8 DEF ReportedJobs
  <2>3. Cardinality(ReportedJobs') = Cardinality(ReportedJobs) + 1
    BY <1>11, <2>1, <2>2, FS_AddElement
  <2>4. \A m \in 1..taken : GivenUp(m)' <=> GivenUp(m)
    BY <1>1, <1>3, <1>9, <1>12 DEF GivenUp
  <2>5. GivenUpJobs' = GivenUpJobs
    BY <2>4 DEF GivenUpJobs
  <2>6. Settled(n)'
    BY <1>12 DEF Settled
  <2>7. \A m \in ReportedJobs' : \A status : status = events'[m][Len(events'[m])] =>
          Settled(m)' /\ Agrees(m, status)'
    BY <1>10, <1>12, <2>1, <2>6
  <2>8. Accounts'
    BY <1>11, <1>12, <2>3, <2>5, <2>7 DEF WorkerIInv, Accounts
  <2> QED
    BY <1>4, <1>5, <1>6, <1>7, <2>8 DEF WorkerIInv
<1>13. CASE events' = events /\ done' = done /\ faults' = faults + 1
  <2>1. \A m \in 1..taken : Reported(m)' <=> Reported(m)
    BY <1>1, <1>13, JobStays
  <2>2. ReportedJobs' = ReportedJobs
    BY <2>1 DEF ReportedJobs
  <2>3. \A m \in 1..taken : GivenUp(m)' <=> GivenUp(m) \/ m = n
    BY <1>1, <1>3, <1>8, <2>1 DEF GivenUp
  <2>4. GivenUpJobs' = GivenUpJobs \cup {n}
    BY <1>1, <2>3 DEF GivenUpJobs
  <2>5. n \notin GivenUpJobs
    BY DEF GivenUpJobs, GivenUp
  <2>6. Cardinality(GivenUpJobs') = Cardinality(GivenUpJobs) + 1
    BY <1>11, <2>4, <2>5, FS_AddElement
  <2>7. \A m \in ReportedJobs' : \A status : status = events'[m][Len(events'[m])] =>
          Settled(m)' /\ Agrees(m, status)'
    BY <1>10, <2>2
  <2>8. Accounts'
    BY <1>2, <1>11, <1>13, <2>2, <2>6, <2>7 DEF WorkerIInv, Accounts
  <2> QED
    BY <1>4, <1>5, <1>6, <1>7, <2>8 DEF WorkerIInv
<1> QED
  BY <1>12, <1>13

\* No worker moves: a job is enqueued, or a fault happens elsewhere.
LEMMA AsidePreserves ==
  ASSUME WorkerIInv, TypeOK', \A m \in 1..taken : jobs'[m] = jobs[m], faults' >= faults,
         UNCHANGED <<taken, done, pc, current, outcome, last, events>>
  PROVE  WorkerIInv'
<1>1. /\ taken \in Nat /\ 1..taken \subseteq Numbers
      /\ \A v \in Workers : current[v] \in 0..taken
  BY WorkerTypes DEF WorkerIInv
<1>2. faults \in Nat /\ faults' \in Nat /\ (faults > 0 => faults' > 0)
  BY WorkerAssumption DEF WorkerIInv, TypeOK
<1>3. Places'
  <2>1. ASSUME NEW v \in Workers, pc[v] # "idle"
        PROVE  Place(v)'
    <3>1. PICK m : m = current[v]
      OBVIOUS
    <3>2. m \in 1..taken /\ Place(v)
      BY <2>1, <3>1 DEF WorkerIInv, Places, Place
    <3> QED
      BY <1>2, <3>1, <3>2, PlaceStays
  <2> QED
    BY <2>1 DEF WorkerIInv, Places
<1>4. OwnJobs' /\ Untouched'
  BY DEF WorkerIInv, OwnJobs, Untouched, Unasked
<1>5. StatusesInOrder'
  BY DEF WorkerIInv, StatusesInOrder
<1>6. \A m \in 1..taken : Reported(m)' <=> Reported(m)
  BY JobStays
<1>7. ReportedJobs' = ReportedJobs /\ GivenUpJobs' = GivenUpJobs
  BY <1>6 DEF ReportedJobs, GivenUpJobs, GivenUp
<1>8. ASSUME NEW m \in ReportedJobs, NEW status, status = events[m][Len(events[m])]
      PROVE  Settled(m)' /\ Agrees(m, status)'
  <2>1. m \in 1..taken /\ Settled(m) /\ Agrees(m, status)
    BY <1>8 DEF WorkerIInv, Accounts, ReportedJobs
  <2> QED
    BY <1>2, <2>1, JobStays, AgreementStays
<1>9. Cardinality(GivenUpJobs) \in Nat
  BY <1>1, FiniteJobs DEF GivenUpJobs
<1>10. Accounts'
  BY <1>2, <1>7, <1>8, <1>9 DEF WorkerIInv, Accounts
<1> QED
  BY <1>3, <1>4, <1>5, <1>10 DEF WorkerIInv

LEMMA EnqueuePreserves ==
  ASSUME WorkerIInv, NEW j \in Jobs, Enqueue(j)
  PROVE  WorkerIInv'
<1>1. /\ jobs \in Seq(Jobs) /\ taken \in 0..Len(jobs) /\ Len(jobs) < MaxJobs
      /\ jobs' = Append(jobs, j) /\ faults' = faults /\ faults \in Nat
      /\ UNCHANGED <<taken, done, pc, current, outcome, last, streamState, faults, events, final>>
  BY WorkerAssumption DEF WorkerIInv, TypeOK, Enqueue
<1>2. /\ jobs' \in Seq(Jobs) /\ Len(jobs') = Len(jobs) + 1 /\ Len(jobs) \in Nat
      /\ \A m \in 1..Len(jobs) : jobs'[m] = jobs[m]
  BY <1>1, AppendProperties, LenProperties
<1>3. Len(jobs') <= MaxJobs /\ taken \in 0..Len(jobs')
  BY <1>1, <1>2, WorkerAssumption
<1>4. TypeOK'
  BY <1>1, <1>2, <1>3 DEF WorkerIInv, TypeOK, streamState
<1>5. \A m \in 1..taken : jobs'[m] = jobs[m]
  BY <1>1, <1>2
<1>6. faults' >= faults
  BY <1>1
<1> QED
  BY <1>1, <1>4, <1>5, <1>6, AsidePreserves

\* A fault of somebody else.
LEMMA FaultPreserves ==
  ASSUME WorkerIInv, Fault,
         UNCHANGED <<jobs, taken, done, pc, current, outcome, last, streamState, events, final>>
  PROVE  WorkerIInv'
<1>1. faults' >= faults /\ faults' \in 0..MaxFaults
  BY WorkerAssumption DEF WorkerIInv, TypeOK, Fault
<1>2. TypeOK'
  BY <1>1 DEF WorkerIInv, TypeOK, streamState
<1> QED
  BY <1>1, <1>2, AsidePreserves

LEMMA StutterPreserves ==
  ASSUME WorkerIInv, UNCHANGED vars
  PROVE  WorkerIInv'
<1>1. UNCHANGED <<jobs, taken, done, pc, current, outcome, last, faults, events>>
  BY DEF vars
<1>2. TypeOK' /\ faults' >= faults
  BY WorkerAssumption DEF WorkerIInv, TypeOK, vars, streamState
<1> QED
  BY <1>1, <1>2, AsidePreserves

\* Only a job whose engines a worker waits for, or that was given up, has one running.
LEMMA EnginePreserves ==
  ASSUME WorkerIInv, NEW n \in Numbers, NEW e \in Engines, EngineEnds(n, e)
  PROVE  WorkerIInv'
<1>1. PICK o \in {"ok", "failed"} : outcome' = [outcome EXCEPT ![n][e] = o]
  BY DEF EngineEnds
<1>2. /\ outcome[n][e] = "running"
      /\ UNCHANGED <<jobs, taken, done, pc, current, last, streamState, faults, events, final>>
  BY DEF EngineEnds
<1>3. TypeOK'
  BY <1>1, <1>2 DEF WorkerIInv, TypeOK, streamState
<1>4. /\ \A m \in Numbers \ {n} : outcome'[m] = outcome[m]
      /\ \A f \in Engines : outcome'[n][f] = "unasked" <=> outcome[n][f] = "unasked"
      /\ ~ Unasked(n) /\ ~ Settled(n)
  BY <1>1, <1>2 DEF WorkerIInv, TypeOK, Unasked, Settled
<1>5. /\ taken \in Nat /\ 1..taken \subseteq Numbers
      /\ \A v \in Workers : current[v] \in 0..taken
  BY WorkerTypes DEF WorkerIInv
<1>6. n \in 1..taken
  BY <1>4, <1>5 DEF WorkerIInv, Untouched, Numbers
<1>7. Places'
  <2>1. ASSUME NEW v \in Workers, pc[v] # "idle"
        PROVE  Place(v)'
    <3>1. PICK m : m = current[v]
      OBVIOUS
    <3>2. m \in Numbers /\ Place(v)
      BY <1>5, <2>1, <3>1 DEF WorkerIInv, Places, Place
    <3>3. CASE m # n
      BY <1>2, <1>4, <3>1, <3>2, <3>3, PlaceStays
    <3>4. CASE m = n
      <4>1. pc[v] = "running"
        BY <1>4, <2>1, <3>1, <3>2, <3>4 DEF WorkerIInv, TypeOK, Place
      <4>2. Asked(n)'
        BY <1>2, <1>4, <3>1, <3>2, <3>4, <4>1 DEF Place, Asked
      <4>3. \A rank : UpTo(n, rank)' <=> UpTo(n, rank)
        BY <1>2 DEF UpTo
      <4> QED
        BY <1>2, <3>1, <3>2, <3>4, <4>1, <4>2, <4>3 DEF Place
    <3> QED
      BY <3>3, <3>4
  <2> QED
    BY <1>2, <2>1 DEF WorkerIInv, Places
<1>8. OwnJobs' /\ StatusesInOrder'
  BY <1>2 DEF WorkerIInv, OwnJobs, StatusesInOrder
<1>9. Untouched'
  BY <1>2, <1>4, <1>5, <1>6 DEF WorkerIInv, Untouched, Unasked
<1>10. \A m \in 1..taken : Reported(m)' <=> Reported(m)
  BY <1>2 DEF Reported
<1>11. ReportedJobs' = ReportedJobs /\ GivenUpJobs' = GivenUpJobs
  BY <1>2, <1>10 DEF ReportedJobs, GivenUpJobs, GivenUp
<1>12. ASSUME NEW m \in ReportedJobs, NEW status, status = events[m][Len(events[m])]
       PROVE  Settled(m)' /\ Agrees(m, status)'
  <2>1. m \in 1..taken /\ Settled(m) /\ Agrees(m, status)
    BY <1>12 DEF WorkerIInv, Accounts, ReportedJobs
  <2>2. outcome'[m] = outcome[m]
    BY <1>4, <1>5, <2>1
  <2> QED
    BY <1>2, <2>1, <2>2, JobStays, AgreementStays
<1>13. Accounts'
  BY <1>2, <1>11, <1>12 DEF WorkerIInv, Accounts
<1> QED
  BY <1>3, <1>7, <1>8, <1>9, <1>13 DEF WorkerIInv

LEMMA TakePreserves ==
  ASSUME WorkerIInv, NEW w \in Workers, Take(w)
  PROVE  WorkerIInv'
<1> PICK n : n = taken + 1
  OBVIOUS
<1>1. /\ pc[w] = "idle" /\ taken < Len(jobs) /\ taken' = n
      /\ current' = [current EXCEPT ![w] = n] /\ pc' = [pc EXCEPT ![w] = "taken"]
      /\ UNCHANGED <<jobs, done, outcome, last, streamState, faults, events, final>>
  BY DEF Take, Goto
<1>2. /\ taken \in Nat /\ MaxJobs \in Nat /\ Len(jobs) \in Nat /\ 1..taken \subseteq Numbers
      /\ \A v \in Workers : current[v] \in 0..taken
      /\ n \in 1..n /\ n \in Numbers /\ n \notin 1..taken /\ n # 0
      /\ 1..n = 1..taken \cup {n}
  <2>1. Len(jobs) <= MaxJobs
    BY DEF WorkerIInv, TypeOK
  <2> QED
    BY <1>1, <2>1, WorkerTypes DEF WorkerIInv, Numbers
<1>3. faults \in Nat /\ done \in 0..taken
  BY WorkerAssumption DEF WorkerIInv, TypeOK
<1>4. TypeOK'
  <2>1. taken' \in 0..Len(jobs') /\ done' \in 0..taken'
    BY <1>1, <1>2, <1>3
  <2>2. current' \in [Workers -> 0..taken']
    <3>1. 0..taken \subseteq 0..n /\ n \in 0..n
      BY <1>2
    <3> QED
      BY <1>1, <3>1 DEF WorkerIInv, TypeOK
  <2> QED
    BY <1>1, <2>1, <2>2 DEF WorkerIInv, TypeOK, streamState
<1>5. /\ current'[w] = n /\ pc'[w] = "taken" /\ current[w] = 0 /\ last[w] = None
      /\ \A v \in Workers \ {w} : current'[v] = current[v] /\ pc'[v] = pc[v] /\ current[v] # n
  <2>1. current[w] = 0 /\ last[w] = None
    BY <1>1 DEF WorkerIInv, Places
  <2>2. \A v \in Workers : current[v] # n
    BY <1>2
  <2> QED
    BY <1>1, <2>1, <2>2 DEF WorkerIInv, TypeOK
<1>6. events[n] = <<>> /\ Unasked(n)
  BY <1>2 DEF WorkerIInv, Untouched
<1>7. Places'
  <2>1. Place(w)'
    <3>1. UpTo(n, 4)' /\ Unasked(n)'
      BY <1>1, <1>6, EmptySeq DEF UpTo, Unasked
    <3> QED
      BY <1>1, <1>2, <1>5, <1>6, <3>1 DEF Place
  <2>2. ASSUME NEW v \in Workers \ {w}, pc[v] # "idle"
        PROVE  Place(v)'
    <3>1. PICK m : m = current[v]
      OBVIOUS
    <3>2. Place(v)
      BY <2>2 DEF WorkerIInv, Places
    <3>3. 1..taken \subseteq 1..taken' /\ (faults > 0 => faults' > 0)
      BY <1>1, <1>2
    <3> QED
      BY <1>1, <1>5, <3>1, <3>2, <3>3, PlaceStays
  <2> QED
    BY <1>1, <1>5, <2>1, <2>2 DEF WorkerIInv, Places
<1>8. OwnJobs'
  BY <1>2, <1>5 DEF WorkerIInv, OwnJobs
<1>9. Untouched'
  BY <1>1, <1>2 DEF WorkerIInv, Untouched, Unasked, Numbers
<1>10. StatusesInOrder'
  BY <1>1 DEF WorkerIInv, StatusesInOrder
<1>11. /\ \A m : Reported(m)' <=> Reported(m)
       /\ ~ Reported(n)
  BY <1>1, <1>6 DEF Reported
<1>12. ReportedJobs' = ReportedJobs
  BY <1>1, <1>2, <1>11 DEF ReportedJobs
<1>13. GivenUpJobs' = GivenUpJobs
  <2>1. \A m \in 1..taken : GivenUp(m)' <=> GivenUp(m)
    BY <1>1, <1>2, <1>5, <1>11 DEF GivenUp
  <2>2. ~ GivenUp(n)'
    BY <1>5 DEF GivenUp
  <2> QED
    BY <1>1, <1>2, <2>1, <2>2 DEF GivenUpJobs
<1>14. ASSUME NEW m \in ReportedJobs, NEW status, status = events[m][Len(events[m])]
       PROVE  Settled(m)' /\ Agrees(m, status)'
  <2>1. Settled(m) /\ Agrees(m, status)
    BY <1>14 DEF WorkerIInv, Accounts
  <2> QED
    BY <1>1, <2>1, JobStays, AgreementStays
<1>15. Accounts'
  BY <1>1, <1>12, <1>13, <1>14 DEF WorkerIInv, Accounts
<1> QED
  BY <1>4, <1>7, <1>8, <1>9, <1>10, <1>15 DEF WorkerIInv
-----------------------------------------------------------------------------
\* A worker in the middle of run_once.
LEMMA AtWork ==
  ASSUME WorkerIInv, NEW w \in Workers, pc[w] # "idle"
  PROVE  /\ Place(w) /\ Job(w) = jobs[current[w]] /\ jobs[current[w]] \in Jobs
         /\ current[w] \in 1..taken /\ current[w] \in Numbers
         /\ events[current[w]] \in Seq(Statuses) /\ InOrder(current[w])
         /\ jobs[current[w]].engines \subseteq Engines
         /\ jobs[current[w]].kind \in Kinds
<1>1. Place(w) /\ current[w] \in 1..taken
  BY DEF WorkerIInv, Places, Place
<1>2. current[w] \in Numbers /\ events[current[w]] \in Seq(Statuses) /\ jobs[current[w]] \in Jobs
  BY <1>1, WorkerTypes DEF WorkerIInv
<1>3. jobs[current[w]].engines \subseteq Engines /\ jobs[current[w]].kind \in Kinds
  BY <1>2, WorkerAssumption DEF JobRecords
<1> QED
  BY <1>1, <1>2, <1>3 DEF WorkerIInv, StatusesInOrder, InOrder, Job

LEMMA EmitAppends ==
  ASSUME WorkerIInv, NEW w \in Workers, NEW n, n = current[w], pc[w] # "idle",
         NEW status \in Statuses, Emit(w, status), UpTo(n, Rank(status) - 1)
  PROVE  /\ events' \in [Numbers -> Seq(Statuses)]
         /\ \A m \in Numbers \ {n} : events'[m] = events[m]
         /\ InOrder(n)' /\ UpTo(n, Rank(status))'
         /\ events'[n] # <<>> /\ events'[n][Len(events'[n])] = status
<1>1. /\ n \in Numbers /\ events[n] \in Seq(Statuses)
      /\ \A i \in 1..Len(events[n]) - 1 : Rank(events[n][i]) < Rank(events[n][i + 1])
      /\ \A i \in 1..Len(events[n]) : Rank(events[n][i]) <= Rank(status) - 1
  BY AtWork DEF InOrder, UpTo
<1>2. /\ Append(events[n], status) \in Seq(Statuses)
      /\ events' = [events EXCEPT ![n] = Append(events[n], status)]
      /\ events \in [Numbers -> Seq(Statuses)]
  BY <1>1, AppendProperties DEF Emit, WorkerIInv, TypeOK
<1>3. events'[n] = Append(events[n], status)
  BY <1>1, <1>2
<1>4. /\ events'[n] # <<>> /\ events'[n][Len(events'[n])] = status
      /\ \A i \in 1..Len(events'[n]) - 1 : Rank(events'[n][i]) < Rank(events'[n][i + 1])
      /\ \A i \in 1..Len(events'[n]) : Rank(events'[n][i]) <= Rank(status)
  BY <1>1, <1>3, AppendStatus, SMTT(30)
<1> QED
  BY <1>1, <1>2, <1>4 DEF InOrder, UpTo

\* run_once has its last event.
LEMMA ReportingPreserves ==
  ASSUME WorkerIInv, TypeOK', NEW w \in Workers, NEW n, n = current[w], pc[w] # "idle",
         NEW status \in Statuses, Reporting(w, status), UpTo(n, Rank(status) - 1),
         Settled(n), Agrees(n, status)', jobs[n].kind # "chunk" => status \in Terminal,
         UNCHANGED <<jobs, taken, done, current, outcome, events>>, faults' >= faults
  PROVE  WorkerIInv'
<1>1. /\ pc'[w] = "reporting" /\ last'[w] = status /\ status # None
      /\ \A v \in Workers \ {w} : pc'[v] = pc[v] /\ last'[v] = last[v]
  <2>1. None \notin Statuses
    BY WorkerAssumption
  <2> QED
    BY <2>1 DEF Reporting, Goto, WorkerIInv, TypeOK
<1>2. Place(w) /\ InOrder(n)
  BY AtWork
<1>3. /\ UpTo(n, 4)' /\ UpTo(n, Rank(status) - 1)' /\ Settled(n)' /\ InOrder(n)'
  BY <1>2 DEF Place, UpTo, Settled, InOrder
<1>4. Place(w)'
  BY <1>1, <1>2, <1>3 DEF Place
<1> QED
  BY <1>1, <1>3, <1>4, MovePreserves
-----------------------------------------------------------------------------
\* The steps of run_once.
LEMMA RankBelow ==
  ASSUME NEW seq \in Seq(Statuses), NEW a \in Int, NEW b \in Int, a <= b,
         \A i \in 1..Len(seq) : Rank(seq[i]) <= a
  PROVE  \A i \in 1..Len(seq) : Rank(seq[i]) <= b
<1>1. \A i \in 1..Len(seq) : Rank(seq[i]) \in 1..5
  BY StatusSequence
<1> QED
  BY <1>1

LEMMA EmptyIsBelow ==
  ASSUME NEW n, events[n] = <<>>
  PROVE  \A rank : UpTo(n, rank)
BY EmptySeq DEF UpTo

\* A progress event of a batch job.
LEMMA ProgressPreserves ==
  ASSUME WorkerIInv, NEW w \in Workers, NEW n, n = current[w], pc[w] # "idle",
         NEW status \in Statuses, Rank(status) <= 4, Emit(w, status),
         UpTo(n, Rank(status) - 1), jobs[n].kind = "batch"
  PROVE  /\ events' \in [Numbers -> Seq(Statuses)]
         /\ \A m \in Numbers \ {n} : events'[m] = events[m]
         /\ InOrder(n)' /\ UpTo(n, Rank(status))' /\ UpTo(n, 4)'
<1>1. /\ events' \in [Numbers -> Seq(Statuses)]
      /\ \A m \in Numbers \ {n} : events'[m] = events[m]
      /\ InOrder(n)' /\ UpTo(n, Rank(status))'
  BY EmitAppends
<1>2. n \in Numbers /\ Rank(status) \in Int
  BY AtWork, RankFacts
<1>3. UpTo(n, 4)'
  <2>1. events'[n] \in Seq(Statuses)
    BY <1>1, <1>2
  <2> QED
    BY <1>1, <1>2, <2>1, RankBelow, SMTT(30) DEF UpTo
<1> QED
  BY <1>1, <1>3

LEMMA RejectPreserves ==
  ASSUME WorkerIInv, NEW w \in Workers, Reject(w)
  PROVE  WorkerIInv'
<1> PICK n : n = current[w]
  OBVIOUS
<1>1. /\ pc[w] = "taken" /\ Reporting(w, "FAILED")
      /\ UNCHANGED <<jobs, taken, done, current, outcome, streamState, faults, events, final>>
  BY DEF Reject
<1>2. Place(w) /\ "FAILED" \in Statuses /\ Rank("FAILED") = 5 /\ "FAILED" \in Terminal
  BY <1>1, AtWork, RankFacts DEF Statuses, Terminal
<1>3. UpTo(n, Rank("FAILED") - 1) /\ Unasked(n)
  BY <1>1, <1>2 DEF Place
<1>4. Settled(n) /\ Agrees(n, "FAILED")'
  BY <1>1, <1>3 DEF Unasked, Settled, Agrees, Successful
<1>5. TypeOK' /\ faults' >= faults
  BY <1>1, <1>2, WorkerAssumption DEF WorkerIInv, TypeOK, Reporting, Goto, streamState
<1> QED
  BY <1>1, <1>2, <1>3, <1>4, <1>5, ReportingPreserves

LEMMA PreprocessPreserves ==
  ASSUME WorkerIInv, NEW w \in Workers, Preprocess(w)
  PROVE  WorkerIInv'
<1> PICK n : n = current[w]
  OBVIOUS
<1>1. /\ pc[w] = "taken" /\ Job(w).kind = "batch" /\ Emit(w, "PREPROCESSING")
      /\ pc' = [pc EXCEPT ![w] = "prepared"]
      /\ UNCHANGED <<jobs, taken, done, current, outcome, last, streamState, faults, final>>
  BY DEF Preprocess, BatchAt, Goto
<1>2. /\ Place(w) /\ n \in Numbers /\ jobs[n].kind = "batch"
      /\ "PREPROCESSING" \in Statuses /\ Rank("PREPROCESSING") = 1
  BY <1>1, AtWork, RankFacts DEF Statuses
<1>3. /\ events' \in [Numbers -> Seq(Statuses)]
      /\ \A m \in Numbers \ {n} : events'[m] = events[m]
      /\ InOrder(n)' /\ UpTo(n, 1)' /\ UpTo(n, 4)'
  <2>1. UpTo(n, Rank("PREPROCESSING") - 1)
    BY <1>1, <1>2, EmptyIsBelow DEF Place
  <2> QED
    BY <1>1, <1>2, <2>1, ProgressPreserves
<1>4. TypeOK' /\ faults' >= faults
  BY <1>1, <1>3, WorkerAssumption DEF WorkerIInv, TypeOK, streamState
<1>5. /\ pc'[w] = "prepared" /\ \A v \in Workers \ {w} : pc'[v] = pc[v]
      /\ Unasked(n)'
  BY <1>1, <1>2 DEF WorkerIInv, TypeOK, Place, Unasked
<1>6. Place(w)'
  BY <1>1, <1>2, <1>3, <1>5 DEF Place
<1> QED
  BY <1>1, <1>3, <1>4, <1>5, <1>6, MovePreserves

LEMMA DiarizePreserves ==
  ASSUME WorkerIInv, NEW w \in Workers, Diarize(w)
  PROVE  WorkerIInv'
<1> PICK n : n = current[w]
  OBVIOUS
<1>1. /\ pc[w] = "prepared" /\ Job(w).kind = "batch" /\ Emit(w, "DIARIZING")
      /\ pc' = [pc EXCEPT ![w] = "diarizing"]
      /\ UNCHANGED <<jobs, taken, done, current, outcome, last, streamState, faults, final>>
  BY DEF Diarize, BatchAt, Goto
<1>2. /\ Place(w) /\ n \in Numbers /\ jobs[n].kind = "batch"
      /\ "DIARIZING" \in Statuses /\ Rank("DIARIZING") = 2
  BY <1>1, AtWork, RankFacts DEF Statuses
<1>3. /\ events' \in [Numbers -> Seq(Statuses)]
      /\ \A m \in Numbers \ {n} : events'[m] = events[m]
      /\ InOrder(n)' /\ UpTo(n, 2)' /\ UpTo(n, 4)'
  <2>1. UpTo(n, Rank("DIARIZING") - 1)
    BY <1>1, <1>2 DEF Place
  <2> QED
    BY <1>1, <1>2, <2>1, ProgressPreserves
<1>4. TypeOK' /\ faults' >= faults
  BY <1>1, <1>3, WorkerAssumption DEF WorkerIInv, TypeOK, streamState
<1>5. /\ pc'[w] = "diarizing" /\ \A v \in Workers \ {w} : pc'[v] = pc[v]
      /\ Unasked(n)'
  BY <1>1, <1>2 DEF WorkerIInv, TypeOK, Place, Unasked
<1>6. Place(w)'
  BY <1>1, <1>2, <1>3, <1>5 DEF Place
<1> QED
  BY <1>1, <1>3, <1>4, <1>5, <1>6, MovePreserves

LEMMA DiarizerPreserves ==
  ASSUME WorkerIInv, NEW w \in Workers, DiarizerEnds(w)
  PROVE  WorkerIInv'
<1> PICK n : n = current[w]
  OBVIOUS
<1>1. /\ pc[w] = "diarizing"
      /\ UNCHANGED <<jobs, taken, done, current, outcome, streamState, faults, events, final>>
  BY DEF DiarizerEnds
<1>2. /\ Place(w) /\ InOrder(n) /\ UpTo(n, 2) /\ UpTo(n, 4) /\ Unasked(n)
      /\ "FAILED" \in Statuses /\ Rank("FAILED") = 5 /\ "FAILED" \in Terminal
  <2>1. Place(w) /\ InOrder(n)
    BY <1>1, AtWork
  <2> QED
    BY <1>1, <2>1, RankFacts DEF Place, Statuses, Terminal
<1>3. CASE pc' = [pc EXCEPT ![w] = "diarized"] /\ UNCHANGED last
  <2>1. TypeOK' /\ faults' >= faults
    BY <1>1, <1>3, WorkerAssumption DEF WorkerIInv, TypeOK, streamState
  <2>2. /\ pc'[w] = "diarized" /\ \A v \in Workers \ {w} : pc'[v] = pc[v]
        /\ Unasked(n)' /\ InOrder(n)' /\ UpTo(n, 2)' /\ UpTo(n, 4)'
    BY <1>1, <1>2, <1>3 DEF WorkerIInv, TypeOK, Unasked, InOrder, UpTo
  <2>3. Place(w)'
    BY <1>1, <1>2, <1>3, <2>2 DEF Place
  <2> QED
    BY <1>1, <1>3, <2>1, <2>2, <2>3, MovePreserves
<1>4. CASE Reporting(w, "FAILED")
  <2>1. Settled(n) /\ Agrees(n, "FAILED")'
    BY <1>1, <1>2 DEF Unasked, Settled, Agrees, Successful
  <2>2. TypeOK' /\ faults' >= faults
    BY <1>1, <1>2, <1>4, WorkerAssumption DEF WorkerIInv, TypeOK, Reporting, Goto, streamState
  <2> QED
    BY <1>1, <1>2, <1>4, <2>1, <2>2, ReportingPreserves
<1> QED
  BY <1>3, <1>4 DEF DiarizerEnds, Goto

LEMMA AskAsks ==
  ASSUME WorkerIInv, NEW n \in Numbers, Ask(n), jobs' = jobs
  PROVE  /\ outcome' \in [Numbers -> [Engines -> {"unasked", "running", "ok", "failed"}]]
         /\ \A m \in Numbers \ {n} : outcome'[m] = outcome[m]
         /\ Asked(n)'
BY DEF WorkerIInv, TypeOK, Ask, Asked

LEMMA TranscribePreserves ==
  ASSUME WorkerIInv, NEW w \in Workers, Transcribe(w)
  PROVE  WorkerIInv'
<1> PICK n : n = current[w]
  OBVIOUS
<1>1. /\ pc[w] \in {"prepared", "diarized"} /\ Job(w).kind = "batch"
      /\ Job(w).input # "absent" /\ Emit(w, "TRANSCRIBING") /\ Ask(n) /\ pc' = [pc EXCEPT ![w] = "running"]
      /\ UNCHANGED <<jobs, taken, done, current, last, streamState, faults, final>>
  BY DEF Transcribe, BatchAt, Goto
<1>2. /\ Place(w) /\ n \in Numbers /\ jobs[n].kind = "batch" /\ events[n] \in Seq(Statuses)
      /\ jobs[n].input # "absent"
      /\ "TRANSCRIBING" \in Statuses /\ Rank("TRANSCRIBING") = 3
  BY <1>1, AtWork, RankFacts DEF Statuses
<1>3. UpTo(n, 2)
  <2>1. UpTo(n, 1) \/ UpTo(n, 2)
    BY <1>1, <1>2 DEF Place
  <2> QED
    BY <1>2, <2>1, RankBelow DEF UpTo
<1>4. /\ events' \in [Numbers -> Seq(Statuses)]
      /\ \A m \in Numbers \ {n} : events'[m] = events[m]
      /\ InOrder(n)' /\ UpTo(n, 3)' /\ UpTo(n, 4)'
  BY <1>1, <1>2, <1>3, ProgressPreserves
<1>5. /\ outcome' \in [Numbers -> [Engines -> {"unasked", "running", "ok", "failed"}]]
      /\ \A m \in Numbers \ {n} : outcome'[m] = outcome[m]
      /\ Asked(n)'
  BY <1>1, <1>2, AskAsks
<1>6. TypeOK' /\ faults' >= faults
  BY <1>1, <1>4, <1>5, WorkerAssumption DEF WorkerIInv, TypeOK, streamState
<1>7. pc'[w] = "running" /\ \A v \in Workers \ {w} : pc'[v] = pc[v]
  BY <1>1 DEF WorkerIInv, TypeOK
<1>8. Place(w)'
  BY <1>1, <1>2, <1>4, <1>5, <1>7 DEF Place
<1> QED
  BY <1>1, <1>4, <1>5, <1>6, <1>7, <1>8, MovePreserves

\* Every engine of the job has ended, and no other one.
LEMMA AllGathered ==
  ASSUME WorkerIInv, NEW w \in Workers, NEW n, n = current[w], Gathered(w)
  PROVE  /\ pc[w] = "running" /\ Place(w) /\ InOrder(n) /\ n \in Numbers
         /\ Settled(n) /\ UpTo(n, 3) /\ events[n] \in Seq(Statuses)
         /\ Successful(n) \subseteq jobs[n].engines /\ IsFiniteSet(jobs[n].engines)
<1>1. pc[w] = "running" /\ Settled(n)
  BY DEF Gathered, Settled
<1>2. /\ Place(w) /\ InOrder(n) /\ n \in Numbers /\ events[n] \in Seq(Statuses)
      /\ jobs[n].engines \subseteq Engines
  BY <1>1, AtWork
<1>3. Asked(n) /\ UpTo(n, 3)
  BY <1>1, <1>2 DEF Place
<1>4. Successful(n) \subseteq jobs[n].engines
  BY <1>3 DEF Asked, Successful
<1>5. IsFiniteSet(jobs[n].engines)
  BY <1>2, WorkerAssumption, FS_Subset
<1> QED
  BY <1>1, <1>2, <1>3, <1>4, <1>5

LEMMA AllFailedPreserves ==
  ASSUME WorkerIInv, NEW w \in Workers, AllFailed(w)
  PROVE  WorkerIInv'
<1> PICK n : n = current[w]
  OBVIOUS
<1>1. /\ Gathered(w) /\ Successful(n) = {} /\ Reporting(w, "FAILED")
      /\ UNCHANGED <<jobs, taken, done, current, outcome, streamState, faults, events, final>>
  BY DEF AllFailed
<1>2. /\ pc[w] = "running" /\ Settled(n) /\ UpTo(n, 3) /\ events[n] \in Seq(Statuses)
      /\ "FAILED" \in Statuses /\ Rank("FAILED") = 5 /\ "FAILED" \in Terminal
  BY <1>1, AllGathered, RankFacts DEF Statuses, Terminal
<1>3. UpTo(n, Rank("FAILED") - 1)
  BY <1>2, RankBelow DEF UpTo
<1>4. Agrees(n, "FAILED")'
  BY <1>1 DEF Agrees, Successful
<1>5. TypeOK' /\ faults' >= faults
  BY <1>1, <1>2, WorkerAssumption DEF WorkerIInv, TypeOK, Reporting, Goto, streamState
<1> QED
  BY <1>1, <1>2, <1>3, <1>4, <1>5, ReportingPreserves

LEMMA AlignPreserves ==
  ASSUME WorkerIInv, NEW w \in Workers, Align(w)
  PROVE  WorkerIInv'
<1> PICK n : n = current[w]
  OBVIOUS
<1> DEFINE all == Cardinality(Successful(n)) = Cardinality(jobs[n].engines)
<1>1. PICK status : status = IF all THEN "COMPLETED" ELSE "PARTIAL_SUCCESS"
  OBVIOUS
<1>2. /\ Gathered(w) /\ jobs[n].kind = "batch" /\ Successful(n) # {}
      /\ Emit(w, "ALIGNING") /\ Reporting(w, status)
      /\ UNCHANGED <<jobs, taken, done, current, outcome, streamState, faults, final>>
  BY <1>1 DEF Align, Job
<1>3. /\ pc[w] = "running" /\ Place(w) /\ n \in Numbers /\ Settled(n) /\ UpTo(n, 3)
      /\ Successful(n) \subseteq jobs[n].engines /\ IsFiniteSet(jobs[n].engines)
  BY <1>2, AllGathered
<1>4. /\ "ALIGNING" \in Statuses /\ Rank("ALIGNING") = 4
      /\ status \in Statuses /\ status \in Terminal /\ Rank(status) = 5 /\ status # None
  <2>1. status \in Terminal
    BY <1>1 DEF Terminal
  <2> QED
    BY <2>1, RankFacts, WorkerAssumption DEF Statuses
<1>5. /\ events' \in [Numbers -> Seq(Statuses)]
      /\ \A m \in Numbers \ {n} : events'[m] = events[m]
      /\ InOrder(n)' /\ UpTo(n, 4)'
  BY <1>2, <1>3, <1>4, ProgressPreserves
<1>6. Agrees(n, status)'
  <2>1. all => Successful(n) = jobs[n].engines
    BY <1>3, FS_Subset
  <2>2. ~ all => Successful(n) # jobs[n].engines
    OBVIOUS
  <2>3. Successful(n)' = Successful(n)
    BY <1>2 DEF Successful
  <2> HIDE DEF all
  <2> QED
    BY <1>1, <1>2, <1>3, <2>1, <2>2, <2>3 DEF Agrees
<1>7. TypeOK' /\ faults' >= faults
  BY <1>2, <1>4, <1>5, WorkerAssumption DEF WorkerIInv, TypeOK, Reporting, Goto, streamState
<1>8. /\ pc'[w] = "reporting" /\ last'[w] = status
      /\ \A v \in Workers \ {w} : pc'[v] = pc[v] /\ last'[v] = last[v]
      /\ Settled(n)'
  BY <1>2, <1>3, <1>4 DEF WorkerIInv, TypeOK, Reporting, Goto, Settled
<1>9. Place(w)'
  BY <1>2, <1>3, <1>4, <1>5, <1>6, <1>8 DEF Place
<1> QED
  BY <1>2, <1>3, <1>5, <1>7, <1>8, <1>9, MovePreserves

\* A chunk or a finalization that is not refused has a stream, and is reported once.
LEMMA StreamJob ==
  ASSUME WorkerIInv, NEW w \in Workers, NEW n, n = current[w], pc[w] # "idle",
         Job(w).kind \in {"chunk", "finalize"}
  PROVE  /\ n \in Numbers /\ jobs[n].kind # "batch" /\ events[n] = <<>> /\ InOrder(n)
         /\ \A rank : UpTo(n, rank)
         /\ Job(w).input # "absent" => Job(w).stream \in Streams
<1>1. /\ Place(w) /\ n \in Numbers /\ InOrder(n) /\ Job(w) = jobs[n] /\ jobs[n] \in Jobs
  BY AtWork
<1>2. events[n] = <<>>
  BY <1>1 DEF Place
<1> QED
  BY <1>1, <1>2, EmptyIsBelow, WorkerAssumption

LEMMA StartChunkPreserves ==
  ASSUME WorkerIInv, NEW w \in Workers, StartChunk(w)
  PROVE  WorkerIInv'
<1> PICK n : n = current[w]
  OBVIOUS
<1> PICK s : s = Job(w).stream
  OBVIOUS
<1>1. /\ pc[w] = "taken" /\ jobs[n].kind = "chunk" /\ Job(w).input # "absent"
      /\ known' = [known EXCEPT ![w] = @ \cup {s}]
      /\ UNCHANGED <<jobs, taken, done, current, results, faults, events, final>>
  BY DEF StartChunk, Job
<1>2. /\ n \in Numbers /\ events[n] = <<>> /\ InOrder(n) /\ \A rank : UpTo(n, rank)
      /\ s \in Streams
  BY <1>1, StreamJob DEF Job
<1>3. Place(w) /\ Unasked(n) /\ jobs[n].input # "absent"
  BY <1>1, AtWork DEF Place
<1>4. CASE Reporting(w, "FAILED") /\ UNCHANGED <<outcome, chunks>>
  <2>1. Settled(n) /\ Agrees(n, "FAILED")'
    BY <1>1, <1>3 DEF Unasked, Settled, Agrees
  <2>2. "FAILED" \in Statuses
    BY DEF Statuses, Terminal
  <2>3. TypeOK' /\ faults' >= faults
    <3>1. known' \in [Workers -> SUBSET Streams]
      BY <1>1, <1>2 DEF WorkerIInv, TypeOK
    <3>2. /\ pc' = [pc EXCEPT ![w] = "reporting"]
          /\ last' \in [Workers -> Statuses \cup {None}]
      BY <1>4, <2>2 DEF WorkerIInv, TypeOK, Reporting, Goto
    <3> QED
      BY <1>1, <1>4, <3>1, <3>2, WorkerAssumption DEF WorkerIInv, TypeOK
  <2> QED
    BY <1>1, <1>2, <1>4, <2>1, <2>2, <2>3, ReportingPreserves
<1>5. CASE /\ chunks' = [chunks EXCEPT ![w][s] = Append(@, current[w])]
           /\ Ask(current[w])
           /\ Goto(w, "running") /\ UNCHANGED last
  <2>1. /\ outcome' \in [Numbers -> [Engines -> {"unasked", "running", "ok", "failed"}]]
        /\ \A m \in Numbers \ {n} : outcome'[m] = outcome[m]
        /\ Asked(n)'
    BY <1>1, <1>2, <1>5, AskAsks
  <2>2. chunks' \in [Workers -> [Streams -> Seq(Numbers)]]
    <3>1. Append(chunks[w][s], n) \in Seq(Numbers)
      BY <1>2, AppendProperties DEF WorkerIInv, TypeOK
    <3> QED
      BY <1>2, <1>5, <3>1 DEF WorkerIInv, TypeOK
  <2>3. known' \in [Workers -> SUBSET Streams]
    BY <1>1, <1>2 DEF WorkerIInv, TypeOK
  <2>4. TypeOK' /\ faults' >= faults
    BY <1>1, <1>5, <2>1, <2>2, <2>3, WorkerAssumption DEF WorkerIInv, TypeOK, Goto
  <2>5. /\ pc'[w] = "running" /\ \A v \in Workers \ {w} : pc'[v] = pc[v]
        /\ InOrder(n)' /\ UpTo(n, 3)' /\ UpTo(n, 4)'
    BY <1>1, <1>2, <1>5 DEF WorkerIInv, TypeOK, Goto, InOrder, UpTo
  <2>6. Place(w)'
    BY <1>1, <1>2, <1>3, <1>5, <2>1, <2>5 DEF Place
  <2> QED
    BY <1>1, <1>5, <2>1, <2>4, <2>5, <2>6, MovePreserves
<1> QED
  BY <1>4, <1>5 DEF StartChunk

LEMMA EndChunkPreserves ==
  ASSUME WorkerIInv, NEW w \in Workers, EndChunk(w)
  PROVE  WorkerIInv'
<1> PICK n : n = current[w]
  OBVIOUS
<1> PICK s : s = Job(w).stream
  OBVIOUS
<1>1. /\ Gathered(w) /\ jobs[n].kind = "chunk" /\ Reporting(w, "TRANSCRIBING")
      /\ results' = [results EXCEPT ![w][s] = @ \cup ({n} \X Successful(n))]
      /\ UNCHANGED <<jobs, taken, done, current, outcome, known, chunks, faults, events, final>>
  BY DEF EndChunk, Job
<1>2. pc[w] = "running" /\ Settled(n) /\ n \in Numbers /\ jobs[n].input # "absent"
  BY <1>1, AllGathered DEF Place
<1>3. \A rank : UpTo(n, rank)
  BY <1>1, <1>2, StreamJob DEF Job
<1>4. "TRANSCRIBING" \in Statuses /\ Agrees(n, "TRANSCRIBING")'
  BY <1>1 DEF Statuses, Agrees
<1>5. results' \in [Workers -> [Streams -> SUBSET (Numbers \X Engines)]]
  <2>1. {n} \X Successful(n) \subseteq Numbers \X Engines
    BY <1>2 DEF Successful
  <2>2. /\ s \in Streams
        /\ results \in [Workers -> [Streams -> SUBSET (Numbers \X Engines)]]
    BY <1>1, <1>2, StreamJob DEF Job, WorkerIInv, TypeOK
  <2>3. results[w][s] \cup ({n} \X Successful(n)) \in SUBSET (Numbers \X Engines)
    BY <2>1, <2>2
  <2> QED
    BY <1>1, <2>2, <2>3
<1>6. TypeOK' /\ faults' >= faults
  <2>1. /\ pc' = [pc EXCEPT ![w] = "reporting"]
        /\ last' \in [Workers -> Statuses \cup {None}]
    BY <1>1, <1>4 DEF WorkerIInv, TypeOK, Reporting, Goto
  <2> QED
    BY <1>1, <1>5, <2>1, WorkerAssumption DEF WorkerIInv, TypeOK
<1> QED
  BY <1>1, <1>2, <1>3, <1>4, <1>6, ReportingPreserves

LEMMA FinalizePreserves ==
  ASSUME WorkerIInv, NEW w \in Workers, Finalize(w)
  PROVE  WorkerIInv'
<1> PICK n : n = current[w]
  OBVIOUS
<1> PICK s : s = Job(w).stream
  OBVIOUS
<1>1. /\ pc[w] = "taken" /\ jobs[n].kind = "finalize" /\ Job(w).input # "absent"
      /\ UNCHANGED <<jobs, taken, done, current, outcome, faults, events>>
  BY DEF Finalize, Job
<1>2. /\ n \in Numbers /\ s \in Streams /\ \A rank : UpTo(n, rank)
  BY <1>1, StreamJob DEF Job
<1>3. Settled(n)
  <2>1. Place(w) /\ Unasked(n)
    BY <1>1, AtWork DEF Place
  <2> QED
    BY <2>1 DEF Unasked, Settled
<1>4. /\ \A status : Agrees(n, status)'
      /\ {"COMPLETED", "FAILED"} \subseteq Statuses \cap Terminal
  BY <1>1 DEF Agrees, Statuses, Terminal
<1>5. CASE /\ final' = [final EXCEPT ![n] = [chunks |-> chunks[w][s], results |-> results[w][s]]]
           /\ known' = [known EXCEPT ![w] = @ \ {s}]
           /\ chunks' = [chunks EXCEPT ![w][s] = <<>>]
           /\ results' = [results EXCEPT ![w][s] = {}]
           /\ Reporting(w, "COMPLETED")
  <2>1. <<>> \in Seq(Numbers)
    BY EmptySeq
  <2>2. /\ chunks' \in [Workers -> [Streams -> Seq(Numbers)]]
        /\ results' \in [Workers -> [Streams -> SUBSET (Numbers \X Engines)]]
        /\ known' \in [Workers -> SUBSET Streams]
    BY <1>2, <1>5, <2>1 DEF WorkerIInv, TypeOK
  <2>3. final' \in [Numbers -> [chunks : Seq(Numbers), results : SUBSET (Numbers \X Engines)]]
    BY <1>2, <1>5 DEF WorkerIInv, TypeOK
  <2>4. TypeOK' /\ faults' >= faults
    BY <1>1, <1>4, <1>5, <2>2, <2>3, WorkerAssumption, SMTT(30)
       DEF WorkerIInv, TypeOK, Reporting, Goto
  <2> QED
    BY <1>1, <1>2, <1>3, <1>4, <1>5, <2>4, ReportingPreserves
<1>6. CASE Reporting(w, "FAILED") /\ UNCHANGED <<final, streamState>>
  <2>1. TypeOK' /\ faults' >= faults
    BY <1>1, <1>4, <1>6, WorkerAssumption
       DEF WorkerIInv, TypeOK, Reporting, Goto, streamState
  <2> QED
    BY <1>1, <1>2, <1>3, <1>4, <1>6, <2>1, ReportingPreserves
<1> QED
  BY <1>5, <1>6 DEF Finalize

LEMMA SinkPreserves ==
  ASSUME WorkerIInv, NEW w \in Workers, SinkRaises(w)
  PROVE  WorkerIInv'
<1> PICK n : n = current[w]
  OBVIOUS
<1>1. /\ faults < MaxFaults /\ faults' = faults + 1 /\ Reporting(w, "FAILED")
      /\ \/ pc[w] \in {"taken", "prepared", "diarized"}
         \/ Gathered(w) /\ pc[w] = "running"
      /\ UNCHANGED <<jobs, taken, done, current, outcome, streamState, events, final>>
  BY DEF SinkRaises, Fault, BatchAt, Gathered
<1>2. /\ Place(w) /\ UpTo(n, 4)
      /\ "FAILED" \in Statuses /\ Rank("FAILED") = 5 /\ "FAILED" \in Terminal
  <2>1. Place(w)
    BY <1>1, AtWork
  <2> QED
    BY <2>1, RankFacts DEF Place, Statuses, Terminal
<1>3. faults \in Nat /\ faults' \in 0..MaxFaults /\ faults' >= faults /\ faults' > 0
  BY <1>1, WorkerAssumption DEF WorkerIInv, TypeOK
<1>4. Settled(n)
  <2>1. CASE pc[w] \in {"taken", "prepared", "diarized"}
    BY <1>2, <2>1 DEF Place, Unasked, Settled
  <2>2. CASE Gathered(w)
    BY <2>2 DEF Gathered, Settled
  <2> QED
    BY <1>1, <2>1, <2>2
<1>5. Agrees(n, "FAILED")'
  BY <1>3 DEF Agrees
<1>6. TypeOK'
  <2>1. /\ pc' = [pc EXCEPT ![w] = "reporting"]
        /\ last' \in [Workers -> Statuses \cup {None}]
    BY <1>1, <1>2 DEF WorkerIInv, TypeOK, Reporting, Goto
  <2> QED
    BY <1>1, <1>3, <2>1 DEF WorkerIInv, TypeOK, streamState
<1> QED
  BY <1>1, <1>2, <1>3, <1>4, <1>5, <1>6, ReportingPreserves

LEMMA ReportPreserves ==
  ASSUME WorkerIInv, NEW w \in Workers, Report(w)
  PROVE  WorkerIInv'
<1> PICK n : n = current[w]
  OBVIOUS
<1> PICK status : status = last[w]
  OBVIOUS
<1>1. /\ pc[w] = "reporting" /\ Emit(w, status) /\ done' = done + 1
      /\ pc' = [pc EXCEPT ![w] = "idle"] /\ current' = [current EXCEPT ![w] = 0]
      /\ last' = [last EXCEPT ![w] = None]
      /\ UNCHANGED <<jobs, taken, outcome, streamState, faults, final>>
  BY DEF Report, Goto
<1>2. /\ Place(w) /\ n \in Numbers /\ n \in 1..taken /\ taken \in Nat
      /\ events[n] \in Seq(Statuses)
  BY <1>1, AtWork, WorkerTypes DEF WorkerIInv
<1>3. /\ status \in Statuses /\ UpTo(n, Rank(status) - 1) /\ Settled(n) /\ Agrees(n, status)
      /\ jobs[n].kind # "chunk" => status \in Terminal
  BY <1>1, <1>2 DEF Place, WorkerIInv, TypeOK
<1>4. /\ events' \in [Numbers -> Seq(Statuses)]
      /\ \A m \in Numbers \ {n} : events'[m] = events[m]
      /\ InOrder(n)' /\ events'[n] # <<>> /\ events'[n][Len(events'[n])] = status
  BY <1>1, <1>3, EmitAppends
<1>5. Reported(n)' /\ Agrees(n, status)'
  <2>1. Agrees(n, status)'
    BY <1>1, <1>3, AgreementStays
  <2> QED
    BY <1>1, <1>3, <1>4, <2>1 DEF Reported
<1>6. done' \in 0..taken
  <2>1. ~ Reported(n)
    BY <1>2, LowIsUnreported DEF Place, UpTo, Reported
  <2>2. IsFiniteSet(ReportedJobs) /\ done = Cardinality(ReportedJobs) /\ done \in Nat
    BY <1>2, FiniteJobs DEF ReportedJobs, WorkerIInv, Accounts
  <2>3. Cardinality(ReportedJobs \cup {n}) = done + 1
    BY <2>1, <2>2, FS_AddElement DEF ReportedJobs
  <2>4. ReportedJobs \cup {n} \in SUBSET (1..taken)
    BY <1>2 DEF ReportedJobs
  <2>5. IsFiniteSet(1..taken) /\ Cardinality(1..taken) = taken
    BY <1>2, FS_Interval
  <2>6. Cardinality(ReportedJobs \cup {n}) <= Cardinality(1..taken)
    BY <2>4, <2>5, FS_Subset
  <2> QED
    BY <1>1, <1>2, <2>2, <2>3, <2>5, <2>6
<1>7. TypeOK'
  <2>1. /\ current' \in [Workers -> 0..taken]
        /\ last' \in [Workers -> Statuses \cup {None}]
    BY <1>1, <1>2 DEF WorkerIInv, TypeOK
  <2> QED
    BY <1>1, <1>4, <1>6, <2>1 DEF WorkerIInv, TypeOK, streamState
<1>8. /\ pc'[w] = "idle" /\ last'[w] = None
      /\ \A v \in Workers \ {w} : pc'[v] = pc[v] /\ last'[v] = last[v]
  BY <1>1 DEF WorkerIInv, TypeOK
<1>9. /\ Reported(n)' /\ Settled(n)
      /\ \A kept : kept = events'[n][Len(events'[n])] => Agrees(n, kept)'
      /\ done' = done + 1 /\ faults' = faults
  BY <1>1, <1>3, <1>4, <1>5
<1>10. /\ pc[w] # "idle" /\ jobs' = jobs /\ taken' = taken /\ outcome' = outcome
       /\ current' = [current EXCEPT ![w] = 0] /\ InOrder(n)'
       /\ \A m \in Numbers \ {n} : events'[m] = events[m]
  BY <1>1, <1>4
<1> QED
  BY <1>7, <1>8, <1>9, <1>10, EndPreserves

LEMMA AbortPreserves ==
  ASSUME WorkerIInv, NEW w \in Workers, Abort(w)
  PROVE  WorkerIInv'
<1> PICK n : n = current[w]
  OBVIOUS
<1>1. /\ faults < MaxFaults /\ faults' = faults + 1 /\ pc[w] # "idle"
      /\ pc' = [pc EXCEPT ![w] = "idle"] /\ current' = [current EXCEPT ![w] = 0]
      /\ last' = [last EXCEPT ![w] = None]
      /\ UNCHANGED <<jobs, taken, done, outcome, streamState, events, final>>
  BY DEF Abort, Fault, Goto
<1>2. taken \in Nat /\ InOrder(n)
  BY <1>1, AtWork, WorkerTypes DEF WorkerIInv
<1>3. InOrder(n)'
  BY <1>1, <1>2 DEF InOrder
<1>4. TypeOK'
  <2>1. /\ current' \in [Workers -> 0..taken]
        /\ last' \in [Workers -> Statuses \cup {None}]
        /\ faults' \in 0..MaxFaults
    BY <1>1, <1>2, WorkerAssumption DEF WorkerIInv, TypeOK
  <2> QED
    BY <1>1, <2>1 DEF WorkerIInv, TypeOK, streamState
<1>5. /\ pc'[w] = "idle" /\ last'[w] = None
      /\ \A v \in Workers \ {w} : pc'[v] = pc[v] /\ last'[v] = last[v]
  BY <1>1 DEF WorkerIInv, TypeOK
<1> QED
  BY <1>1, <1>3, <1>4, <1>5, EndPreserves
-----------------------------------------------------------------------------
LEMMA WorkPreserves ==
  ASSUME WorkerIInv, NEW w \in Workers, Work(w) \/ SinkRaises(w) \/ Abort(w)
  PROVE  WorkerIInv'
BY TakePreserves, RejectPreserves, PreprocessPreserves, DiarizePreserves, DiarizerPreserves,
   TranscribePreserves, AllFailedPreserves, AlignPreserves, StartChunkPreserves,
   EndChunkPreserves, FinalizePreserves, ReportPreserves, SinkPreserves, AbortPreserves
   DEF Work

LEMMA WorkerInvariant == Spec => []WorkerIInv
<1>1. WorkerIInv /\ [Next]_vars => WorkerIInv'
  <2> SUFFICES ASSUME WorkerIInv, [Next]_vars PROVE WorkerIInv'
    OBVIOUS
  <2>1. CASE \E j \in Jobs : Enqueue(j)
    BY <2>1, EnqueuePreserves
  <2>2. CASE \E n \in Numbers, e \in Engines : EngineEnds(n, e)
    BY <2>2, EnginePreserves
  <2>3. CASE \E w \in Workers : Work(w) \/ SinkRaises(w) \/ Abort(w)
    BY <2>3, WorkPreserves
  <2>4. CASE UNCHANGED vars
    BY <2>4, StutterPreserves
  <2> QED
    BY <2>1, <2>2, <2>3, <2>4 DEF Next
<1> QED
  BY InitWorker, <1>1, PTL DEF Spec

(* Workers, queue and stream states stay in their types, whatever engines and sinks do. *)
THEOREM WorkerIsTyped == Spec => []TypeOK
<1>1. WorkerIInv => TypeOK
  BY DEF WorkerIInv
<1> QED
  BY <1>1, WorkerInvariant, PTL

(* However many workers share the queue, and whatever raises or is cancelled: what the
   listener of a job sees moves forward, and a terminal status is the last of it. *)
THEOREM WorkerStatusesInOrder == Spec => []StatusesInOrder
<1>1. WorkerIInv => StatusesInOrder
  BY DEF WorkerIInv
<1> QED
  BY <1>1, WorkerInvariant, PTL

(* process_batch reports COMPLETED, PARTIAL_SUCCESS or FAILED as its engines ended, in
   whatever order they did. *)
THEOREM WorkerStatusMatchesEngines == Spec => []StatusMatchesEngines
<1>1. WorkerIInv => StatusMatchesEngines
  BY DEF WorkerIInv, Accounts, ReportedJobs, Agrees, StatusMatchesEngines
<1> QED
  BY <1>1, WorkerInvariant, PTL

\* As many calls of task_done as jobs means that every job was reported.
LEMMA AccountsJoin == WorkerIInv => JoinMeansReported
<1> SUFFICES ASSUME WorkerIInv PROVE JoinMeansReported
  OBVIOUS
<1>1. /\ taken \in Nat /\ Len(jobs) \in Nat /\ taken <= Len(jobs)
      /\ done = Cardinality(ReportedJobs) /\ Cardinality(GivenUpJobs) <= faults
      /\ done \in 0..taken
  BY WorkerTypes DEF WorkerIInv, Accounts, TypeOK
<1>2. ASSUME done = Len(jobs)
      PROVE  \A n \in 1..Len(jobs) : Reported(n)
  <2>1. taken = Len(jobs)
    BY <1>1, <1>2
  <2>2. ReportedJobs \in SUBSET (1..Len(jobs))
    BY <2>1 DEF ReportedJobs
  <2>3. IsFiniteSet(1..Len(jobs)) /\ Cardinality(1..Len(jobs)) = Len(jobs)
    <3> DEFINE all == Len(jobs)
    <3>1. all \in Nat /\ 1 \in Int /\ all \in Int
      BY <1>1
    <3> HIDE DEF all
    <3>2. IsFiniteSet(1..all) /\ Cardinality(1..all) = IF 1 > all THEN 0 ELSE all - 1 + 1
      BY <3>1, FS_Interval, ZenonT(30)
    <3>3. Cardinality(1..all) = all
      BY <3>1, <3>2
    <3> QED
      BY <3>2, <3>3 DEF all
  <2>4. ReportedJobs = 1..Len(jobs)
    BY <1>1, <1>2, <2>2, <2>3, FS_Subset
  <2> QED
    BY <2>4 DEF ReportedJobs
<1> QED
  BY <1>1, <1>2 DEF JoinMeansReported, ReportedJobs, GivenUpJobs

(* task_done is called once for each reported job, so that a join of the queue means that
   all were reported; each job that nobody will report has cost a fault of its own. *)
THEOREM WorkerJoinMeansReported == Spec => []JoinMeansReported
BY AccountsJoin, WorkerInvariant, PTL

-----------------------------------------------------------------------------
(* The pipeline: handlers, files, and where each chunk is. *)

\* The handlers know a created stream, and the job their answer is about.
Handlers ==
  \A k \in Sockets :
    /\ handler[k] # "none" => serving[k] \in created
    /\ handler[k] \in {"progress", "completing"} => sending[k] # 0

\* The numbers of the files were counted; a stream that is not created has none.
FilesAreCounted ==
  \A s \in Streams :
    /\ \A i \in 1..Len(files[s]) : files[s][i] \in 1..chunkCount[s]
    /\ s \notin created => files[s] = <<>>

StreamJobs ==
  \A n \in 1..Len(jobs) : \E s \in Streams : jobs[n] \in {ChunkOf(s), FinalizationOf(s)}

Elements(list) == {list[i] : i \in 1..Len(list)}

ListOf(w, s) == Elements(chunks[w][s])
FinalOf(f) == Elements(final[f].chunks)

\* Nothing is to come for job n but its report.
Ended(n) == Reported(n) \/ \E v \in Workers : current[v] = n /\ pc[v] = "reporting"

\* The chunks in the state a worker keeps of a stream.
Lists ==
  \A w \in Workers, s \in Streams : \A n \in ListOf(w, s) :
    /\ n \in 1..taken /\ IsJob(n, "chunk", s)
    /\ \A v \in Workers : current[v] = n => v = w /\ pc[v] # "taken"
    /\ Ended(n) => \A e \in Engines : <<n, e>> \in results[w][s] <=> outcome[n][e] = "ok"

\* The chunks a finalization was computed over.
Finals ==
  \A f \in Numbers : \A n \in FinalOf(f) :
    /\ f \in 1..taken /\ n \in 1..taken /\ IsJob(n, "chunk", jobs[f].stream)
    /\ \A v \in Workers : current[v] # n
    /\ Ended(n) => \A e \in Engines : <<n, e>> \in final[f].results <=> outcome[n][e] = "ok"

\* A chunk is in one state, or in one finalization.
OnePlace ==
  /\ \A v, w \in Workers, s, t \in Streams : ListOf(v, s) \cap ListOf(w, t) # {} => v = w
  /\ \A f, g \in Numbers : FinalOf(f) \cap FinalOf(g) # {} => f = g
  /\ \A f \in Numbers, w \in Workers, s \in Streams : FinalOf(f) \cap ListOf(w, s) = {}

KeptResults ==
  \A w \in Workers, s \in Streams : \A n \in Numbers, e \in Engines :
    <<n, e>> \in results[w][s] => n \in ListOf(w, s) /\ outcome[n][e] = "ok"

ChunksInWork ==
  \A w \in Workers, s \in Streams :
    pc[w] = "running" /\ IsJob(current[w], "chunk", s) => current[w] \in ListOf(w, s)

Holdings == Lists /\ Finals /\ OnePlace /\ KeptResults /\ ChunksInWork

ClientsIInv == PipelineTypeOK /\ Handlers /\ FilesAreCounted /\ FilesAreDistinct /\ StreamJobs

PipelineIInv == WorkerIInv /\ ClientsIInv /\ Holdings

-----------------------------------------------------------------------------
\* A single worker takes the jobs one by one.
Started(n) == Reported(n) \/ \E v \in Workers : current[v] = n /\ pc[v] # "taken"

Held(n) ==
  \/ \E w \in Workers, s \in Streams : n \in ListOf(w, s)
  \/ \E f \in Numbers : n \in FinalOf(f)

\* What its state still has came after every finalization that has ended.
ListsAreNew ==
  \A w \in Workers, s \in Streams : \A n \in ListOf(w, s) :
    /\ s \in known[w]
    /\ \A f \in 1..taken : IsJob(f, "finalize", s) /\ Ended(f) => f < n

NothingDropped == \A n \in 1..taken : jobs[n].kind = "chunk" /\ Started(n) => Held(n)

\* A chunk is in the first finalization that ended after it.
FinalsAreFirst ==
  \A g \in Numbers : \A n \in FinalOf(g) : \A f \in n + 1..g - 1 :
    IsJob(f, "finalize", jobs[g].stream) => ~ Ended(f)

NotYetFinal == \A w \in Workers : pc[w] = "taken" => FinalOf(current[w]) = {}

InTurn ==
  /\ \A w \in Workers : current[w] \in {0, taken}
  /\ ListsAreNew
  /\ NothingDropped
  /\ FinalsAreFirst
  /\ NotYetFinal
-----------------------------------------------------------------------------
LEMMA StreamJobsAreJobs ==
  /\ \A s \in Streams : ChunkOf(s) \in Jobs /\ FinalizationOf(s) \in Jobs
  /\ \A s : ChunkOf(s).kind = "chunk" /\ ChunkOf(s).stream = s /\ ChunkOf(s).input = "given"
  /\ \A s : /\ FinalizationOf(s).kind = "finalize" /\ FinalizationOf(s).stream = s
            /\ FinalizationOf(s).input = "given"
  /\ MaxConnects \in Nat
BY PipelineAssumption DEF ChunkOf, FinalizationOf

\* What workers and engines do leaves the queue's jobs alone.
LEMMA WorkKeepsJobs ==
  ASSUME WorkerStep
  PROVE  jobs' = jobs /\ UNCHANGED socketVars
<1>1. ASSUME NEW n \in Numbers, NEW e \in Engines, EngineEnds(n, e)
      PROVE  jobs' = jobs
  BY <1>1 DEF EngineEnds
<1>2. ASSUME NEW w \in Workers, Work(w)
      PROVE  jobs' = jobs
  BY <1>2 DEF Work, Take, Reject, Preprocess, Diarize, DiarizerEnds, Transcribe, AllFailed, Align,
              StartChunk, EndChunk, Finalize, Report
<1>3. ASSUME NEW w \in Workers, Abort(w)
      PROVE  jobs' = jobs
  BY <1>3 DEF Abort
<1> QED
  BY <1>1, <1>2, <1>3 DEF WorkerStep

\* A job put on the queue goes behind the others.
LEMMA EnqueueAppends ==
  ASSUME TypeOK, NEW j \in Jobs, Enqueue(j)
  PROVE  /\ jobs' \in Seq(Jobs) /\ Len(jobs') = Len(jobs) + 1 /\ Len(jobs) \in Nat
         /\ \A m \in 1..Len(jobs) : jobs'[m] = jobs[m]
         /\ jobs'[Len(jobs) + 1] = j
         /\ taken \in 0..Len(jobs)
         /\ UNCHANGED <<taken, done, pc, current, outcome, last, streamState, faults, events,
                        final>>
BY AppendProperties, LenProperties DEF Enqueue, TypeOK

\* Every step of the pipeline is one of a worker, puts a job of a stream on the queue,
\* or is a handler's own.
LEMMA WorkerGoesOn ==
  ASSUME WorkerIInv, \A k \in Sockets : handler[k] # "none" => serving[k] \in Streams,
         [PipelineNext]_pipelineVars
  PROVE  WorkerIInv'
<1>1. ASSUME NEW s \in Streams, Enqueue(ChunkOf(s)) \/ Enqueue(FinalizationOf(s))
      PROVE  WorkerIInv'
  BY <1>1, EnqueuePreserves, StreamJobsAreJobs
<1>2. ASSUME UNCHANGED vars
      PROVE  WorkerIInv'
  BY <1>2, StutterPreserves
<1>3. ASSUME NEW s \in Streams, CreateStream(s)
      PROVE  WorkerIInv'
  BY <1>2, <1>3 DEF CreateStream
<1>4. ASSUME NEW k \in Sockets, NEW s \in Streams, Connect(k, s)
      PROVE  WorkerIInv'
  BY <1>2, <1>4 DEF Connect
<1>5. ASSUME NEW k \in Sockets, ReceiveChunk(k)
      PROVE  WorkerIInv'
  BY <1>1, <1>5 DEF ReceiveChunk, HandlerGoes
<1>6. ASSUME NEW k \in Sockets, WriteFails(k)
      PROVE  WorkerIInv'
  <2>1. /\ Fault
        /\ UNCHANGED <<jobs, taken, done, pc, current, outcome, last, streamState, events, final>>
    BY <1>6 DEF WriteFails
  <2> QED
    BY <2>1, FaultPreserves
<1>7. ASSUME NEW k \in Sockets, ReceiveFinalize(k)
      PROVE  WorkerIInv'
  BY <1>1, <1>7 DEF ReceiveFinalize, HandlerGoes
<1>8. ASSUME NEW k \in Sockets, Answer(k) \/ Disconnect(k)
      PROVE  WorkerIInv'
  BY <1>2, <1>8 DEF Answer, SendProgress, SendCompleted, Disconnect
<1>9. ASSUME WorkerStep
      PROVE  WorkerIInv'
  BY <1>9, EnginePreserves, WorkPreserves DEF WorkerStep
<1>10. ASSUME UNCHANGED pipelineVars
       PROVE  WorkerIInv'
  BY <1>2, <1>10 DEF pipelineVars
<1> QED
  BY <1>3, <1>4, <1>5, <1>6, <1>7, <1>8, <1>9, <1>10 DEF PipelineNext
-----------------------------------------------------------------------------
Counted(used, c) == \A i \in 1..Len(used) : used[i] \in 1..c
Distinct(used) == \A i, j \in 1..Len(used) : i # j => used[i] # used[j]

\* A number above those in use is written to the next file.
LEMMA NextFile ==
  ASSUME NEW c \in Nat, NEW used \in Seq(Nat), Counted(used, c), Distinct(used),
         NEW more, more = Append(used, c + 1)
  PROVE  more \in Seq(Nat) /\ Counted(more, c + 1) /\ Distinct(more)
<1>1. /\ more \in Seq(Nat) /\ Len(more) = Len(used) + 1 /\ Len(used) \in Nat
      /\ \A i \in 1..Len(used) : more[i] = used[i]
      /\ more[Len(used) + 1] = c + 1
  BY AppendProperties, LenProperties
<1>2. \A i \in 1..Len(more) : i \in 1..Len(used) \/ i = Len(used) + 1
  BY <1>1
<1>3. ASSUME NEW i \in 1..Len(used)
      PROVE  more[i] \in 1..c + 1 /\ more[i] # c + 1
  <2>1. \A m \in 1..c : m \in 1..c + 1 /\ m # c + 1
    OBVIOUS
  <2>2. more[i] = used[i] /\ used[i] \in 1..c
    BY <1>1, Zenon DEF Counted
  <2> QED
    BY <2>1, <2>2, Zenon
<1>4. c + 1 \in 1..c + 1
  OBVIOUS
<1>5. \A i \in 1..Len(more) : more[i] \in 1..c + 1
  BY <1>1, <1>2, <1>3, <1>4
<1>6. ASSUME NEW i \in 1..Len(more), NEW j \in 1..Len(more), i # j
      PROVE  more[i] # more[j]
  BY <1>1, <1>2, <1>3, <1>6 DEF Distinct
<1> QED
  BY <1>1, <1>5, <1>6 DEF Counted, Distinct

LEMMA InitClients == PipelineInit => ClientsIInv
<1> SUFFICES ASSUME PipelineInit PROVE ClientsIInv
  OBVIOUS
<1>1. <<>> \in Seq(Nat) /\ Len(<<>>) = 0 /\ 1..Len(<<>>) = {}
  BY EmptySeq
<1>2. TypeOK
  BY InitWorker DEF PipelineInit, WorkerIInv
<1>3. PipelineTypeOK
  <2>1. 0 \in 0..Len(jobs) /\ connects \in 0..MaxConnects
    BY <1>1, StreamJobsAreJobs DEF PipelineInit, Init
  <2>2. /\ chunkCount \in [Streams -> Nat] /\ files \in [Streams -> Seq(Nat)]
        /\ sending \in [Sockets -> 0..Len(jobs)]
    BY <1>1, <2>1 DEF PipelineInit
  <2> QED
    BY <1>2, <2>1, <2>2 DEF PipelineInit, PipelineTypeOK
<1>4. Handlers
  BY DEF PipelineInit, Handlers
<1>5. FilesAreCounted /\ FilesAreDistinct
  BY <1>1 DEF PipelineInit, FilesAreCounted, FilesAreDistinct
<1>6. StreamJobs
  BY <1>1 DEF PipelineInit, Init, StreamJobs
<1> QED
  BY <1>3, <1>4, <1>5, <1>6 DEF ClientsIInv

\* When the queue and the files stay, and the handlers are in order.
LEMMA ClientsStay ==
  ASSUME ClientsIInv, PipelineTypeOK', Handlers',
         jobs' = jobs, files' = files, created \subseteq created',
         \A s \in Streams : files[s] = <<>> \/ chunkCount'[s] >= chunkCount[s]
  PROVE  ClientsIInv'
<1>1. FilesAreCounted'
  <2> SUFFICES ASSUME NEW s \in Streams
               PROVE  /\ \A i \in 1..Len(files[s]) : files[s][i] \in 1..chunkCount'[s]
                      /\ s \notin created' => files[s] = <<>>
    BY DEF FilesAreCounted
  <2>1. /\ chunkCount[s] \in Nat /\ chunkCount'[s] \in Nat
        /\ \A i \in 1..Len(files[s]) : files[s][i] \in 1..chunkCount[s]
        /\ s \notin created => files[s] = <<>>
    BY DEF ClientsIInv, FilesAreCounted, PipelineTypeOK
  <2>2. CASE files[s] = <<>>
    <3>1. 1..Len(files[s]) = {}
      BY <2>2, EmptySeq
    <3> QED
      BY <2>2, <3>1
  <2>3. CASE chunkCount'[s] >= chunkCount[s]
    BY <2>1, <2>3
  <2> QED
    BY <2>2, <2>3
<1>2. FilesAreDistinct'
  BY DEF ClientsIInv, FilesAreDistinct
<1>3. StreamJobs'
  BY DEF ClientsIInv, StreamJobs
<1> QED
  BY <1>1, <1>2, <1>3 DEF ClientsIInv

\* A handler enqueues a job of its stream.
LEMMA JobsOfStreams ==
  ASSUME StreamJobs, TypeOK, NEW s \in Streams, NEW j \in {ChunkOf(s), FinalizationOf(s)},
         Enqueue(j)
  PROVE  StreamJobs' /\ jobs' \in Seq(Jobs) /\ Len(jobs) \in Nat /\ Len(jobs') = Len(jobs) + 1
<1>1. j \in Jobs
  BY StreamJobsAreJobs
<1>2. /\ jobs' \in Seq(Jobs) /\ Len(jobs') = Len(jobs) + 1 /\ Len(jobs) \in Nat
      /\ \A m \in 1..Len(jobs) : jobs'[m] = jobs[m]
      /\ jobs'[Len(jobs) + 1] = j
  BY <1>1, EnqueueAppends
<1>3. \A n \in 1..Len(jobs') : n \in 1..Len(jobs) \/ n = Len(jobs) + 1
  BY <1>2
<1>4. ASSUME NEW n \in 1..Len(jobs')
      PROVE  \E t \in Streams : jobs'[n] \in {ChunkOf(t), FinalizationOf(t)}
  <2>1. CASE n \in 1..Len(jobs)
    BY <1>2, <2>1 DEF StreamJobs
  <2>2. CASE n = Len(jobs) + 1
    BY <1>2, <2>2
  <2> QED
    BY <1>3, <2>1, <2>2
<1> QED
  BY <1>2, <1>4, Zenon DEF StreamJobs

-----------------------------------------------------------------------------
\* The state of the clients, one action of a handler at a time.
LEMMA ClientTypes ==
  ASSUME ClientsIInv
  PROVE  /\ TypeOK /\ Len(jobs) \in Nat /\ connects \in Nat /\ MaxConnects \in Nat
         /\ sending \in [Sockets -> 0..Len(jobs)] /\ sending \in [Sockets -> Nat]
         /\ handler \in [Sockets -> {"none", "open", "progress", "completing"}]
         /\ serving \in [Sockets -> Streams \cup {None}]
         /\ created \in SUBSET Streams /\ registry \in SUBSET created
         /\ chunkCount \in [Streams -> Nat] /\ files \in [Streams -> Seq(Nat)]
         /\ promised \in SUBSET (1..Len(jobs)) /\ connects \in 0..MaxConnects
<1>1. Len(jobs) \in Nat
  BY LenProperties DEF ClientsIInv, PipelineTypeOK, TypeOK
<1> QED
  BY <1>1, StreamJobsAreJobs DEF ClientsIInv, PipelineTypeOK

LEMMA CreateStreamPreserves ==
  ASSUME ClientsIInv, TypeOK', NEW s \in Streams, CreateStream(s)
  PROVE  ClientsIInv'
<1>1. /\ s \notin created /\ created' = created \cup {s} /\ registry' = registry \cup {s}
      /\ chunkCount' = [chunkCount EXCEPT ![s] = 0]
      /\ jobs' = jobs
      /\ UNCHANGED <<files, handler, serving, sending, connects, promised>>
  BY DEF CreateStream, vars
<1>2. PipelineTypeOK'
  BY <1>1, ClientTypes DEF PipelineTypeOK
<1>3. Handlers'
  BY <1>1 DEF ClientsIInv, Handlers
<1>4. files[s] = <<>> /\ \A t \in Streams : t = s \/ chunkCount'[t] = chunkCount[t]
  BY <1>1, ClientTypes DEF ClientsIInv, FilesAreCounted
<1>5. \A t \in Streams : chunkCount'[t] = chunkCount[t] => chunkCount'[t] >= chunkCount[t]
  BY ClientTypes
<1> QED
  BY <1>1, <1>2, <1>3, <1>4, <1>5, ClientsStay

LEMMA ConnectPreserves ==
  ASSUME ClientsIInv, TypeOK', NEW k \in Sockets, NEW s \in Streams, Connect(k, s)
  PROVE  ClientsIInv'
<1>1. /\ connects < MaxConnects /\ connects' = connects + 1 /\ s \in registry
      /\ handler' = [handler EXCEPT ![k] = "open"]
      /\ serving' = [serving EXCEPT ![k] = s]
      /\ jobs' = jobs
      /\ UNCHANGED <<registry, created, chunkCount, files, sending, promised>>
  BY DEF Connect, HandlerGoes, vars
<1>2. PipelineTypeOK'
  BY <1>1, ClientTypes DEF PipelineTypeOK
<1>3. Handlers'
  BY <1>1, ClientTypes DEF ClientsIInv, Handlers
<1>4. \A t \in Streams : chunkCount'[t] >= chunkCount[t]
  BY <1>1, ClientTypes
<1> QED
  BY <1>1, <1>2, <1>3, <1>4, ClientsStay

LEMMA ReceiveChunkPreserves ==
  ASSUME ClientsIInv, TypeOK', NEW k \in Sockets, ReceiveChunk(k)
  PROVE  ClientsIInv'
<1> PICK s : s = serving[k]
  OBVIOUS
<1> PICK c : c = chunkCount[s]
  OBVIOUS
<1>1. /\ handler[k] = "open" /\ handler' = [handler EXCEPT ![k] = "progress"]
      /\ chunkCount' = [chunkCount EXCEPT ![s] = c + 1]
      /\ files' = [files EXCEPT ![s] = Append(files[s], c + 1)]
      /\ Enqueue(ChunkOf(s))
      /\ sending' = [sending EXCEPT ![k] = Len(jobs) + 1]
      /\ UNCHANGED <<registry, created, serving, connects, promised>>
  BY DEF ReceiveChunk, HandlerGoes
<1>2. s \in created /\ s \in Streams /\ c \in Nat
  BY <1>1, ClientTypes DEF ClientsIInv, Handlers
<1>3. StreamJobs' /\ Len(jobs) \in Nat /\ Len(jobs') = Len(jobs) + 1
  BY <1>1, <1>2, ClientTypes, JobsOfStreams DEF ClientsIInv
<1> PICK used : used = files[s]
  OBVIOUS
<1>4. used \in Seq(Nat) /\ Counted(used, c) /\ Distinct(used)
  <2>1. used \in Seq(Nat)
    BY <1>2, ClientTypes
  <2>2. Counted(used, c)
    BY <1>2, Zenon DEF ClientsIInv, FilesAreCounted, Counted
  <2>3. Distinct(used)
    <3>1. \A t \in Streams : Distinct(files[t])
      BY Zenon DEF ClientsIInv, FilesAreDistinct, Distinct
    <3> QED
      BY <1>2, <3>1
  <2> QED
    BY <2>1, <2>2, <2>3
<1> PICK more : more = Append(used, c + 1)
  OBVIOUS
<1>5. more \in Seq(Nat) /\ Counted(more, c + 1) /\ Distinct(more)
  BY <1>2, <1>4, NextFile
<1>6. /\ files'[s] = more /\ chunkCount'[s] = c + 1
      /\ \A t \in Streams \ {s} : files'[t] = files[t] /\ chunkCount'[t] = chunkCount[t]
  BY <1>1, <1>2, ClientTypes
<1>7. PipelineTypeOK'
  <2>1. /\ chunkCount' \in [Streams -> Nat] /\ files' \in [Streams -> Seq(Nat)]
    BY <1>1, <1>2, <1>5, <1>6, ClientTypes
  <2>2. /\ sending' \in [Sockets -> 0..Len(jobs')] /\ promised' \in SUBSET (1..Len(jobs'))
        /\ handler' \in [Sockets -> {"none", "open", "progress", "completing"}]
    BY <1>1, <1>3, ClientTypes
  <2> QED
    BY <1>1, <2>1, <2>2, ClientTypes DEF PipelineTypeOK
<1>8. Handlers'
  BY <1>1, <1>2, <1>3, ClientTypes DEF ClientsIInv, Handlers
<1>9. FilesAreCounted'
  <2> SUFFICES ASSUME NEW t \in Streams
               PROVE  /\ \A i \in 1..Len(files'[t]) : files'[t][i] \in 1..chunkCount'[t]
                      /\ t \notin created' => files'[t] = <<>>
    BY DEF FilesAreCounted
  <2>1. CASE t = s
    BY <1>1, <1>2, <1>5, <1>6, <2>1 DEF Counted
  <2>2. CASE t # s
    BY <1>1, <1>6, <2>2 DEF ClientsIInv, FilesAreCounted
  <2> QED
    BY <2>1, <2>2
<1>10. FilesAreDistinct'
  <2>1. \A t \in Streams : Distinct(files[t])
    BY Zenon DEF ClientsIInv, FilesAreDistinct, Distinct
  <2>2. ASSUME NEW t \in Streams, NEW new, new = files'[t]
        PROVE  Distinct(new)
    BY <1>5, <1>6, <2>1, <2>2
  <2> QED
    BY <2>2, Zenon DEF FilesAreDistinct, Distinct
<1> QED
  BY <1>3, <1>7, <1>8, <1>9, <1>10 DEF ClientsIInv

LEMMA WriteFailsPreserves ==
  ASSUME ClientsIInv, TypeOK', NEW k \in Sockets, WriteFails(k)
  PROVE  ClientsIInv'
<1> PICK s : s = serving[k]
  OBVIOUS
<1>1. /\ handler[k] = "open" /\ handler' = [handler EXCEPT ![k] = "none"]
      /\ chunkCount' = [chunkCount EXCEPT ![s] = @ + 1]
      /\ serving' = [serving EXCEPT ![k] = None]
      /\ jobs' = jobs
      /\ UNCHANGED <<registry, created, files, sending, connects, promised>>
  BY DEF WriteFails, HandlerGoes
<1>2. s \in Streams
  BY <1>1, ClientTypes DEF ClientsIInv, Handlers
<1>3. PipelineTypeOK'
  BY <1>1, <1>2, ClientTypes DEF PipelineTypeOK
<1>4. Handlers'
  BY <1>1, ClientTypes DEF ClientsIInv, Handlers
<1>5. \A t \in Streams : chunkCount'[t] >= chunkCount[t]
  BY <1>1, <1>2, ClientTypes
<1> QED
  BY <1>1, <1>3, <1>4, <1>5, ClientsStay

LEMMA ReceiveFinalizePreserves ==
  ASSUME ClientsIInv, TypeOK', NEW k \in Sockets, ReceiveFinalize(k)
  PROVE  ClientsIInv'
<1> PICK s : s = serving[k]
  OBVIOUS
<1>1. /\ handler[k] = "open" /\ handler' = [handler EXCEPT ![k] = "completing"]
      /\ Enqueue(FinalizationOf(s))
      /\ sending' = [sending EXCEPT ![k] = Len(jobs) + 1]
      /\ UNCHANGED <<registry, created, chunkCount, files, serving, connects, promised>>
  BY DEF ReceiveFinalize, HandlerGoes
<1>2. s \in created /\ s \in Streams
  BY <1>1, ClientTypes DEF ClientsIInv, Handlers
<1>3. StreamJobs' /\ Len(jobs) \in Nat /\ Len(jobs') = Len(jobs) + 1
  BY <1>1, <1>2, ClientTypes, JobsOfStreams DEF ClientsIInv
<1>4. PipelineTypeOK'
  <2>1. /\ sending' \in [Sockets -> 0..Len(jobs')] /\ promised' \in SUBSET (1..Len(jobs'))
        /\ handler' \in [Sockets -> {"none", "open", "progress", "completing"}]
    BY <1>1, <1>3, ClientTypes
  <2> QED
    BY <1>1, <2>1, ClientTypes DEF PipelineTypeOK
<1>5. Handlers'
  BY <1>1, <1>2, <1>3, ClientTypes DEF ClientsIInv, Handlers
<1>6. FilesAreCounted' /\ FilesAreDistinct'
  BY <1>1 DEF ClientsIInv, FilesAreCounted, FilesAreDistinct
<1> QED
  BY <1>3, <1>4, <1>5, <1>6 DEF ClientsIInv

\* An answer or the end of a socket: nothing is enqueued, nothing is written.
LEMMA AnswerPreserves ==
  ASSUME ClientsIInv, TypeOK', NEW k \in Sockets, Answer(k) \/ Disconnect(k)
  PROVE  ClientsIInv'
<1>1. /\ jobs' = jobs /\ UNCHANGED <<created, chunkCount, files, connects>>
      /\ sending' = [sending EXCEPT ![k] = 0]
  BY DEF Answer, SendProgress, SendCompleted, Disconnect, vars
<1>2. PipelineTypeOK' /\ Handlers'
  <2>1. CASE SendProgress(k)
    <3>1. /\ handler[k] = "progress" /\ handler' = [handler EXCEPT ![k] = "open"]
          /\ promised' = promised \cup {sending[k]}
          /\ UNCHANGED <<registry, serving>>
      BY <2>1 DEF SendProgress, HandlerGoes
    <3>2. sending[k] \in 1..Len(jobs)
      BY <3>1, ClientTypes DEF ClientsIInv, Handlers
    <3>3. PipelineTypeOK'
      BY <1>1, <3>1, <3>2, ClientTypes DEF PipelineTypeOK
    <3> QED
      BY <1>1, <3>1, <3>3, ClientTypes DEF ClientsIInv, Handlers
  <2>2. CASE SendCompleted(k) \/ Disconnect(k)
    <3>1. /\ handler' = [handler EXCEPT ![k] = "none"]
          /\ serving' = [serving EXCEPT ![k] = None]
          /\ promised' = promised /\ registry' \subseteq registry
      BY <2>2 DEF SendCompleted, Disconnect, HandlerGoes
    <3>2. PipelineTypeOK'
      BY <1>1, <3>1, ClientTypes DEF PipelineTypeOK
    <3> QED
      BY <1>1, <3>1, <3>2, ClientTypes DEF ClientsIInv, Handlers
  <2> QED
    BY <2>1, <2>2 DEF Answer
<1>3. \A t \in Streams : chunkCount'[t] >= chunkCount[t]
  BY <1>1, ClientTypes
<1> QED
  BY <1>1, <1>2, <1>3, ClientsStay

LEMMA OthersPreserveClients ==
  ASSUME ClientsIInv, TypeOK', WorkerStep \/ UNCHANGED pipelineVars
  PROVE  ClientsIInv'
<1>1. jobs' = jobs /\ UNCHANGED socketVars
  BY WorkKeepsJobs DEF pipelineVars, vars
<1>2. PipelineTypeOK' /\ Handlers'
  BY <1>1 DEF ClientsIInv, PipelineTypeOK, Handlers, socketVars
<1>3. \A t \in Streams : chunkCount'[t] >= chunkCount[t]
  BY <1>1, ClientTypes DEF socketVars
<1> QED
  BY <1>1, <1>2, <1>3, ClientsStay DEF socketVars

LEMMA ClientsGoOn ==
  ASSUME ClientsIInv, TypeOK', [PipelineNext]_pipelineVars
  PROVE  ClientsIInv'
BY CreateStreamPreserves, ConnectPreserves, ReceiveChunkPreserves, WriteFailsPreserves,
   ReceiveFinalizePreserves, AnswerPreserves, OthersPreserveClients DEF PipelineNext
-----------------------------------------------------------------------------
\* A step that changes no stream state and ends no chunk.
Steady ==
  /\ UNCHANGED <<chunks, results, final>>
  /\ 1..taken \subseteq 1..taken' /\ \A m \in 1..taken : jobs'[m] = jobs[m]
  /\ \A v \in Workers :
       pc'[v] = "running" => pc[v] = "running" /\ current'[v] = current[v]
  /\ \A m \in 1..taken : jobs[m].kind = "chunk" =>
       /\ Ended(m)' => Ended(m) /\ outcome'[m] = outcome[m]
       /\ \A v \in Workers : current'[v] = m => current[v] = m /\ pc'[v] = pc[v]
       /\ \A e \in Engines : outcome[m][e] = "ok" => outcome'[m][e] = "ok"

LEMMA SteadyHolds ==
  ASSUME WorkerIInv, Holdings, Steady
  PROVE  Holdings'
<1>1. /\ \A w \in Workers, s \in Streams : ListOf(w, s)' = ListOf(w, s)
      /\ \A f \in Numbers : FinalOf(f)' = FinalOf(f)
      /\ UNCHANGED <<results, final>>
  BY DEF Steady, ListOf, FinalOf
<1>2. \A m \in 1..taken : jobs'[m] = jobs[m] /\ m \in 1..taken'
  BY DEF Steady
<1>3. Lists'
  <2> SUFFICES ASSUME NEW w \in Workers, NEW s \in Streams, NEW n \in ListOf(w, s)
               PROVE  /\ n \in 1..taken' /\ IsJob(n, "chunk", s)'
                      /\ \A v \in Workers : current'[v] = n => v = w /\ pc'[v] # "taken"
                      /\ Ended(n)' => \A e \in Engines :
                           <<n, e>> \in results[w][s] <=> outcome'[n][e] = "ok"
    BY <1>1 DEF Lists
  <2>1. /\ n \in 1..taken /\ jobs[n].kind = "chunk" /\ jobs[n].stream = s
        /\ \A v \in Workers : current[v] = n => v = w /\ pc[v] # "taken"
        /\ Ended(n) => \A e \in Engines : <<n, e>> \in results[w][s] <=> outcome[n][e] = "ok"
    BY DEF Holdings, Lists, IsJob
  <2> QED
    BY <1>2, <2>1 DEF Steady, IsJob
<1>4. Finals'
  <2> SUFFICES ASSUME NEW f \in Numbers, NEW n \in FinalOf(f)
               PROVE  /\ f \in 1..taken' /\ n \in 1..taken'
                      /\ IsJob(n, "chunk", jobs[f].stream)' /\ jobs'[f].stream = jobs[f].stream
                      /\ \A v \in Workers : current'[v] # n
                      /\ Ended(n)' => \A e \in Engines :
                           <<n, e>> \in final[f].results <=> outcome'[n][e] = "ok"
    BY <1>1 DEF Finals, IsJob
  <2>1. /\ f \in 1..taken /\ n \in 1..taken
        /\ jobs[n].kind = "chunk" /\ jobs[n].stream = jobs[f].stream
        /\ \A v \in Workers : current[v] # n
        /\ Ended(n) => \A e \in Engines : <<n, e>> \in final[f].results <=> outcome[n][e] = "ok"
    BY DEF Holdings, Finals, IsJob
  <2> QED
    BY <1>2, <2>1 DEF Steady, IsJob
<1>5. OnePlace'
  BY <1>1 DEF Holdings, OnePlace
<1>6. KeptResults'
  <2> SUFFICES ASSUME NEW w \in Workers, NEW s \in Streams, NEW n \in Numbers, NEW e \in Engines,
                      <<n, e>> \in results[w][s]
               PROVE  n \in ListOf(w, s) /\ outcome'[n][e] = "ok"
    BY <1>1 DEF KeptResults
  <2>1. n \in ListOf(w, s) /\ outcome[n][e] = "ok"
    BY DEF Holdings, KeptResults
  <2>2. n \in 1..taken /\ jobs[n].kind = "chunk"
    BY <2>1 DEF Holdings, Lists, IsJob
  <2> QED
    BY <2>1, <2>2 DEF Steady
<1>7. ChunksInWork'
  <2> SUFFICES ASSUME NEW w \in Workers, NEW s \in Streams,
                      pc'[w] = "running", IsJob(current[w], "chunk", s)',
                      pc[w] = "running", current'[w] = current[w]
               PROVE  current[w] \in ListOf(w, s)
    BY <1>1 DEF ChunksInWork, Steady, IsJob
  <2>1. current[w] \in 1..taken
    BY AtWork
  <2>2. IsJob(current[w], "chunk", s)
    BY <1>2, <2>1 DEF IsJob
  <2> QED
    BY <2>2 DEF Holdings, ChunksInWork
<1> QED
  BY <1>3, <1>4, <1>5, <1>6, <1>7 DEF Holdings
-----------------------------------------------------------------------------
\* Reports and engines of a job.
LEMMA EndedIsSettled ==
  ASSUME WorkerIInv, NEW m \in 1..taken, Ended(m)
  PROVE  Settled(m)
<1>1. CASE Reported(m)
  BY <1>1 DEF WorkerIInv, Accounts, ReportedJobs
<1>2. ASSUME NEW v \in Workers, current[v] = m, pc[v] = "reporting"
      PROVE  Settled(m)
  BY <1>2, AtWork DEF Place
<1> QED
  BY <1>1, <1>2 DEF Ended

LEMMA InWorkIsUnreported ==
  ASSUME WorkerIInv, NEW w \in Workers, NEW n, n = current[w], pc[w] # "idle"
  PROVE  /\ n \in 1..taken /\ n # 0 /\ ~ Reported(n)
         /\ \A v \in Workers : current[v] = n => v = w
         /\ pc[w] # "reporting" => ~ Ended(n)
<1>1. n \in 1..taken /\ n # 0 /\ events[n] \in Seq(Statuses) /\ Place(w)
  BY AtWork, WorkerTypes DEF WorkerIInv
<1>2. ~ Reported(n)
  BY <1>1, LowIsUnreported DEF Place, UpTo, Reported
<1>3. \A v \in Workers : current[v] = n => v = w
  BY <1>1 DEF WorkerIInv, OwnJobs
<1> QED
  BY <1>1, <1>2, <1>3 DEF Ended

\* Nothing new is ended when events and places of a job stay.
LEMMA EndedStays ==
  ASSUME NEW m, jobs'[m].kind = jobs[m].kind, events'[m] = events[m],
         \A v \in Workers : current'[v] = m /\ pc'[v] = "reporting" =>
                              current[v] = m /\ pc[v] = "reporting"
  PROVE  Ended(m)' => Ended(m)
BY DEF Ended, Reported

LEMMA EnqueueIsSteady ==
  ASSUME WorkerIInv, NEW j \in Jobs, Enqueue(j)
  PROVE  Steady
<1>1. /\ \A m \in 1..taken : jobs'[m] = jobs[m]
      /\ UNCHANGED <<taken, pc, current, outcome, chunks, results, events, final>>
  BY EnqueueAppends, WorkerTypes DEF WorkerIInv, streamState
<1>2. \A m \in 1..taken : Ended(m)' => Ended(m)
  BY <1>1, EndedStays
<1> QED
  BY <1>1, <1>2 DEF Steady

LEMMA EngineIsSteady ==
  ASSUME WorkerIInv, NEW n \in Numbers, NEW e \in Engines, EngineEnds(n, e)
  PROVE  Steady
<1>1. PICK o \in {"ok", "failed"} : outcome' = [outcome EXCEPT ![n][e] = o]
  BY DEF EngineEnds
<1>2. /\ outcome[n][e] = "running"
      /\ UNCHANGED <<jobs, taken, pc, current, chunks, results, events, final>>
  BY DEF EngineEnds, streamState
<1>3. /\ \A m \in Numbers \ {n} : outcome'[m] = outcome[m]
      /\ \A d \in Engines : outcome[n][d] = "ok" => outcome'[n][d] = "ok"
  BY <1>1, <1>2 DEF WorkerIInv, TypeOK
<1>4. 1..taken \subseteq Numbers
  BY WorkerTypes DEF WorkerIInv
<1>5. \A m \in 1..taken : Ended(m)' => Ended(m)
  BY <1>2, EndedStays
<1>6. n \in 1..taken => ~ Ended(n)
  BY <1>2, EndedIsSettled DEF Settled
<1> QED
  BY <1>2, <1>3, <1>4, <1>5, <1>6 DEF Steady

LEMMA TakeIsSteady ==
  ASSUME WorkerIInv, NEW w \in Workers, Take(w)
  PROVE  Steady
<1>1. /\ taken' = taken + 1 /\ current' = [current EXCEPT ![w] = taken + 1]
      /\ pc' = [pc EXCEPT ![w] = "taken"]
      /\ UNCHANGED <<jobs, outcome, chunks, results, events, final>>
  BY DEF Take, Goto, streamState
<1>2. taken \in Nat /\ taken + 1 \notin 1..taken /\ 1..taken \subseteq 1..taken'
  BY <1>1, WorkerTypes DEF WorkerIInv
<1>3. \A v \in Workers : \/ current'[v] = taken + 1 /\ pc'[v] = "taken"
                         \/ current'[v] = current[v] /\ pc'[v] = pc[v]
  BY <1>1 DEF WorkerIInv, TypeOK
<1>4. \A m \in 1..taken, v \in Workers : current'[v] = m => current[v] = m /\ pc'[v] = pc[v]
  BY <1>2, <1>3
<1>5. \A m \in 1..taken : Ended(m)' => Ended(m)
  BY <1>1, <1>4, EndedStays
<1>6. \A v \in Workers : pc'[v] = "running" => pc[v] = "running" /\ current'[v] = current[v]
  BY <1>3
<1> QED
  BY <1>1, <1>2, <1>4, <1>5, <1>6 DEF Steady

\* A worker leaves run_once, after its report or without one.
LEMMA LeavingIsSteady ==
  ASSUME WorkerIInv, NEW w \in Workers, Report(w) \/ Abort(w)
  PROVE  Steady
<1> PICK n : n = current[w]
  OBVIOUS
<1>1. /\ pc[w] # "idle" /\ current' = [current EXCEPT ![w] = 0]
      /\ pc' = [pc EXCEPT ![w] = "idle"]
      /\ UNCHANGED <<jobs, taken, outcome, chunks, results, final>>
      /\ events' = events \/ (pc[w] = "reporting" /\ Emit(w, last[w]))
  BY DEF Report, Abort, Goto, streamState
<1>2. 1..taken \subseteq Numbers /\ 0 \notin 1..taken
  BY WorkerTypes DEF WorkerIInv
<1>3. \A v \in Workers : \/ current'[v] = 0 /\ pc'[v] = "idle"
                         \/ current'[v] = current[v] /\ pc'[v] = pc[v]
  BY <1>1 DEF WorkerIInv, TypeOK
<1>4. \A m \in 1..taken, v \in Workers : current'[v] = m => current[v] = m /\ pc'[v] = pc[v]
  BY <1>2, <1>3
<1>5. ASSUME NEW m \in 1..taken
      PROVE  Ended(m)' => Ended(m)
  <2>1. CASE events'[m] = events[m]
    BY <1>1, <1>4, <2>1, EndedStays
  <2>2. CASE events'[m] # events[m]
    <3>1. pc[w] = "reporting" /\ m = n
      BY <1>1, <1>2, <2>2 DEF Emit, WorkerIInv, TypeOK
    <3> QED
      BY <3>1 DEF Ended
  <2> QED
    BY <2>1, <2>2
<1>6. \A v \in Workers : pc'[v] = "running" => pc[v] = "running" /\ current'[v] = current[v]
  BY <1>3
<1> QED
  BY <1>1, <1>4, <1>5, <1>6 DEF Steady

LEMMA AsideIsSteady ==
  ASSUME UNCHANGED <<jobs, taken, pc, current, outcome, streamState, events, final>>
  PROVE  Steady
<1>1. \A m : Ended(m)' => Ended(m)
  BY EndedStays
<1> QED
  BY <1>1 DEF Steady, streamState

\* finalize_stream without a state.
LEMMA UnknownIsSteady ==
  ASSUME WorkerIInv, NEW w \in Workers, Finalize(w), Job(w).stream \notin known[w]
  PROVE  Steady
<1> PICK n : n = current[w]
  OBVIOUS
<1>1. /\ pc[w] = "taken" /\ jobs[n].kind = "finalize" /\ pc' = [pc EXCEPT ![w] = "reporting"]
      /\ UNCHANGED <<jobs, taken, current, outcome, chunks, results, events, final>>
  BY DEF Finalize, Job, Reporting, Goto, streamState
<1>2. \A v \in Workers : v = w \/ pc'[v] = pc[v]
  BY <1>1 DEF WorkerIInv, TypeOK
<1>3. pc'[w] = "reporting"
  BY <1>1 DEF WorkerIInv, TypeOK
<1>4. ASSUME NEW m \in 1..taken, jobs[m].kind = "chunk"
      PROVE  /\ \A v \in Workers : current'[v] = m => current[v] = m /\ pc'[v] = pc[v]
             /\ Ended(m)' => Ended(m)
  <2>1. \A v \in Workers : current'[v] = m => current[v] = m /\ pc'[v] = pc[v]
    BY <1>1, <1>2, <1>4
  <2> QED
    BY <1>1, <2>1, EndedStays
<1> QED
  BY <1>1, <1>2, <1>3, <1>4 DEF Steady
-----------------------------------------------------------------------------
LEMMA ElementsOfAppend ==
  ASSUME NEW S, NEW list \in Seq(S), NEW n \in S
  PROVE  Elements(Append(list, n)) = Elements(list) \cup {n}
<1> PICK more : more = Append(list, n)
  OBVIOUS
<1>1. /\ Len(more) = Len(list) + 1 /\ Len(list) \in Nat /\ more[Len(list) + 1] = n
      /\ \A i \in 1..Len(list) : more[i] = list[i]
  BY AppendProperties, LenProperties
<1>2. \A i : i \in 1..Len(more) <=> i \in 1..Len(list) \/ i = Len(list) + 1
  BY <1>1
<1>3. \A m : m \in Elements(more) <=> m \in Elements(list) \/ m = n
  BY <1>1, <1>2, Zenon DEF Elements
<1>4. Elements(more) = Elements(list) \cup {n}
  BY <1>3
<1> QED
  BY <1>4

LEMMA NoElements == Elements(<<>>) = {}
BY EmptySeq DEF Elements

LEMMA StreamJobsAreGiven ==
  ASSUME WorkerIInv, StreamJobs, NEW w \in Workers, NEW n, n = current[w], pc[w] # "idle"
  PROVE  /\ n \in 1..taken /\ n \in Numbers /\ Job(w) = jobs[n] /\ jobs[n].input = "given"
         /\ jobs[n].stream \in Streams /\ jobs[n].kind \in {"chunk", "finalize"}
<1>1. n \in 1..taken /\ n \in Numbers /\ Job(w) = jobs[n] /\ n \in 1..Len(jobs)
  BY AtWork, WorkerTypes DEF WorkerIInv
<1>2. PICK s \in Streams : jobs[n] \in {ChunkOf(s), FinalizationOf(s)}
  BY <1>1 DEF StreamJobs
<1> QED
  BY <1>1, <1>2, StreamJobsAreJobs

\* What StartChunk does to the state of a stream, and to what is ended.
ChunkStarts(w, n, s) ==
  /\ n \in 1..taken /\ n \in Numbers /\ s \in Streams /\ jobs[n].kind = "chunk"
  /\ pc[w] = "taken" /\ pc'[w] = "running"
  /\ known' = [known EXCEPT ![w] = @ \cup {s}]
  /\ ListOf(w, s)' = ListOf(w, s) \cup {n}
  /\ \A v \in Workers, t \in Streams :
       v # w \/ t # s => ListOf(v, t)' = ListOf(v, t)
  /\ \A v \in Workers \ {w} : pc'[v] = pc[v]
  /\ \A m \in Numbers \ {n} : outcome'[m] = outcome[m]
  /\ UNCHANGED <<jobs, taken, current, results, events, final>>
  /\ ~ Ended(n)' /\ \A m : Ended(m)' => Ended(m)

LEMMA StartChunkAdds ==
  ASSUME WorkerIInv, StreamJobs, NEW w \in Workers, NEW n, n = current[w], NEW s,
         s = jobs[n].stream, StartChunk(w)
  PROVE  ChunkStarts(w, n, s)
<1>1. pc[w] = "taken" /\ jobs[n].kind = "chunk" /\ Job(w) = jobs[n] /\ jobs[n].input = "given"
  BY StreamJobsAreGiven DEF StartChunk
<1>2. n \in 1..taken /\ n \in Numbers /\ s \in Streams
  BY <1>1, StreamJobsAreGiven
<1>3. /\ known' = [known EXCEPT ![w] = @ \cup {s}]
      /\ chunks' = [chunks EXCEPT ![w][s] = Append(@, n)]
      /\ Ask(n) /\ pc' = [pc EXCEPT ![w] = "running"]
      /\ UNCHANGED <<jobs, taken, current, results, events, final>>
  BY <1>1 DEF StartChunk, Goto
<1>4. /\ chunks[w][s] \in Seq(Numbers)
      /\ chunks'[w][s] = Append(chunks[w][s], n)
      /\ \A v \in Workers, t \in Streams : v # w \/ t # s => chunks'[v][t] = chunks[v][t]
  BY <1>2, <1>3 DEF WorkerIInv, TypeOK
<1>5. /\ ListOf(w, s)' = ListOf(w, s) \cup {n}
      /\ \A v \in Workers, t \in Streams : v # w \/ t # s => ListOf(v, t)' = ListOf(v, t)
  <2>1. Elements(Append(chunks[w][s], n)) = Elements(chunks[w][s]) \cup {n}
    <3> PICK list \in Seq(Numbers) : list = chunks[w][s]
      BY <1>4
    <3>1. Elements(Append(list, n)) = Elements(list) \cup {n}
      BY <1>2, ElementsOfAppend
    <3> QED
      BY <3>1
  <2>2. ListOf(w, s)' = ListOf(w, s) \cup {n}
    BY <1>4, <2>1 DEF ListOf
  <2>3. \A v \in Workers, t \in Streams : v # w \/ t # s => ListOf(v, t)' = ListOf(v, t)
    BY <1>4 DEF ListOf
  <2> QED
    BY <2>2, <2>3
<1>6. pc'[w] = "running" /\ \A v \in Workers \ {w} : pc'[v] = pc[v]
  BY <1>3 DEF WorkerIInv, TypeOK
<1>7. \A m \in Numbers \ {n} : outcome'[m] = outcome[m]
  BY <1>3 DEF Ask, WorkerIInv, TypeOK
<1>8. \A m : Ended(m)' => Ended(m)
  BY <1>3, <1>6, EndedStays
<1>9. ~ Ended(n)
  BY <1>1, InWorkIsUnreported
<1> QED
  BY <1>1, <1>2, <1>3, <1>5, <1>6, <1>7, <1>8, <1>9 DEF ChunkStarts

LEMMA StartChunkHolds ==
  ASSUME WorkerIInv, StreamJobs, Holdings, NEW w \in Workers, StartChunk(w)
  PROVE  Holdings'
<1> PICK n : n = current[w]
  OBVIOUS
<1> PICK s : s = jobs[n].stream
  OBVIOUS
<1>1. ChunkStarts(w, n, s)
  BY StartChunkAdds
<1> USE DEF ChunkStarts
<1>2. /\ \A v \in Workers, t \in Streams : n \notin ListOf(v, t)
      /\ \A f \in Numbers : n \notin FinalOf(f)
  BY <1>1 DEF Holdings, Lists, Finals
<1>3. /\ \A v \in Workers : current[v] = n => v = w
      /\ 1..taken \subseteq Numbers
  BY <1>1, InWorkIsUnreported, WorkerTypes DEF WorkerIInv
<1>4. \A f \in Numbers : FinalOf(f)' = FinalOf(f)
  BY <1>1 DEF FinalOf
<1>5. \A v \in Workers, t \in Streams : \A m \in ListOf(v, t)' :
        (m = n /\ v = w /\ t = s) \/ (m # n /\ m \in ListOf(v, t))
  BY <1>1, <1>2
<1>6. Lists'
  <2> SUFFICES ASSUME NEW v \in Workers, NEW t \in Streams, NEW m, m \in ListOf(v, t)'
               PROVE  /\ m \in 1..taken /\ IsJob(m, "chunk", t)
                      /\ \A u \in Workers : current[u] = m => u = v /\ pc'[u] # "taken"
                      /\ Ended(m)' => \A e \in Engines :
                           <<m, e>> \in results[v][t] <=> outcome'[m][e] = "ok"
    BY <1>1 DEF Lists, IsJob
  <2>1. CASE m = n /\ v = w /\ t = s
    BY <1>1, <1>3, <2>1 DEF IsJob
  <2>2. CASE m # n /\ m \in ListOf(v, t)
    <3>1. /\ m \in 1..taken /\ IsJob(m, "chunk", t)
          /\ \A u \in Workers : current[u] = m => u = v /\ pc[u] # "taken"
          /\ Ended(m) => \A e \in Engines : <<m, e>> \in results[v][t] <=> outcome[m][e] = "ok"
      BY <2>2 DEF Holdings, Lists
    <3>2. outcome'[m] = outcome[m] /\ \A u \in Workers : current[u] = m => pc'[u] # "taken"
      BY <1>1, <1>3, <2>2, <3>1
    <3> QED
      BY <1>1, <3>1, <3>2
  <2> QED
    BY <1>5, <2>1, <2>2
<1>7. Finals'
  <2> SUFFICES ASSUME NEW f \in Numbers, NEW m \in FinalOf(f)
               PROVE  /\ f \in 1..taken /\ m \in 1..taken /\ IsJob(m, "chunk", jobs[f].stream)
                      /\ \A u \in Workers : current[u] # m
                      /\ Ended(m)' => \A e \in Engines :
                           <<m, e>> \in final[f].results <=> outcome'[m][e] = "ok"
    BY <1>1, <1>4 DEF Finals, IsJob
  <2>1. m # n /\ m \in Numbers
    BY <1>2, <1>3 DEF Holdings, Finals
  <2> QED
    BY <1>1, <2>1 DEF Holdings, Finals
<1>8. OnePlace'
  <2>1. /\ \A u, v \in Workers, r, t \in Streams :
             (ListOf(u, r) \cap ListOf(v, t))' # {} => u = v
    <3> SUFFICES ASSUME NEW u \in Workers, NEW v \in Workers, NEW r \in Streams, NEW t \in Streams,
                        NEW m, m \in ListOf(u, r)', m \in ListOf(v, t)'
                 PROVE  u = v
      OBVIOUS
    <3>1. m # n => ListOf(u, r) \cap ListOf(v, t) # {}
      BY <1>5
    <3> QED
      BY <1>5, <3>1 DEF Holdings, OnePlace
  <2>2. \A f \in Numbers, v \in Workers, t \in Streams : FinalOf(f) \cap ListOf(v, t)' = {}
    BY <1>2, <1>5 DEF Holdings, OnePlace
  <2>3. \A f, g \in Numbers : FinalOf(f) \cap FinalOf(g) # {} => f = g
    BY DEF Holdings, OnePlace
  <2> QED
    BY <1>4, <2>1, <2>2, <2>3 DEF OnePlace
<1>9. KeptResults'
  <2> SUFFICES ASSUME NEW v \in Workers, NEW t \in Streams, NEW m \in Numbers, NEW e \in Engines,
                      <<m, e>> \in results'[v][t]
               PROVE  m \in ListOf(v, t)' /\ outcome'[m][e] = "ok"
    BY Zenon DEF KeptResults
  <2>1. m \in ListOf(v, t) /\ outcome[m][e] = "ok"
    BY <1>1 DEF Holdings, KeptResults
  <2>2. outcome'[m] = outcome[m]
    BY <1>1, <1>2, <2>1
  <2>3. m \in ListOf(v, t)'
    BY <1>1, <2>1
  <2> QED
    BY <2>1, <2>2, <2>3
<1>10. ChunksInWork'
  <2> SUFFICES ASSUME NEW v \in Workers, NEW t \in Streams,
                      pc'[v] = "running", IsJob(current[v], "chunk", t)
               PROVE  current[v] \in ListOf(v, t)'
    BY <1>1 DEF ChunksInWork, IsJob
  <2>1. CASE v = w
    BY <1>1, <2>1 DEF IsJob
  <2>2. CASE v # w
    BY <1>1, <2>2 DEF Holdings, ChunksInWork
  <2> QED
    BY <2>1, <2>2
<1> QED
  BY <1>6, <1>7, <1>8, <1>9, <1>10 DEF Holdings

\* What EndChunk does to the state of a stream, and to what is ended.
ChunkEnds(w, n, s) ==
  /\ n \in 1..taken /\ n \in Numbers /\ s \in Streams /\ jobs[n].kind = "chunk"
  /\ pc[w] = "running" /\ pc'[w] = "reporting"
  /\ results'[w][s] = results[w][s] \cup ({n} \X Successful(n))
  /\ \A v \in Workers, t \in Streams : v # w \/ t # s => results'[v][t] = results[v][t]
  /\ \A v \in Workers \ {w} : pc'[v] = pc[v]
  /\ UNCHANGED <<jobs, taken, current, outcome, known, chunks, events, final>>
  /\ \A m : m # n => (Ended(m)' => Ended(m))

LEMMA EndChunkAdds ==
  ASSUME WorkerIInv, StreamJobs, NEW w \in Workers, NEW n, n = current[w], NEW s,
         s = jobs[n].stream, EndChunk(w)
  PROVE  ChunkEnds(w, n, s)
<1>1. pc[w] = "running" /\ jobs[n].kind = "chunk" /\ Job(w) = jobs[n]
  BY StreamJobsAreGiven DEF EndChunk, Gathered
<1>2. n \in 1..taken /\ n \in Numbers /\ s \in Streams
  BY <1>1, StreamJobsAreGiven
<1>3. /\ results' = [results EXCEPT ![w][s] = @ \cup ({n} \X Successful(n))]
      /\ pc' = [pc EXCEPT ![w] = "reporting"]
      /\ UNCHANGED <<jobs, taken, current, outcome, known, chunks, events, final>>
  BY <1>1 DEF EndChunk, Reporting, Goto
<1>4. /\ results'[w][s] = results[w][s] \cup ({n} \X Successful(n))
      /\ \A v \in Workers, t \in Streams : v # w \/ t # s => results'[v][t] = results[v][t]
  BY <1>2, <1>3 DEF WorkerIInv, TypeOK
<1>5. pc'[w] = "reporting" /\ \A v \in Workers \ {w} : pc'[v] = pc[v]
  BY <1>3 DEF WorkerIInv, TypeOK
<1>6. ASSUME NEW m, m # n
      PROVE  Ended(m)' => Ended(m)
  BY <1>3, <1>5, <1>6, EndedStays
<1> QED
  BY <1>1, <1>2, <1>3, <1>4, <1>5, <1>6 DEF ChunkEnds

LEMMA EndChunkHolds ==
  ASSUME WorkerIInv, StreamJobs, Holdings, NEW w \in Workers, EndChunk(w)
  PROVE  Holdings'
<1> PICK n : n = current[w]
  OBVIOUS
<1> PICK s : s = jobs[n].stream
  OBVIOUS
<1>1. ChunkEnds(w, n, s)
  BY EndChunkAdds
<1> USE DEF ChunkEnds
<1>2. /\ \A v \in Workers, t \in Streams : ListOf(v, t)' = ListOf(v, t)
      /\ \A f \in Numbers : FinalOf(f)' = FinalOf(f)
  BY <1>1 DEF ListOf, FinalOf
<1>3. n \in ListOf(w, s) /\ \A f \in Numbers : n \notin FinalOf(f)
  BY <1>1 DEF Holdings, ChunksInWork, IsJob, Finals
<1>4. \A v \in Workers, t \in Streams : n \in ListOf(v, t) => v = w /\ t = s
  BY <1>1 DEF Holdings, Lists, IsJob
<1>5. \A m, e : <<m, e>> \in {n} \X Successful(n) <=> m = n /\ e \in Engines /\ outcome[n][e] = "ok"
  BY DEF Successful
<1>6. \A v \in Workers, t \in Streams : \A m, e : m # n =>
        (<<m, e>> \in results'[v][t] <=> <<m, e>> \in results[v][t])
  BY <1>1, <1>5
<1>7. \A e \in Engines : <<n, e>> \in results[w][s] => outcome[n][e] = "ok"
  BY <1>1 DEF Holdings, KeptResults
<1>8. \A e \in Engines : <<n, e>> \in results'[w][s] <=> outcome[n][e] = "ok"
  BY <1>1, <1>5, <1>7
<1>9. Lists'
  <2> SUFFICES ASSUME NEW v \in Workers, NEW t \in Streams, NEW m \in ListOf(v, t)
               PROVE  /\ m \in 1..taken /\ IsJob(m, "chunk", t)
                      /\ \A u \in Workers : current[u] = m => u = v /\ pc'[u] # "taken"
                      /\ Ended(m)' => \A e \in Engines :
                           <<m, e>> \in results'[v][t] <=> outcome[m][e] = "ok"
    BY <1>1, <1>2 DEF Lists, IsJob
  <2>1. /\ m \in 1..taken /\ IsJob(m, "chunk", t)
        /\ \A u \in Workers : current[u] = m => u = v /\ pc[u] # "taken"
        /\ Ended(m) => \A e \in Engines : <<m, e>> \in results[v][t] <=> outcome[m][e] = "ok"
    BY DEF Holdings, Lists
  <2>2. \A u \in Workers : current[u] = m => u = v /\ pc'[u] # "taken"
    BY <1>1, <2>1
  <2>3. Ended(m)' => \A e \in Engines : <<m, e>> \in results'[v][t] <=> outcome[m][e] = "ok"
    <3>1. CASE m = n
      BY <1>4, <1>8, <3>1
    <3>2. CASE m # n
      BY <1>1, <1>6, <2>1, <3>2
    <3> QED
      BY <3>1, <3>2
  <2> QED
    BY <2>1, <2>2, <2>3
<1>10. Finals'
  <2> SUFFICES ASSUME NEW f \in Numbers, NEW m \in FinalOf(f)
               PROVE  /\ f \in 1..taken /\ m \in 1..taken /\ IsJob(m, "chunk", jobs[f].stream)
                      /\ \A u \in Workers : current[u] # m
                      /\ Ended(m)' => \A e \in Engines :
                           <<m, e>> \in final[f].results <=> outcome[m][e] = "ok"
    BY <1>1, <1>2 DEF Finals, IsJob
  <2>1. Ended(m)' => Ended(m)
    BY <1>1, <1>3
  <2> QED
    BY <2>1 DEF Holdings, Finals
<1>11. OnePlace'
  BY <1>2 DEF Holdings, OnePlace
<1>12. KeptResults'
  <2> SUFFICES ASSUME NEW v \in Workers, NEW t \in Streams, NEW m \in Numbers, NEW e \in Engines,
                      <<m, e>> \in results'[v][t]
               PROVE  m \in ListOf(v, t)' /\ outcome'[m][e] = "ok"
    BY Zenon DEF KeptResults
  <2>1. CASE <<m, e>> \in results[v][t]
    <3>1. m \in ListOf(v, t) /\ outcome[m][e] = "ok"
      BY <2>1 DEF Holdings, KeptResults
    <3> QED
      BY <1>1, <1>2, <3>1
  <2>2. CASE <<m, e>> \notin results[v][t]
    <3>1. v = w /\ t = s /\ m = n /\ outcome[n][e] = "ok"
      BY <1>1, <1>5, <2>2
    <3> QED
      BY <1>1, <1>2, <1>3, <3>1
  <2> QED
    BY <2>1, <2>2
<1>13. ChunksInWork'
  <2> SUFFICES ASSUME NEW v \in Workers, NEW t \in Streams,
                      pc'[v] = "running", IsJob(current[v], "chunk", t)
               PROVE  current[v] \in ListOf(v, t)
    BY <1>1, <1>2 DEF ChunksInWork, IsJob
  <2>1. pc[v] = "running"
    BY <1>1
  <2> QED
    BY <2>1 DEF Holdings, ChunksInWork
<1> QED
  BY <1>9, <1>10, <1>11, <1>12, <1>13 DEF Holdings

\* What Finalize moves from the state of a stream to its result.
StateMoves(w, f, s) ==
  /\ f \in 1..taken /\ f \in Numbers /\ s \in Streams /\ jobs[f].kind = "finalize"
  /\ pc[w] = "taken" /\ pc'[w] = "reporting"
  /\ known' = [known EXCEPT ![w] = @ \ {s}]
  /\ FinalOf(f)' = ListOf(w, s) /\ final'[f].results = results[w][s]
  /\ \A g \in Numbers \ {f} : FinalOf(g)' = FinalOf(g) /\ final'[g] = final[g]
  /\ ListOf(w, s)' = {} /\ results'[w][s] = {}
  /\ \A v \in Workers, t \in Streams : v # w \/ t # s =>
       ListOf(v, t)' = ListOf(v, t) /\ results'[v][t] = results[v][t]
  /\ \A v \in Workers \ {w} : pc'[v] = pc[v]
  /\ UNCHANGED <<jobs, taken, current, outcome, events>>
  /\ \A m : m # f => (Ended(m)' => Ended(m))

LEMMA FinalizeMoves ==
  ASSUME WorkerIInv, StreamJobs, NEW w \in Workers, NEW f, f = current[w], NEW s,
         s = jobs[f].stream, Finalize(w), s \in known[w]
  PROVE  StateMoves(w, f, s)
<1>1. pc[w] = "taken" /\ jobs[f].kind = "finalize" /\ Job(w) = jobs[f]
  BY StreamJobsAreGiven DEF Finalize
<1>2. f \in 1..taken /\ f \in Numbers /\ s \in Streams
  BY <1>1, StreamJobsAreGiven
<1>3. /\ final' = [final EXCEPT ![f] = [chunks |-> chunks[w][s], results |-> results[w][s]]]
      /\ known' = [known EXCEPT ![w] = @ \ {s}]
      /\ chunks' = [chunks EXCEPT ![w][s] = <<>>]
      /\ results' = [results EXCEPT ![w][s] = {}]
      /\ pc' = [pc EXCEPT ![w] = "reporting"]
      /\ UNCHANGED <<jobs, taken, current, outcome, events>>
  BY <1>1 DEF Finalize, Reporting, Goto
<1>4. /\ final'[f].chunks = chunks[w][s] /\ final'[f].results = results[w][s]
      /\ \A g \in Numbers \ {f} : final'[g] = final[g]
  BY <1>2, <1>3 DEF WorkerIInv, TypeOK
<1>5. /\ chunks'[w][s] = <<>> /\ results'[w][s] = {}
      /\ \A v \in Workers, t \in Streams : v # w \/ t # s =>
           chunks'[v][t] = chunks[v][t] /\ results'[v][t] = results[v][t]
  BY <1>2, <1>3 DEF WorkerIInv, TypeOK
<1>6. FinalOf(f)' = ListOf(w, s) /\ \A g \in Numbers \ {f} : FinalOf(g)' = FinalOf(g)
  BY <1>4 DEF FinalOf, ListOf
<1>7. /\ ListOf(w, s)' = {}
      /\ \A v \in Workers, t \in Streams : v # w \/ t # s => ListOf(v, t)' = ListOf(v, t)
  BY <1>5, NoElements DEF ListOf
<1>8. pc'[w] = "reporting" /\ \A v \in Workers \ {w} : pc'[v] = pc[v]
  BY <1>3 DEF WorkerIInv, TypeOK
<1>9. ASSUME NEW m, m # f
      PROVE  Ended(m)' => Ended(m)
  BY <1>3, <1>8, <1>9, EndedStays
<1> QED
  BY <1>1, <1>2, <1>3, <1>4, <1>5, <1>6, <1>7, <1>8, <1>9 DEF StateMoves

LEMMA FinalizeHolds ==
  ASSUME WorkerIInv, StreamJobs, Holdings, NEW w \in Workers, Finalize(w)
  PROVE  Holdings'
<1> PICK f : f = current[w]
  OBVIOUS
<1> PICK s : s = jobs[f].stream
  OBVIOUS
<1>0. Job(w) = jobs[f]
  BY DEF Job
<1>1. CASE s \notin known[w]
  BY <1>0, <1>1, UnknownIsSteady, SteadyHolds
<1>2. CASE s \in known[w]
  <2>1. StateMoves(w, f, s)
    BY <1>2, FinalizeMoves
  <2> USE DEF StateMoves
  <2>2. \A v \in Workers, t \in Streams : \A m \in ListOf(v, t) :
          /\ m # f /\ m \in 1..taken /\ IsJob(m, "chunk", t)
          /\ \A u \in Workers : current[u] = m => u = v /\ pc[u] # "taken"
          /\ Ended(m) => \A e \in Engines : <<m, e>> \in results[v][t] <=> outcome[m][e] = "ok"
    BY <2>1 DEF Holdings, Lists, IsJob
  <2>3. \A v \in Workers, t \in Streams : \A m \in ListOf(v, t)' :
          m \in ListOf(v, t) /\ (v # w \/ t # s)
    BY <2>1
  <2>4. Lists'
    <3> SUFFICES ASSUME NEW v \in Workers, NEW t \in Streams, NEW m, m \in ListOf(v, t)'
                 PROVE  /\ m \in 1..taken /\ IsJob(m, "chunk", t)
                        /\ \A u \in Workers : current[u] = m => u = v /\ pc'[u] # "taken"
                        /\ Ended(m)' => \A e \in Engines :
                             <<m, e>> \in results'[v][t] <=> outcome[m][e] = "ok"
      BY <2>1 DEF Lists, IsJob
    <3>1. m \in ListOf(v, t) /\ results'[v][t] = results[v][t]
      BY <2>1, <2>3
    <3>2. \A u \in Workers : current[u] = m => u = v /\ pc'[u] # "taken"
      BY <2>1, <2>2, <3>1
    <3> QED
      BY <2>1, <2>2, <3>1, <3>2
  <2>5. Finals'
    <3> SUFFICES ASSUME NEW g \in Numbers, NEW m, m \in FinalOf(g)'
                 PROVE  /\ g \in 1..taken /\ m \in 1..taken /\ IsJob(m, "chunk", jobs[g].stream)
                        /\ \A u \in Workers : current[u] # m
                        /\ Ended(m)' => \A e \in Engines :
                             <<m, e>> \in final'[g].results <=> outcome[m][e] = "ok"
      BY <2>1 DEF Finals, IsJob
    <3>1. CASE g = f
      <4>1. m \in ListOf(w, s) /\ final'[g].results = results[w][s]
        BY <2>1, <3>1
      <4>2. \A u \in Workers : current[u] # m
        BY <2>1, <2>2, <4>1
      <4> QED
        BY <2>1, <2>2, <3>1, <4>1, <4>2
    <3>2. CASE g # f
      <4>1. m \in FinalOf(g) /\ final'[g] = final[g]
        BY <2>1, <3>2
      <4>2. m # f
        <5>1. jobs[m].kind = "chunk"
          BY <4>1 DEF Holdings, Finals, IsJob
        <5>2. jobs[f].kind = "finalize"
          BY <2>1
        <5> QED
          BY <5>1, <5>2
      <4> QED
        BY <2>1, <4>1, <4>2 DEF Holdings, Finals
    <3> QED
      BY <3>1, <3>2
  <2>6. OnePlace'
    <3>1. \A u, v \in Workers, r, t \in Streams :
            (ListOf(u, r) \cap ListOf(v, t))' # {} => u = v
      BY <2>3 DEF Holdings, OnePlace
    <3>2. \A g, h \in Numbers : (FinalOf(g) \cap FinalOf(h))' # {} => g = h
      BY <2>1 DEF Holdings, OnePlace
    <3>3. ASSUME NEW g \in Numbers, NEW v \in Workers, NEW t \in Streams,
                 NEW m, m \in FinalOf(g)', m \in ListOf(v, t)'
          PROVE  FALSE
      <4>1. m \in ListOf(v, t) /\ (v # w \/ t # s)
        BY <2>3, <3>3
      <4>2. CASE g = f
        BY <2>1, <2>2, <3>3, <4>1, <4>2 DEF Holdings, OnePlace, IsJob
      <4>3. CASE g # f
        BY <2>1, <3>3, <4>1, <4>3 DEF Holdings, OnePlace
      <4> QED
        BY <4>2, <4>3
    <3> QED
      BY <3>1, <3>2, <3>3 DEF OnePlace
  <2>7. KeptResults'
    <3> SUFFICES ASSUME NEW v \in Workers, NEW t \in Streams, NEW m \in Numbers, NEW e \in Engines,
                        <<m, e>> \in results'[v][t]
                 PROVE  m \in ListOf(v, t)' /\ outcome'[m][e] = "ok"
      BY Zenon DEF KeptResults
    <3>1. (v # w \/ t # s) /\ <<m, e>> \in results[v][t]
      BY <2>1
    <3>2. m \in ListOf(v, t) /\ outcome[m][e] = "ok"
      BY <3>1 DEF Holdings, KeptResults
    <3> QED
      BY <2>1, <3>1, <3>2
  <2>8. ChunksInWork'
    <3> SUFFICES ASSUME NEW v \in Workers, NEW t \in Streams,
                        pc'[v] = "running", IsJob(current[v], "chunk", t)
                 PROVE  current[v] \in ListOf(v, t)'
      BY <2>1 DEF ChunksInWork, IsJob
    <3>1. v # w /\ pc[v] = "running"
      BY <2>1
    <3> QED
      BY <2>1, <3>1 DEF Holdings, ChunksInWork
  <2> QED
    BY <2>4, <2>5, <2>6, <2>7, <2>8 DEF Holdings
<1> QED
  BY <1>1, <1>2
-----------------------------------------------------------------------------
LEMMA InitHoldings == PipelineInit => Holdings
<1> SUFFICES ASSUME PipelineInit PROVE Holdings
  OBVIOUS
<1>1. /\ \A w \in Workers, s \in Streams : ListOf(w, s) = {} /\ results[w][s] = {}
      /\ \A f \in Numbers : FinalOf(f) = {}
      /\ \A w \in Workers : pc[w] = "idle"
  BY NoElements DEF PipelineInit, Init, ListOf, FinalOf, Nothing
<1> QED
  BY <1>1 DEF Holdings, Lists, Finals, OnePlace, KeptResults, ChunksInWork

\* Every step of the pipeline is one of these for the queue and the workers.
QueueStep ==
  \/ \E s \in Streams : Enqueue(ChunkOf(s)) \/ Enqueue(FinalizationOf(s))
  \/ \E n \in Numbers, e \in Engines : EngineEnds(n, e)
  \/ \E w \in Workers : \/ Take(w) \/ StartChunk(w) \/ EndChunk(w) \/ Finalize(w)
                        \/ Report(w) \/ Abort(w)
  \/ UNCHANGED <<jobs, taken, done, pc, current, outcome, last, streamState, events, final>>

LEMMA WorkerStepIsQueueStep ==
  ASSUME WorkerIInv, StreamJobs, WorkerStep
  PROVE  QueueStep
<1>1. ASSUME NEW w \in Workers, Work(w)
      PROVE  QueueStep
  <2>1. CASE Take(w) \/ StartChunk(w) \/ EndChunk(w) \/ Finalize(w) \/ Report(w)
    BY <2>1 DEF QueueStep
  <2>2. pc[w] # "idle" => Job(w).kind \in {"chunk", "finalize"} /\ Job(w).input = "given"
    BY StreamJobsAreGiven
  <2>3. ~ Reject(w)
    BY <2>2 DEF Reject
  <2>4. ~ Preprocess(w) /\ ~ Diarize(w) /\ ~ Transcribe(w)
    BY <2>2 DEF Preprocess, Diarize, Transcribe, BatchAt
  <2>5. ~ DiarizerEnds(w)
    <3>1. pc[w] = "diarizing" => jobs[current[w]].kind = "batch"
      BY AtWork DEF Place
    <3> QED
      BY <2>2, <3>1 DEF DiarizerEnds, Job
  <2>6. ~ AllFailed(w) /\ ~ Align(w)
    BY <2>2 DEF AllFailed, Align, Gathered
  <2> QED
    BY <1>1, <2>1, <2>3, <2>4, <2>5, <2>6 DEF Work
<1> QED
  BY <1>1 DEF WorkerStep, QueueStep

LEMMA PipelineStepIsQueueStep ==
  ASSUME WorkerIInv, ClientsIInv, [PipelineNext]_pipelineVars
  PROVE  QueueStep
<1>1. UNCHANGED vars => QueueStep
  BY DEF QueueStep, vars, streamState
<1>2. ASSUME NEW k \in Sockets, handler[k] = "open"
      PROVE  serving[k] \in Streams
  BY <1>2, ClientTypes DEF ClientsIInv, Handlers
<1>3. ASSUME NEW s \in Streams, CreateStream(s)
      PROVE  QueueStep
  BY <1>1, <1>3 DEF CreateStream
<1>4. ASSUME NEW k \in Sockets, NEW s \in Streams, Connect(k, s)
      PROVE  QueueStep
  BY <1>1, <1>4 DEF Connect
<1>5. ASSUME NEW k \in Sockets, ReceiveChunk(k)
      PROVE  QueueStep
  BY <1>2, <1>5 DEF ReceiveChunk, HandlerGoes, QueueStep
<1>6. ASSUME NEW k \in Sockets, WriteFails(k)
      PROVE  QueueStep
  BY <1>6 DEF WriteFails, QueueStep
<1>7. ASSUME NEW k \in Sockets, ReceiveFinalize(k)
      PROVE  QueueStep
  BY <1>2, <1>7 DEF ReceiveFinalize, HandlerGoes, QueueStep
<1>8. ASSUME NEW k \in Sockets, Answer(k) \/ Disconnect(k)
      PROVE  QueueStep
  BY <1>1, <1>8 DEF Answer, SendProgress, SendCompleted, Disconnect
<1>9. WorkerStep => QueueStep
  BY WorkerStepIsQueueStep DEF ClientsIInv
<1>10. UNCHANGED pipelineVars => QueueStep
  BY <1>1 DEF pipelineVars
<1> QED
  BY <1>3, <1>4, <1>5, <1>6, <1>7, <1>8, <1>9, <1>10 DEF PipelineNext

LEMMA QueueStepHolds ==
  ASSUME WorkerIInv, StreamJobs, Holdings, QueueStep
  PROVE  Holdings'
<1>1. ASSUME NEW s \in Streams, Enqueue(ChunkOf(s)) \/ Enqueue(FinalizationOf(s))
      PROVE  Steady
  BY <1>1, EnqueueIsSteady, StreamJobsAreJobs
<1>2. ASSUME NEW n \in Numbers, NEW e \in Engines, EngineEnds(n, e)
      PROVE  Steady
  BY <1>2, EngineIsSteady
<1>3. ASSUME NEW w \in Workers, Take(w) \/ Report(w) \/ Abort(w)
      PROVE  Steady
  BY <1>3, TakeIsSteady, LeavingIsSteady
<1>4. ASSUME NEW w \in Workers, StartChunk(w) \/ EndChunk(w) \/ Finalize(w)
      PROVE  Holdings'
  BY <1>4, StartChunkHolds, EndChunkHolds, FinalizeHolds
<1>5. ASSUME UNCHANGED <<jobs, taken, done, pc, current, outcome, last, streamState, events, final>>
      PROVE  Steady
  BY <1>5, AsideIsSteady
<1> QED
  BY <1>1, <1>2, <1>3, <1>4, <1>5, SteadyHolds DEF QueueStep

LEMMA PipelineInvariant == PipelineSpec => []PipelineIInv
<1>1. PipelineInit => PipelineIInv
  BY InitWorker, InitClients, InitHoldings DEF PipelineInit, PipelineIInv
<1>2. PipelineIInv /\ [PipelineNext]_pipelineVars => PipelineIInv'
  <2> SUFFICES ASSUME PipelineIInv, [PipelineNext]_pipelineVars PROVE PipelineIInv'
    OBVIOUS
  <2>1. \A k \in Sockets : handler[k] # "none" => serving[k] \in Streams
    BY ClientTypes DEF PipelineIInv, ClientsIInv, Handlers
  <2>2. WorkerIInv'
    BY <2>1, WorkerGoesOn DEF PipelineIInv
  <2>3. ClientsIInv'
    BY <2>2, ClientsGoOn DEF PipelineIInv, WorkerIInv
  <2>4. Holdings'
    BY PipelineStepIsQueueStep, QueueStepHolds DEF PipelineIInv, ClientsIInv
  <2> QED
    BY <2>2, <2>3, <2>4 DEF PipelineIInv
<1> QED
  BY <1>1, <1>2, PTL DEF PipelineSpec

(* Sockets, registry and chunk counts stay in their types, whatever the clients, the
   workers and the disk do. *)
THEOREM PipelineIsTyped == PipelineSpec => []PipelineTypeOK
<1>1. PipelineIInv => PipelineTypeOK
  BY DEF PipelineIInv, ClientsIInv
<1> QED
  BY <1>1, PipelineInvariant, PTL

(* stream_websocket never writes two chunks of a stream to one file, whatever sockets
   share the stream, and although a failed write uses its number up. *)
THEOREM PipelineFilesAreDistinct == PipelineSpec => []FilesAreDistinct
<1>1. PipelineIInv => FilesAreDistinct
  BY DEF PipelineIInv, ClientsIInv
<1> QED
  BY <1>1, PipelineInvariant, PTL

LEMMA HoldingsAreExact ==
  ASSUME PipelineIInv
  PROVE  FinalIsExact
<1> SUFFICES ASSUME NEW f \in 1..Len(jobs), NEW n \in FinalOf(f)
             PROVE  /\ IsJob(n, "chunk", jobs[f].stream) /\ n \notin Covered(f - 1)
                    /\ Processed(n) => \A e \in Engines :
                         <<n, e>> \in final[f].results <=> outcome[n][e] = "ok"
  BY DEF FinalIsExact, FinalOf, Elements
<1>1. f \in Numbers /\ 1..f - 1 \subseteq Numbers /\ f \notin 1..f - 1
  <2>1. Len(jobs) \in Nat /\ MaxJobs \in Nat /\ Len(jobs) <= MaxJobs
    BY WorkerTypes DEF PipelineIInv, WorkerIInv, TypeOK
  <2> QED
    BY <2>1 DEF Numbers
<1>2. /\ IsJob(n, "chunk", jobs[f].stream)
      /\ Ended(n) => \A e \in Engines : <<n, e>> \in final[f].results <=> outcome[n][e] = "ok"
  BY <1>1 DEF PipelineIInv, Holdings, Finals
<1>3. \A g \in 1..f - 1 : n \notin FinalOf(g)
  BY <1>1 DEF PipelineIInv, Holdings, OnePlace
<1>4. n \notin Covered(f - 1)
  BY <1>3 DEF Covered, FinalOf, Elements
<1> QED
  BY <1>2, <1>4 DEF Processed, Ended

(* finalize_stream aligns chunks of its own stream only, each of them once, and with the
   transcription of every engine that succeeded, however many workers share the queue. *)
THEOREM PipelineFinalIsExact == PipelineSpec => []FinalIsExact
BY HoldingsAreExact, PipelineInvariant, PTL
-----------------------------------------------------------------------------
\* Nothing new is started either.
LEMMA StartedStays ==
  ASSUME NEW m, jobs'[m].kind = jobs[m].kind, events'[m] = events[m],
         \A v \in Workers : current'[v] = m /\ pc'[v] # "taken" =>
                              current[v] = m /\ pc[v] # "taken"
  PROVE  Started(m)' => Started(m)
BY DEF Started, Reported

\* A step that changes no stream state and starts or ends no job.
Quiet ==
  /\ UNCHANGED <<known, chunks, results, final>>
  /\ 1..taken \subseteq 1..taken' /\ \A m \in 1..taken : jobs'[m] = jobs[m]
  /\ \A m \in 1..taken' : /\ Ended(m)' => m \in 1..taken /\ Ended(m)
                          /\ Started(m)' => m \in 1..taken /\ Started(m)
  /\ \A v \in Workers : current'[v] \in {0, taken'}
  /\ \A v \in Workers : pc'[v] = "taken" =>
       \/ pc[v] = "taken" /\ current'[v] = current[v]
       \/ current'[v] \in Numbers \ (1..taken)

LEMMA QuietStaysInTurn ==
  ASSUME WorkerIInv, Holdings, InTurn, Quiet
  PROVE  InTurn'
<1>1. /\ \A v \in Workers, t \in Streams : ListOf(v, t)' = ListOf(v, t)
      /\ \A f \in Numbers : FinalOf(f)' = FinalOf(f)
  BY DEF Quiet, ListOf, FinalOf
<1>2. ListsAreNew'
  <2> SUFFICES ASSUME NEW v \in Workers, NEW t \in Streams, NEW m \in ListOf(v, t)
               PROVE  /\ t \in known[v]
                      /\ \A f \in 1..taken' : IsJob(f, "finalize", t)' /\ Ended(f)' => f < m
    BY <1>1 DEF ListsAreNew, Quiet
  <2>1. \A f \in 1..taken : IsJob(f, "finalize", t) /\ Ended(f) => f < m
    BY DEF InTurn, ListsAreNew
  <2>2. \A f \in 1..taken' : IsJob(f, "finalize", t)' /\ Ended(f)' =>
          f \in 1..taken /\ IsJob(f, "finalize", t) /\ Ended(f)
    BY DEF Quiet, IsJob
  <2> QED
    BY <2>1, <2>2 DEF InTurn, ListsAreNew
<1>3. NothingDropped'
  <2> SUFFICES ASSUME NEW m \in 1..taken', jobs'[m].kind = "chunk", Started(m)'
               PROVE  Held(m)'
    BY DEF NothingDropped
  <2>1. m \in 1..taken /\ jobs[m].kind = "chunk" /\ Started(m)
    BY DEF Quiet
  <2>2. Held(m)
    BY <2>1 DEF InTurn, NothingDropped
  <2> QED
    BY <1>1, <2>2 DEF Held
<1>4. FinalsAreFirst'
  <2> SUFFICES ASSUME NEW g \in Numbers, NEW n \in FinalOf(g), NEW f \in n + 1..g - 1,
                      IsJob(f, "finalize", jobs[g].stream)', jobs'[g].stream = jobs[g].stream,
                      Ended(f)'
               PROVE  FALSE
    <3>1. \A g \in Numbers : \A n \in FinalOf(g) : jobs'[g].stream = jobs[g].stream
      BY DEF Holdings, Finals, Quiet
    <3> QED
      BY <1>1, <3>1 DEF FinalsAreFirst
  <2>1. g \in 1..taken /\ n \in 1..taken
    BY DEF Holdings, Finals
  <2>2. f \in 1..taken /\ taken \in Nat
    BY <2>1, WorkerTypes DEF WorkerIInv
  <2>3. IsJob(f, "finalize", jobs[g].stream) /\ Ended(f)
    BY <2>2 DEF Quiet, IsJob
  <2> QED
    BY <2>3 DEF InTurn, FinalsAreFirst
<1>5. NotYetFinal'
  <2> SUFFICES ASSUME NEW v \in Workers, pc'[v] = "taken"
               PROVE  FinalOf(current[v])' = {}
    BY DEF NotYetFinal
  <2> PICK m : m = current'[v]
    OBVIOUS
  <2>1. CASE pc[v] = "taken" /\ current'[v] = current[v]
    <3>1. m \in Numbers /\ FinalOf(m) = {}
      BY <2>1, AtWork DEF InTurn, NotYetFinal
    <3>2. FinalOf(m)' = {}
      BY <1>1, <3>1
    <3> QED
      BY <3>2 DEF FinalOf
  <2>2. CASE current'[v] \in Numbers \ (1..taken)
    <3>1. m \in Numbers /\ FinalOf(m) = {}
      BY <2>2 DEF Holdings, Finals
    <3>2. FinalOf(m)' = {}
      BY <1>1, <3>1
    <3> QED
      BY <3>2 DEF FinalOf
  <2> QED
    BY <2>1, <2>2 DEF Quiet
<1> QED
  BY <1>2, <1>3, <1>4, <1>5 DEF InTurn, Quiet

\* What leaves the workers where they are is quiet.
LEMMA UnmovedIsQuiet ==
  ASSUME WorkerIInv, InTurn,
         UNCHANGED <<taken, pc, current, known, chunks, results, events, final>>,
         \A m \in 1..taken : jobs'[m] = jobs[m]
  PROVE  Quiet
<1>1. \A m \in 1..taken : (Ended(m)' => Ended(m)) /\ (Started(m)' => Started(m))
  BY EndedStays, StartedStays
<1> QED
  BY <1>1 DEF Quiet, InTurn

LEMMA TakeIsQuiet ==
  ASSUME WorkerIInv, InTurn, NEW w, Workers = {w}, Take(w)
  PROVE  Quiet
<1> PICK n : n = taken + 1
  OBVIOUS
<1>1. /\ taken < Len(jobs) /\ taken' = n /\ current' = [current EXCEPT ![w] = n]
      /\ pc' = [pc EXCEPT ![w] = "taken"]
      /\ UNCHANGED <<jobs, known, chunks, results, events, final>>
  BY DEF Take, Goto, streamState
<1>2. /\ taken \in Nat /\ n \in Numbers /\ n \notin 1..taken /\ n # 0
      /\ \A m \in 1..n : m \in 1..taken \/ m = n
      /\ 1..taken \subseteq 1..n
  <2>1. taken \in Nat /\ Len(jobs) \in Nat /\ MaxJobs \in Nat /\ Len(jobs) <= MaxJobs
    BY WorkerTypes DEF WorkerIInv, TypeOK
  <2> QED
    BY <1>1, <2>1 DEF Numbers
<1>3. current'[w] = n /\ pc'[w] = "taken"
  BY <1>1 DEF WorkerIInv, TypeOK
<1>4. events[n] = <<>>
  BY <1>2 DEF WorkerIInv, Untouched
<1>5. ~ Ended(n)' /\ ~ Started(n)'
  BY <1>1, <1>3, <1>4 DEF Ended, Started, Reported
<1>6. \A m \in 1..taken : (Ended(m)' => Ended(m)) /\ (Started(m)' => Started(m))
  BY <1>1, <1>2, <1>3, EndedStays, StartedStays
<1> QED
  BY <1>1, <1>2, <1>3, <1>5, <1>6 DEF Quiet

LEMMA LeavingIsQuiet ==
  ASSUME WorkerIInv, InTurn, NEW w, Workers = {w}, Report(w) \/ Abort(w)
  PROVE  Quiet
<1> PICK n : n = current[w]
  OBVIOUS
<1>1. /\ pc[w] # "idle" /\ current' = [current EXCEPT ![w] = 0]
      /\ pc' = [pc EXCEPT ![w] = "idle"]
      /\ UNCHANGED <<jobs, taken, known, chunks, results, final>>
      /\ events' = events \/ (pc[w] = "reporting" /\ Emit(w, last[w]))
  BY DEF Report, Abort, Goto, streamState
<1>2. 1..taken \subseteq Numbers /\ 0 \notin 1..taken /\ w \in Workers
  BY WorkerTypes DEF WorkerIInv
<1>3. current'[w] = 0 /\ pc'[w] = "idle"
  BY <1>1 DEF WorkerIInv, TypeOK
<1>4. ASSUME NEW m \in 1..taken
      PROVE  (Ended(m)' => Ended(m)) /\ (Started(m)' => Started(m))
  <2>1. CASE events'[m] = events[m]
    BY <1>1, <1>2, <1>3, <2>1, EndedStays, StartedStays
  <2>2. CASE events'[m] # events[m]
    <3>1. pc[w] = "reporting" /\ m = n
      BY <1>1, <1>2, <2>2 DEF Emit, WorkerIInv, TypeOK
    <3> QED
      BY <1>2, <3>1 DEF Ended, Started
  <2> QED
    BY <2>1, <2>2
<1> QED
  BY <1>1, <1>3, <1>4 DEF Quiet

LEMMA StartChunkStaysInTurn ==
  ASSUME WorkerIInv, StreamJobs, Holdings, InTurn, NEW w, Workers = {w}, StartChunk(w)
  PROVE  InTurn'
<1> PICK n : n = current[w]
  OBVIOUS
<1> PICK s : s = jobs[n].stream
  OBVIOUS
<1>1. w \in Workers /\ ChunkStarts(w, n, s)
  BY StartChunkAdds
<1> USE DEF ChunkStarts
<1>2. n = taken /\ taken \in Nat
  BY <1>1, WorkerTypes DEF InTurn, WorkerIInv
<1>3. s \in known'[w] /\ known[w] \subseteq known'[w]
  BY <1>1 DEF WorkerIInv, TypeOK
<1>4. \A f \in Numbers : FinalOf(f)' = FinalOf(f)
  BY <1>1 DEF FinalOf
<1>5. ListsAreNew'
  <2> SUFFICES ASSUME NEW t \in Streams, NEW m, m \in ListOf(w, t)'
               PROVE  /\ t \in known'[w]
                      /\ \A f \in 1..taken : IsJob(f, "finalize", t) /\ Ended(f)' => f < m
    BY <1>1 DEF ListsAreNew, IsJob
  <2>1. CASE m \in ListOf(w, t)
    BY <1>1, <1>3, <2>1 DEF InTurn, ListsAreNew
  <2>2. CASE m \notin ListOf(w, t)
    <3>1. m = n /\ t = s
      BY <1>1, <2>2
    <3>2. \A f \in 1..taken : f = n \/ f < n
      BY <1>2
    <3> QED
      BY <1>1, <1>3, <3>1, <3>2
  <2> QED
    BY <2>1, <2>2
<1>6. NothingDropped'
  <2> SUFFICES ASSUME NEW m \in 1..taken, jobs[m].kind = "chunk", Started(m)'
               PROVE  Held(m)'
    BY <1>1 DEF NothingDropped
  <2>1. CASE m = n
    BY <1>1, <2>1 DEF Held
  <2>2. CASE m # n
    <3>1. Started(m)
      BY <1>1, <2>2, StartedStays
    <3>2. Held(m)
      BY <3>1 DEF InTurn, NothingDropped
    <3> QED
      BY <1>1, <1>4, <3>2 DEF Held
  <2> QED
    BY <2>1, <2>2
<1>7. FinalsAreFirst'
  <2>1. \A m : IsJob(m, "finalize", s)' <=> IsJob(m, "finalize", s)
    BY <1>1 DEF IsJob
  <2> SUFFICES ASSUME NEW g \in Numbers, NEW m \in FinalOf(g), NEW f \in m + 1..g - 1,
                      IsJob(f, "finalize", jobs[g].stream)
               PROVE  ~ Ended(f)'
    BY <1>1, <1>4 DEF FinalsAreFirst, IsJob
  <2> QED
    BY <1>1 DEF InTurn, FinalsAreFirst
<1>8. NotYetFinal'
  BY <1>1 DEF NotYetFinal
<1> QED
  BY <1>1, <1>5, <1>6, <1>7, <1>8 DEF InTurn

LEMMA EndChunkStaysInTurn ==
  ASSUME WorkerIInv, StreamJobs, Holdings, InTurn, NEW w, Workers = {w}, EndChunk(w)
  PROVE  InTurn'
<1> PICK n : n = current[w]
  OBVIOUS
<1> PICK s : s = jobs[n].stream
  OBVIOUS
<1>1. w \in Workers /\ ChunkEnds(w, n, s)
  BY EndChunkAdds
<1> USE DEF ChunkEnds
<1>2. /\ \A t \in Streams : ListOf(w, t)' = ListOf(w, t)
      /\ \A f \in Numbers : FinalOf(f)' = FinalOf(f)
  BY <1>1 DEF ListOf, FinalOf
<1>3. \A m, t : IsJob(m, "finalize", t) => m # n /\ (Ended(m)' => Ended(m))
  BY <1>1 DEF IsJob
<1>4. ListsAreNew'
  <2> SUFFICES ASSUME NEW t \in Streams, NEW m \in ListOf(w, t)
               PROVE  /\ t \in known[w]
                      /\ \A f \in 1..taken : IsJob(f, "finalize", t) /\ Ended(f)' => f < m
    BY <1>1, <1>2 DEF ListsAreNew, IsJob
  <2> QED
    BY <1>1, <1>3 DEF InTurn, ListsAreNew
<1>5. NothingDropped'
  <2> SUFFICES ASSUME NEW m \in 1..taken, jobs[m].kind = "chunk", Started(m)'
               PROVE  Held(m)'
    BY <1>1 DEF NothingDropped
  <2>1. Started(m)
    BY <1>1, StartedStays
  <2>2. Held(m)
    BY <2>1 DEF InTurn, NothingDropped
  <2> QED
    BY <1>1, <1>2, <2>2 DEF Held
<1>6. FinalsAreFirst'
  <2> SUFFICES ASSUME NEW g \in Numbers, NEW m \in FinalOf(g), NEW f \in m + 1..g - 1,
                      IsJob(f, "finalize", jobs[g].stream)
               PROVE  ~ Ended(f)'
    BY <1>1, <1>2 DEF FinalsAreFirst, IsJob
  <2> QED
    BY <1>3 DEF InTurn, FinalsAreFirst
<1>7. NotYetFinal'
  BY <1>1 DEF NotYetFinal
<1> QED
  BY <1>1, <1>4, <1>5, <1>6, <1>7 DEF InTurn

LEMMA FinalizeStaysInTurn ==
  ASSUME WorkerIInv, StreamJobs, Holdings, InTurn, NEW w, Workers = {w}, Finalize(w)
  PROVE  InTurn'
<1> PICK f : f = current[w]
  OBVIOUS
<1> PICK s : s = jobs[f].stream
  OBVIOUS
<1>1. /\ pc[w] = "taken" /\ jobs[f].kind = "finalize" /\ pc' = [pc EXCEPT ![w] = "reporting"]
      /\ UNCHANGED <<jobs, taken, current, outcome, events>>
      /\ w \in Workers /\ Job(w) = jobs[f]
  BY DEF Finalize, Job, Reporting, Goto
<1>2. f = taken /\ taken \in Nat /\ f \in Numbers /\ s \in Streams
  BY <1>1, StreamJobsAreGiven, WorkerTypes DEF InTurn, WorkerIInv
<1>3. pc'[w] = "reporting"
  BY <1>1 DEF WorkerIInv, TypeOK
<1>4. \A m : m # f => (Ended(m)' => Ended(m)) /\ (Started(m)' => Started(m))
  BY <1>1, EndedStays, StartedStays
<1>5. NotYetFinal'
  BY <1>3 DEF NotYetFinal
<1>6. \A g \in Numbers, m \in Nat : \A h \in m + 1..g - 1 : g \in 1..taken => h # f
  BY <1>2 DEF Numbers
<1>7. CASE s \notin known[w]
  <2>1. UNCHANGED <<known, chunks, results, final>>
    BY <1>1, <1>7 DEF Finalize, streamState
  <2>2. /\ \A t \in Streams : ListOf(w, t)' = ListOf(w, t)
        /\ \A g \in Numbers : FinalOf(g)' = FinalOf(g)
    BY <2>1 DEF ListOf, FinalOf
  <2>3. ListsAreNew'
    <3> SUFFICES ASSUME NEW t \in Streams, NEW m \in ListOf(w, t)
                 PROVE  /\ t \in known[w]
                        /\ \A g \in 1..taken : IsJob(g, "finalize", t) /\ Ended(g)' => g < m
      BY <1>1, <2>1, <2>2 DEF ListsAreNew, IsJob
    <3>1. t \in known[w]
      BY <1>1 DEF InTurn, ListsAreNew
    <3>2. \A g : IsJob(g, "finalize", t) => g # f
      BY <1>7, <3>1 DEF IsJob
    <3> QED
      BY <1>1, <1>4, <3>1, <3>2 DEF InTurn, ListsAreNew
  <2>4. NothingDropped'
    <3> SUFFICES ASSUME NEW m \in 1..taken, jobs[m].kind = "chunk", Started(m)'
                 PROVE  Held(m)'
      BY <1>1 DEF NothingDropped
    <3>1. Held(m)
      BY <1>1, <1>4 DEF InTurn, NothingDropped
    <3> QED
      BY <1>1, <2>2, <3>1 DEF Held
  <2>5. FinalsAreFirst'
    <3> SUFFICES ASSUME NEW g \in Numbers, NEW m, m \in FinalOf(g)', NEW h \in m + 1..g - 1,
                        IsJob(h, "finalize", jobs[g].stream), Ended(h)'
                 PROVE  FALSE
      BY <1>1 DEF FinalsAreFirst, IsJob
    <3>1. m \in FinalOf(g)
      BY <2>2
    <3>2. g \in 1..taken /\ m \in Nat
      BY <1>2, <3>1 DEF Holdings, Finals
    <3> QED
      BY <1>4, <1>6, <3>1, <3>2 DEF InTurn, FinalsAreFirst
  <2> QED
    BY <1>1, <1>5, <2>3, <2>4, <2>5 DEF InTurn
<1>8. CASE s \in known[w]
  <2>1. StateMoves(w, f, s)
    BY <1>1, <1>8, FinalizeMoves
  <2> USE DEF StateMoves
  <2>2. ListsAreNew'
    <3> SUFFICES ASSUME NEW t \in Streams, NEW m, m \in ListOf(w, t)'
                 PROVE  /\ t \in known'[w]
                        /\ \A g \in 1..taken : IsJob(g, "finalize", t) /\ Ended(g)' => g < m
      BY <1>1, <2>1 DEF ListsAreNew, IsJob
    <3>1. t # s /\ m \in ListOf(w, t)
      BY <1>1, <2>1
    <3>2. t \in known[w] /\ \A g \in 1..taken : IsJob(g, "finalize", t) /\ Ended(g) => g < m
      BY <1>1, <3>1 DEF InTurn, ListsAreNew
    <3>3. t \in known'[w]
      BY <1>1, <2>1, <3>1, <3>2 DEF WorkerIInv, TypeOK
    <3>4. \A g : IsJob(g, "finalize", t) => g # f
      BY <3>1 DEF IsJob
    <3> QED
      BY <1>4, <3>2, <3>3, <3>4
  <2>3. NothingDropped'
    <3> SUFFICES ASSUME NEW m \in 1..taken, jobs[m].kind = "chunk", Started(m)'
                 PROVE  Held(m)'
      BY <1>1 DEF NothingDropped
    <3>1. Held(m)
      BY <1>1, <1>4 DEF InTurn, NothingDropped
    <3>2. FinalOf(f) = {}
      BY <1>1 DEF InTurn, NotYetFinal
    <3>3. ASSUME NEW t \in Streams, m \in ListOf(w, t)
          PROVE  m \in ListOf(w, t)' \/ m \in FinalOf(f)'
      BY <1>1, <2>1, <3>3
    <3>4. ASSUME NEW g \in Numbers, m \in FinalOf(g)
          PROVE  m \in FinalOf(g)'
      BY <2>1, <3>2, <3>4
    <3> QED
      BY <1>1, <1>2, <3>1, <3>3, <3>4 DEF Held
  <2>4. FinalsAreFirst'
    <3> SUFFICES ASSUME NEW g \in Numbers, NEW m, m \in FinalOf(g)', NEW h \in m + 1..g - 1,
                        IsJob(h, "finalize", jobs[g].stream), Ended(h)'
                 PROVE  FALSE
      BY <1>1 DEF FinalsAreFirst, IsJob
    <3>1. CASE g = f
      <4>1. m \in ListOf(w, s) /\ m \in 1..taken
        BY <1>1, <2>1, <3>1 DEF Holdings, Lists
      <4>2. h \in 1..taken /\ h # f /\ ~ (h < m)
        BY <1>2, <3>1, <4>1
      <4>3. IsJob(h, "finalize", s) /\ Ended(h)
        BY <1>4, <3>1, <4>2
      <4> QED
        BY <1>1, <1>2, <4>1, <4>2, <4>3 DEF InTurn, ListsAreNew
    <3>2. CASE g # f
      <4>1. m \in FinalOf(g)
        BY <2>1, <3>2
      <4>2. g \in 1..taken /\ m \in Nat
        BY <1>2, <4>1 DEF Holdings, Finals
      <4> QED
        BY <1>4, <1>6, <4>1, <4>2 DEF InTurn, FinalsAreFirst
    <3> QED
      BY <3>1, <3>2
  <2> QED
    BY <1>1, <1>5, <2>2, <2>3, <2>4 DEF InTurn
<1> QED
  BY <1>7, <1>8

LEMMA QueueStepStaysInTurn ==
  ASSUME WorkerIInv, StreamJobs, Holdings, InTurn, NEW w, Workers = {w}, QueueStep
  PROVE  InTurn'
<1>1. ASSUME NEW j \in Jobs, Enqueue(j)
      PROVE  Quiet
  <2>1. /\ \A m \in 1..taken : jobs'[m] = jobs[m]
        /\ UNCHANGED <<taken, pc, current, known, chunks, results, events, final>>
    BY <1>1, EnqueueAppends, WorkerTypes DEF WorkerIInv, streamState
  <2> QED
    BY <2>1, UnmovedIsQuiet
<1>2. ASSUME NEW s \in Streams, Enqueue(ChunkOf(s)) \/ Enqueue(FinalizationOf(s))
      PROVE  Quiet
  BY <1>1, <1>2, StreamJobsAreJobs
<1>3. ASSUME NEW n \in Numbers, NEW e \in Engines, EngineEnds(n, e)
      PROVE  Quiet
  BY <1>3, UnmovedIsQuiet DEF EngineEnds, streamState
<1>4. ASSUME NEW v \in Workers, Take(v) \/ Report(v) \/ Abort(v)
      PROVE  Quiet
  BY <1>4, TakeIsQuiet, LeavingIsQuiet
<1>5. ASSUME NEW v \in Workers, StartChunk(v) \/ EndChunk(v) \/ Finalize(v)
      PROVE  InTurn'
  BY <1>5, StartChunkStaysInTurn, EndChunkStaysInTurn, FinalizeStaysInTurn
<1>6. ASSUME UNCHANGED <<jobs, taken, done, pc, current, outcome, last, streamState, events, final>>
      PROVE  Quiet
  BY <1>6, UnmovedIsQuiet DEF streamState
<1> QED
  BY <1>2, <1>3, <1>4, <1>5, <1>6, QuietStaysInTurn DEF QueueStep

LEMMA InitInTurn == PipelineInit => InTurn
<1> SUFFICES ASSUME PipelineInit PROVE InTurn
  OBVIOUS
<1>1. /\ \A w \in Workers, s \in Streams : ListOf(w, s) = {}
      /\ \A f \in Numbers : FinalOf(f) = {}
      /\ \A w \in Workers : pc[w] = "idle" /\ current[w] = 0
      /\ taken = 0 /\ 1..taken = {}
  BY NoElements DEF PipelineInit, Init, ListOf, FinalOf, Nothing
<1> QED
  BY <1>1 DEF InTurn, ListsAreNew, NothingDropped, FinalsAreFirst, NotYetFinal

LEMMA InTurnCovers ==
  ASSUME PipelineIInv, InTurn
  PROVE  FinalCoversEarlierChunks
<1> SUFFICES ASSUME NEW s \in Streams, NEW f \in 1..Len(jobs),
                    IsJob(f, "finalize", s), Processed(f),
                    NEW n \in 1..f - 1, IsJob(n, "chunk", s), Processed(n)
             PROVE  n \in Covered(f)
  BY DEF FinalCoversEarlierChunks
<1>1. /\ taken \in Nat /\ f \in 1..taken /\ n \in 1..taken /\ n < f
      /\ 1..taken \subseteq Numbers
  BY WorkerTypes DEF PipelineIInv, WorkerIInv, Processed
<1>2. Ended(f) /\ Held(n)
  BY <1>1 DEF InTurn, NothingDropped, Started, Ended, Processed, IsJob
<1>3. \A v \in Workers, t \in Streams : n \notin ListOf(v, t)
  <2> SUFFICES ASSUME NEW v \in Workers, NEW t \in Streams, n \in ListOf(v, t) PROVE FALSE
    OBVIOUS
  <2>1. t = s
    BY DEF PipelineIInv, Holdings, Lists, IsJob
  <2>2. f < n
    BY <1>1, <1>2, <2>1 DEF InTurn, ListsAreNew
  <2> QED
    BY <1>1, <2>2
<1>4. PICK g \in Numbers : n \in FinalOf(g)
  BY <1>2, <1>3 DEF Held
<1>5. g \in 1..taken /\ jobs[g].stream = s
  BY <1>4 DEF PipelineIInv, Holdings, Finals, IsJob
<1>6. g \in 1..f
  <2>1. CASE g > f
    <3>1. f \in n + 1..g - 1
      BY <1>1, <1>5, <2>1
    <3> QED
      BY <1>2, <1>4, <1>5, <3>1 DEF InTurn, FinalsAreFirst
  <2> QED
    BY <1>1, <1>5, <2>1
<1> QED
  BY <1>4, <1>6 DEF Covered, FinalOf, Elements

(* When one worker reads the queue, finalize_stream leaves out no chunk that was processed
   for its stream before it, whatever sockets, faults and cancellations. With two workers
   the states of a stream are apart, and it may. *)
THEOREM PipelineFinalCovers ==
  ASSUME NEW w, Workers = {w}
  PROVE  PipelineSpec => []FinalCoversEarlierChunks
<1>1. PipelineInit => PipelineIInv /\ InTurn
  BY InitWorker, InitClients, InitHoldings, InitInTurn DEF PipelineInit, PipelineIInv
<1>2. PipelineIInv /\ InTurn /\ [PipelineNext]_pipelineVars => InTurn'
  BY PipelineStepIsQueueStep, QueueStepStaysInTurn DEF PipelineIInv, ClientsIInv
<1>3. PipelineIInv /\ InTurn => FinalCoversEarlierChunks
  BY InTurnCovers
<1> QED
  BY <1>1, <1>2, <1>3, PipelineInvariant, PTL DEF PipelineSpec
=============================================================================
