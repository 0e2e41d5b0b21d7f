---------------------- MODULE RequestAdmission_proofs ----------------------
(***************************************************************************)
(* Proofs about RequestAdmission and the two modules it composes, for any  *)
(* clients, requests, limit, window, resolution of the clock, size of the  *)
(* table and length of a run.                                              *)
(***************************************************************************)
EXTENDS RequestAdmission, SequenceLemmas, FiniteSetTheorems

LEMMA EmptyLength == \A times : times = <<>> => Len(times) = 0
<1>1. Len(<<>>) = 0
  BY EmptySeq
<1> QED
  BY <1>1, Zenon

\* The development principal: while there is no user nothing is committed, and the only
\* request past its look-up of the user is the one that has inserted it. A tenant a
\* request has not made itself is the first one.
PrincipalIInv ==
  /\ TypeOK
  /\ user = None =>
       /\ tenants = <<>>
       /\ \A r \in Requests : pc[r] = "handler" => inserted = r
  /\ inserted # None => user = None /\ pc[inserted] = "handler"
  /\ \A r \in Requests :
       /\ tenant[r] \notin {None, r} => tenants # <<>> /\ tenants[1] = tenant[r]
       /\ pc[r] \in {"tenant", "noUser", "handler"} => tenant[r] # None
  /\ UserOwnsFirstTenant

LEMMA InitPrincipal == Init => PrincipalIInv
BY EmptySeq, PrincipalAssumption DEF Init, PrincipalIInv, TypeOK, UserOwnsFirstTenant

\* A committing request appends its tenant, if it made one, behind the first.
LEMMA CommittedTenants ==
  ASSUME TypeOK, NEW r \in Requests
  PROVE  /\ Append(tenants, r) \in Seq(Requests)
         /\ Append(tenants, r) # <<>>
         /\ Append(tenants, r)[1] = IF tenants = <<>> THEN r ELSE tenants[1]
<1>1. tenants \in Seq(Requests)
  BY DEF TypeOK
<1>2. CASE tenants = <<>>
  BY <1>1, <1>2
<1>3. CASE tenants # <<>>
  BY <1>1, <1>3, EmptySeq, AppendProperties
<1> QED
  BY <1>2, <1>3

LEMMA RequestPrincipal ==
  ASSUME PrincipalIInv, NEW r \in Requests, Request(r)
  PROVE  PrincipalIInv'
<1> USE PrincipalAssumption DEF PrincipalIInv, TypeOK, UserOwnsFirstTenant, Goto
<1>1. CASE SelectTenant(r)
  <2>1. tenants # <<>> => tenants[1] \in Requests
    BY EmptySeq, ElementOfSeq
  <2>2. Len(tenants) = 1 => tenants # <<>>
    <3>1. tenants = <<>> => Len(tenants) = 0
      BY EmptyLength, Zenon
    <3> QED
      BY <3>1
  <2> QED
    BY <1>1, <2>1, <2>2 DEF SelectTenant
<1>2. CASE InsertTenant(r)
  BY <1>2 DEF InsertTenant
<1>3. CASE SelectUser(r)
  BY <1>3 DEF SelectUser
<1>4. CASE InsertUser(r)
  BY <1>4 DEF InsertUser
<1>5. CASE EndCommitting(r)
  <2>1. /\ Append(tenants, r) \in Seq(Requests)
        /\ Append(tenants, r) # <<>>
        /\ Append(tenants, r)[1] = IF tenants = <<>> THEN r ELSE tenants[1]
    BY CommittedTenants
  <2> QED
    BY <1>5, <2>1 DEF EndCommitting
<1>6. CASE EndRollingBack(r)
  BY <1>6 DEF EndRollingBack
<1> QED
  BY <1>1, <1>2, <1>3, <1>4, <1>5, <1>6 DEF Request
-----------------------------------------------------------------------------
\* The limiter: what is left of the given times is a suffix that begins with the first of
\* the given positions.
LEMMA FromIsSuffix ==
  ASSUME NEW S, NEW times \in Seq(S), NEW positions \in SUBSET (1..Len(times))
  PROVE  \E m \in 1..Len(times) + 1 :
           /\ From(times, positions) = SubSeq(times, m, Len(times))
           /\ \A i \in 1..m-1 : i \notin positions
           /\ m <= Len(times) => m \in positions
<1>1. Len(times) \in Nat
  BY LenProperties
<1>2. CASE positions = {}
  <2>1. From(times, positions) = SubSeq(times, Len(times) + 1, Len(times))
    BY <1>1, <1>2, SubSeqEmpty DEF From
  <2> QED
    BY <1>1, <1>2, <2>1
<1>3. CASE positions # {}
  <2> DEFINE m == CHOOSE i \in positions : \A k \in positions : i <= k
  <2>1. positions \in SUBSET Nat
    BY <1>1
  <2>2. m \in positions /\ \A k \in positions : m <= k
    BY <1>3, <2>1, LeastNatural, Zenon
  <2>3. From(times, positions) = SubSeq(times, m, Len(times))
    BY <1>3, Zenon DEF From
  <2> HIDE DEF m
  <2>4. m \in 1..Len(times) + 1 /\ m <= Len(times)
    BY <1>1, <2>2
  <2>5. \A i \in 1..m-1 : i \notin positions
    BY <1>1, <2>2, <2>4
  <2> QED
    BY <2>2, <2>3, <2>4, <2>5
<1> QED
  BY <1>2, <1>3

LEMMA WindowType == Window \in Nat \ {0}
<1>1. \A m, n \in Nat \ {0} : m * n \in Nat \ {0}
  OBVIOUS
<1> QED
  BY <1>1, LimiterAssumption DEF Window

\* Counting the times in the window that ends at an instant, when those that may lie in it
\* are the last ones.
LEMMA WindowCount ==
  ASSUME NEW times \in Seq(Nat), NEW instant \in Nat, NEW q \in 1..Len(times) + 1,
         \A i \in 1..q-1 : times[i] <= instant - Window
  PROVE  /\ Promise!InWindow(times, instant) \in Nat
         /\ Promise!InWindow(times, instant) <= Len(times) - q + 1
         /\ (\A i \in q..Len(times) : times[i] > instant - Window /\ times[i] <= instant)
              => Promise!InWindow(times, instant) = Len(times) - q + 1
<1> DEFINE Counted == {i \in DOMAIN times : times[i] > instant - Window /\ times[i] <= instant}
<1>1. Len(times) \in Nat /\ DOMAIN times = 1..Len(times) /\ \A i \in 1..Len(times) : times[i] \in Nat
  BY LenProperties, ElementOfSeq
<1>2. /\ IsFiniteSet(q..Len(times))
      /\ Cardinality(q..Len(times)) = Len(times) - q + 1
  <2>1. q \in Int /\ Len(times) \in Int
    BY <1>1
  <2>2. /\ IsFiniteSet(q..Len(times))
        /\ Cardinality(q..Len(times)) = IF q > Len(times) THEN 0 ELSE Len(times) - q + 1
    BY <2>1, FS_Interval, Zenon
  <2> QED
    BY <1>1, <2>2
<1>3. Counted \in SUBSET (q..Len(times))
  <2>1. \A i \in 1..Len(times) : i \notin 1..q-1 => i \in q..Len(times)
    BY <1>1
  <2>2. \A i \in 1..q-1 : i \notin Counted
    BY <1>1, WindowType
  <2> QED
    BY <1>1, <2>1, <2>2, Zenon
<1>4. Promise!InWindow(times, instant) = Cardinality(Counted)
  BY Zenon DEF Promise!InWindow, Promise!Cardinality, Cardinality
<1>5. /\ IsFiniteSet(Counted)
      /\ Cardinality(Counted) <= Cardinality(q..Len(times))
  BY <1>2, <1>3, FS_Subset, Zenon
<1>6. Cardinality(Counted) \in Nat
  BY <1>5, FS_CardinalityType, Zenon
<1>7. ASSUME \A i \in q..Len(times) : times[i] > instant - Window /\ times[i] <= instant
      PROVE  Counted = q..Len(times)
  BY <1>1, <1>3, <1>7
<1> HIDE DEF Counted
<1> QED
  BY <1>1, <1>2, <1>4, <1>5, <1>6, <1>7

InOrder(times) == \A i, k \in 1..Len(times) : i <= k => times[i] <= times[k]

\* A deque is what is left of all admissions: those before it have left the window.
TailOf(kept, all, instant) ==
  \E p \in 1..Len(all) + 1 :
    /\ kept = SubSeq(all, p, Len(all))
    /\ \A i \in 1..p-1 : all[i] <= instant - Window

\* The last part of a sequence, element by element.
LEMMA SuffixElements ==
  ASSUME NEW all \in Seq(Nat), NEW p \in 1..Len(all) + 1
  PROVE  /\ SubSeq(all, p, Len(all)) \in Seq(Nat)
         /\ Len(SubSeq(all, p, Len(all))) = Len(all) - p + 1
         /\ \A i \in 1..Len(all) - p + 1 : SubSeq(all, p, Len(all))[i] = all[p + i - 1]
<1>1. Len(all) \in Nat /\ \A i \in 1..Len(all) : all[i] \in Nat
  BY LenProperties, ElementOfSeq
<1> QED
  BY <1>1, SubSeqProperties

\* SuffixOfSuffix for times.
LEMMA SuffixOfTimes ==
  ASSUME NEW l \in Seq(Nat), NEW t \in Seq(Nat), NEW p \in 1..Len(l) + 1,
         t = SubSeq(l, p, Len(l)), NEW q \in 1..Len(t) + 1
  PROVE  /\ SubSeq(t, q, Len(t)) = SubSeq(l, p + q - 1, Len(l))
         /\ Len(SubSeq(t, q, Len(t))) = Len(l) - (p + q - 1) + 1
<1>1. /\ Len(l) \in Nat
      /\ Len(t) = Len(l) - p + 1
      /\ \A i \in 1..Len(l) - p + 1 : t[i] = l[p + i - 1]
  BY LenProperties, SuffixElements
<1>2. /\ SubSeq(t, q, Len(t)) \in Seq(Nat)
      /\ Len(SubSeq(t, q, Len(t))) = Len(t) - q + 1
      /\ \A i \in 1..Len(t) - q + 1 : SubSeq(t, q, Len(t))[i] = t[q + i - 1]
  BY SuffixElements, Zenon
<1>3. PICK r \in 1..Len(l) + 1 : r = p + q - 1
  BY <1>1
<1>4. /\ SubSeq(l, r, Len(l)) \in Seq(Nat)
      /\ Len(SubSeq(l, r, Len(l))) = Len(l) - r + 1
      /\ \A i \in 1..Len(l) - r + 1 : SubSeq(l, r, Len(l))[i] = l[r + i - 1]
  BY SuffixElements, Zenon
<1>5. /\ Len(t) - q + 1 = Len(l) - r + 1
      /\ \A i \in 1..Len(t) - q + 1 : SubSeq(t, q, Len(t))[i] = SubSeq(l, r, Len(l))[i]
  <2>1. Len(t) - q + 1 = Len(l) - r + 1 /\ Len(t) \in Nat
    BY <1>1, <1>3
  <2>2. ASSUME NEW i \in 1..Len(t) - q + 1
        PROVE  SubSeq(t, q, Len(t))[i] = SubSeq(l, r, Len(l))[i]
    <3>1. /\ q + i - 1 \in 1..Len(l) - p + 1
          /\ i \in 1..Len(l) - r + 1
          /\ p + (q + i - 1) - 1 = r + i - 1
      BY <1>1, <1>3, <2>1
    <3>2. t[q + i - 1] = l[p + (q + i - 1) - 1]
      BY <1>1, <3>1, Zenon
    <3> QED
      BY <1>2, <1>4, <3>1, <3>2, Zenon
  <2> QED
    BY <2>1, <2>2
<1> QED
  BY <1>2, <1>3, <1>4, <1>5, SeqEqual, Zenon

\* What the loop of popleft leaves are exactly the admissions in the window.
LEMMA FromTail ==
  ASSUME NEW all \in Seq(Nat), NEW kept, NEW instant \in Nat,
         InOrder(all), TailOf(kept, all, instant)
  PROVE  LET fresh == From(kept, {i \in 1..Len(kept) : kept[i] > instant - Window})
         IN  /\ Len(fresh) <= Len(kept)
             /\ \E q \in 1..Len(all) + 1 :
                  /\ fresh = SubSeq(all, q, Len(all))
                  /\ \A i \in 1..q-1 : all[i] <= instant - Window
                  /\ \A i \in q..Len(all) : all[i] > instant - Window
<1> DEFINE positions == {i \in 1..Len(kept) : kept[i] > instant - Window}
           fresh == From(kept, positions)
<1>1. Len(all) \in Nat /\ \A i \in 1..Len(all) : all[i] \in Nat
  BY LenProperties, ElementOfSeq
<1>2. PICK p \in 1..Len(all) + 1 :
        /\ kept = SubSeq(all, p, Len(all))
        /\ \A i \in 1..p-1 : all[i] <= instant - Window
  BY DEF TailOf
<1>3. /\ kept \in Seq(Nat)
      /\ Len(kept) = Len(all) - p + 1
      /\ \A i \in 1..Len(kept) : kept[i] = all[p + i - 1]
  BY <1>2, SuffixElements
<1>4. positions \in SUBSET (1..Len(kept))
  OBVIOUS
<1>5. PICK m \in 1..Len(kept) + 1 :
        /\ fresh = SubSeq(kept, m, Len(kept))
        /\ \A i \in 1..m-1 : i \notin positions
        /\ m <= Len(kept) => m \in positions
  <2> HIDE DEF positions
  <2> QED
    BY <1>3, <1>4, FromIsSuffix, Zenon
<1>6. /\ fresh = SubSeq(all, p + m - 1, Len(all))
      /\ Len(fresh) = Len(all) - (p + m - 1) + 1
  <2> HIDE DEF positions, fresh
  <2>1. /\ SubSeq(kept, m, Len(kept)) = SubSeq(all, p + m - 1, Len(all))
        /\ Len(SubSeq(kept, m, Len(kept))) = Len(all) - (p + m - 1) + 1
    BY <1>2, <1>3, SuffixOfTimes, Zenon
  <2> QED
    BY <1>5, <2>1, Zenon
<1>7. \A i \in 1..p + m - 2 : all[i] <= instant - Window
  <2>1. \A i \in 1..m-1 : ~ (kept[i] > instant - Window)
    BY <1>3, <1>5
  <2>2. \A i \in p..p + m - 2 : all[i] = kept[i - p + 1] /\ i - p + 1 \in 1..m-1
    BY <1>1, <1>3
  <2>3. \A i \in p..p + m - 2 : ~ (all[i] > instant - Window)
    BY <2>1, <2>2
  <2> QED
    BY <1>1, <1>2, <2>3, WindowType, SMTT(30)
<1>8. \A i \in p + m - 1..Len(all) : all[i] > instant - Window
  <2>1. SUFFICES ASSUME NEW i \in p + m - 1..Len(all)
                 PROVE  all[i] > instant - Window
    OBVIOUS
  <2>2. m <= Len(kept) /\ p + m - 1 \in 1..Len(all) /\ i \in 1..Len(all) /\ p + m - 1 <= i
    BY <1>1, <1>3
  <2>3. all[p + m - 1] > instant - Window
    BY <1>3, <1>5, <2>2
  <2>4. all[p + m - 1] <= all[i]
    BY <2>2 DEF InOrder
  <2> QED
    BY <1>1, <2>2, <2>3, <2>4, WindowType, SMTT(30)
<1>9. p + m - 1 \in 1..Len(all) + 1 /\ (p + m - 1) - 1 = p + m - 2
  BY <1>1, <1>3
<1>10. Len(fresh) <= Len(kept)
  <2> HIDE DEF fresh, positions
  <2> QED
    BY <1>1, <1>3, <1>6
<1> HIDE DEF fresh
<1>11. \E q \in 1..Len(all) + 1 :
         /\ fresh = SubSeq(all, q, Len(all))
         /\ \A i \in 1..q-1 : all[i] <= instant - Window
         /\ \A i \in q..Len(all) : all[i] > instant - Window
  BY <1>6, <1>7, <1>8, <1>9
<1> QED
  BY <1>10, <1>11 DEF fresh

\* An admission is appended to what is left.
LEMMA AppendedTail ==
  ASSUME NEW all \in Seq(Nat), NEW instant \in Nat, NEW q \in 1..Len(all) + 1,
         \A i \in 1..q-1 : all[i] <= instant - Window
  PROVE  TailOf(Append(SubSeq(all, q, Len(all)), instant), Append(all, instant), instant)
<1>1. /\ Len(all) \in Nat
      /\ Len(Append(all, instant)) = Len(all) + 1
      /\ \A i \in 1..Len(all) : Append(all, instant)[i] = all[i]
  BY LenProperties, AppendProperties
<1>2. Append(SubSeq(all, q, Len(all)), instant)
        = SubSeq(Append(all, instant), q, Len(Append(all, instant)))
  BY SuffixOfAppend
<1>3. /\ q \in 1..Len(Append(all, instant)) + 1
      /\ \A i \in 1..q-1 : Append(all, instant)[i] <= instant - Window
  BY <1>1
<1> QED
  BY <1>2, <1>3, Zenon DEF TailOf

\* A deque that is empty, or whose last event has left the window, may be dropped.
LEMMA DroppedTail ==
  ASSUME NEW all \in Seq(Nat), NEW kept, NEW instant \in Nat,
         InOrder(all), TailOf(kept, all, instant),
         kept = <<>> \/ kept[Len(kept)] <= instant - Window
  PROVE  TailOf(<<>>, all, instant)
<1>1. Len(all) \in Nat /\ \A i \in 1..Len(all) : all[i] \in Nat
  BY LenProperties, ElementOfSeq
<1>2. PICK p \in 1..Len(all) + 1 :
        /\ kept = SubSeq(all, p, Len(all))
        /\ \A i \in 1..p-1 : all[i] <= instant - Window
  BY DEF TailOf
<1>3. /\ kept \in Seq(Nat)
      /\ Len(kept) = Len(all) - p + 1
      /\ \A i \in 1..Len(kept) : kept[i] = all[p + i - 1]
  BY <1>2, SuffixElements
<1>4. \A i \in 1..Len(all) : all[i] <= instant - Window
  <2>1. CASE kept = <<>>
    <3>1. Len(kept) = 0
      BY <2>1, EmptyLength, Zenon
    <3> QED
      BY <1>1, <1>2, <1>3, <3>1
  <2>2. CASE kept # <<>>
    <3>1. Len(kept) \in 1..Len(kept)
      <4>1. Len(kept) \in Nat \ {0}
        BY <1>3, <2>2, EmptySeq, Zenon
      <4> QED
        BY <4>1
    <3>2. all[Len(all)] <= instant - Window /\ Len(all) \in 1..Len(all)
      <4>1. kept[Len(kept)] <= instant - Window
        BY <2>2
      <4>2. kept[Len(kept)] = all[p + Len(kept) - 1]
        BY <1>3, <3>1, Zenon
      <4>3. p + Len(kept) - 1 = Len(all) /\ Len(all) \in 1..Len(all)
        BY <1>1, <1>3, <3>1
      <4> QED
        BY <4>1, <4>2, <4>3, Zenon
    <3>3. \A i \in 1..Len(all) : all[i] <= all[Len(all)]
      BY <1>1, <3>2 DEF InOrder
    <3> QED
      BY <1>1, <3>2, <3>3, WindowType
  <2> QED
    BY <2>1, <2>2
<1>5. <<>> = SubSeq(all, Len(all) + 1, Len(all))
  <2>1. Len(all) + 1 \in Int /\ Len(all) \in Int /\ Len(all) < Len(all) + 1
    BY <1>1
  <2> QED
    BY <2>1, SubSeqEmpty
<1>6. Len(all) + 1 \in 1..Len(all) + 1 /\ \A i \in 1..Len(all) + 1 - 1 : all[i] <= instant - Window
  BY <1>1, <1>4
<1> QED
  BY <1>5, <1>6 DEF TailOf

LEMMA AppendedInOrder ==
  ASSUME NEW instant \in Nat, NEW all \in Seq(0..instant), InOrder(all)
  PROVE  InOrder(Append(all, instant)) /\ Append(all, instant) \in Seq(0..instant)
<1>1. /\ Len(all) \in Nat
      /\ \A i \in 1..Len(all) : all[i] \in 0..instant
      /\ Append(all, instant) \in Seq(0..instant)
      /\ Len(Append(all, instant)) = Len(all) + 1
      /\ \A i \in 1..Len(all) : Append(all, instant)[i] = all[i]
      /\ Append(all, instant)[Len(all) + 1] = instant
  BY LenProperties, ElementOfSeq, AppendProperties
<1> QED
  BY <1>1 DEF InOrder
-----------------------------------------------------------------------------
\* The limiter's invariant: each deque is what is left of the client's admissions, also
\* when its key is not in the table.
LimiterIInv ==
  /\ LimiterTypeOK
  /\ \A c \in Clients :
       /\ InOrder(admitted[c])
       /\ TailOf(Kept(c), admitted[c], now)

LEMMA InitLimiter == LimiterInit => LimiterIInv
<1> SUFFICES ASSUME LimiterInit PROVE LimiterIInv
  OBVIOUS
<1>1. <<>> \in Seq(0..now) /\ Len(<<>>) = 0 /\ <<>> \in Seq(Nat)
  BY EmptySeq
<1>2. InOrder(<<>>)
  BY <1>1 DEF InOrder
<1>3. TailOf(<<>>, <<>>, now)
  <2>1. SubSeq(<<>>, 1, Len(<<>>)) = <<>>
    BY <1>1, SubSeqEmpty
  <2> QED
    BY <1>1, <2>1 DEF TailOf
<1>4. DOMAIN events = {}
  BY DEF LimiterInit
<1> QED
  BY <1>1, <1>2, <1>3, <1>4, LimiterAssumption
     DEF LimiterInit, LimiterIInv, LimiterTypeOK, Kept

\* Kept and Fresh of a client, as suffixes of its admissions.
LEMMA FreshIsWindow ==
  ASSUME LimiterIInv, NEW c \in Clients
  PROVE  /\ now \in Nat
         /\ admitted[c] \in Seq(0..now) /\ admitted[c] \in Seq(Nat)
         /\ Fresh(c) \in Seq(0..now) /\ Len(Fresh(c)) <= Limit
         /\ \E q \in 1..Len(admitted[c]) + 1 :
              /\ Fresh(c) = SubSeq(admitted[c], q, Len(admitted[c]))
              /\ \A i \in 1..q-1 : admitted[c][i] <= now - Window
              /\ \A i \in q..Len(admitted[c]) :
                   admitted[c][i] > now - Window /\ admitted[c][i] <= now
<1>1. now \in Nat /\ admitted[c] \in Seq(0..now)
  BY LimiterAssumption DEF LimiterIInv, LimiterTypeOK
<1>2. admitted[c] \in Seq(Nat)
  <2>1. 0..now \subseteq Nat
    BY <1>1
  <2> QED
    BY <1>1, <2>1, SeqMonotonic, Zenon
<1>3. InOrder(admitted[c]) /\ TailOf(Kept(c), admitted[c], now)
  BY DEF LimiterIInv
<1>4. Fresh(c) = From(Kept(c), {i \in 1..Len(Kept(c)) : Kept(c)[i] > now - Window})
  BY DEF Fresh
<1>5. /\ Len(Fresh(c)) <= Len(Kept(c))
      /\ \E q \in 1..Len(admitted[c]) + 1 :
           /\ Fresh(c) = SubSeq(admitted[c], q, Len(admitted[c]))
           /\ \A i \in 1..q-1 : admitted[c][i] <= now - Window
           /\ \A i \in q..Len(admitted[c]) : admitted[c][i] > now - Window
  BY <1>1, <1>2, <1>3, <1>4, FromTail, Zenon
<1>6. Len(Kept(c)) <= Limit
  <2>1. Len(<<>>) = 0
    BY EmptySeq
  <2>2. c \in DOMAIN events => Len(events[c]) <= Limit
    BY DEF LimiterIInv, LimiterTypeOK
  <2>3. CASE c \in DOMAIN events
    BY <2>2, <2>3 DEF Kept
  <2>4. CASE c \notin DOMAIN events
    <3>1. Len(Kept(c)) = 0
      BY <2>1, <2>4, Zenon DEF Kept
    <3> QED
      BY <3>1, LimiterAssumption
  <2> QED
    BY <2>3, <2>4
<1>7. Len(Fresh(c)) \in Nat /\ Len(Kept(c)) \in Nat
  BY <1>2, <1>3, <1>5, SuffixElements, LenProperties DEF TailOf
<1>8. \A i \in 1..Len(admitted[c]) : admitted[c][i] <= now
  BY <1>1, ElementOfSeq
<1>9. Len(admitted[c]) \in Nat
  BY <1>1, LenProperties
<1>10. Len(Fresh(c)) <= Limit
  BY <1>5, <1>6, <1>7, LimiterAssumption
<1>11. \A q \in 1..Len(admitted[c]) + 1 : \A i \in q..Len(admitted[c]) : admitted[c][i] <= now
  BY <1>8, <1>9
<1>12. Fresh(c) \in Seq(0..now)
  <2>1. \A i \in 1..Len(admitted[c]) : admitted[c][i] \in 0..now
    BY <1>1, ElementOfSeq
  <2>2. \A q \in 1..Len(admitted[c]) + 1 : SubSeq(admitted[c], q, Len(admitted[c])) \in Seq(0..now)
    BY <1>9, <2>1, SubSeqProperties
  <2> QED
    BY <1>5, <2>2, Zenon
<1> QED
  BY <1>1, <1>2, <1>5, <1>10, <1>11, <1>12, Zenon

\* A step that gives one client a new deque and may drop keys of the table whose events
\* have left the window.
LEMMA TableStep ==
  ASSUME LimiterIInv, NEW c \in Clients, NEW times \in Seq(0..now), Len(times) <= Limit,
         NEW all \in Seq(0..now), InOrder(all), TailOf(times, all, now),
         now' = now, admitted' = [admitted EXCEPT ![c] = all],
         DOMAIN events' \subseteq DOMAIN Put(c, times),
         \A d \in DOMAIN events' : events'[d] = Put(c, times)[d],
         \A d \in DOMAIN Put(c, times) \ DOMAIN events' :
           Put(c, times)[d] = <<>> \/ Put(c, times)[d][Len(Put(c, times)[d])] <= now - Window
  PROVE  LimiterIInv'
<1> DEFINE table == Put(c, times)
<1>1. /\ DOMAIN table = DOMAIN events \cup {c}
      /\ table[c] = times
      /\ \A d \in DOMAIN events \ {c} : table[d] = events[d]
  BY DEF Put
<1>2. DOMAIN events \subseteq Clients /\ now \in Nat /\ now \in 0..MaxTime
  BY LimiterAssumption DEF LimiterIInv, LimiterTypeOK
<1>3. \A d \in DOMAIN table : table[d] \in Seq(0..now) /\ Len(table[d]) <= Limit
  BY <1>1, Zenon DEF LimiterIInv, LimiterTypeOK
<1>4. admitted' \in [Clients -> Seq(0..now)]
  BY DEF LimiterIInv, LimiterTypeOK
<1>5. \A d \in Clients : admitted'[d] = IF d = c THEN all ELSE admitted[d]
  BY DEF LimiterIInv, LimiterTypeOK
<1>6. \A d \in Clients : admitted'[d] \in Seq(Nat) /\ InOrder(admitted'[d])
  <2>1. 0..now \subseteq Nat
    BY <1>2
  <2>2. \A d \in Clients : admitted'[d] \in Seq(0..now)
    BY <1>4
  <2>3. \A d \in Clients : admitted'[d] \in Seq(Nat)
    BY <2>1, <2>2, SeqMonotonic, Zenon
  <2> QED
    BY <1>5, <2>3, Zenon DEF LimiterIInv
<1>7. \A d \in DOMAIN table : TailOf(table[d], admitted'[d], now)
  <2>1. \A d \in DOMAIN events \ {c} : TailOf(events[d], admitted[d], now)
    BY <1>2, Zenon DEF LimiterIInv, Kept
  <2> QED
    BY <1>1, <1>2, <1>5, <2>1, Zenon
<1> HIDE DEF table
<1>8. ASSUME NEW d \in Clients
      PROVE  TailOf(Kept(d)', admitted'[d], now)
  <2>1. CASE d \in DOMAIN events'
    <3>1. Kept(d)' = table[d] /\ d \in DOMAIN table
      BY <2>1, Zenon DEF Kept, table
    <3> QED
      BY <1>7, <3>1, Zenon
  <2>2. CASE d \notin DOMAIN events' /\ d \in DOMAIN table
    <3>1. Kept(d)' = <<>>
      BY <2>2, Zenon DEF Kept
    <3>2. table[d] = <<>> \/ table[d][Len(table[d])] <= now - Window
      BY <2>2, Zenon DEF table
    <3> QED
      BY <1>2, <1>6, <1>7, <2>2, <3>1, <3>2, DroppedTail, Zenon
  <2>3. CASE d \notin DOMAIN table
    <3>1. Kept(d)' = <<>> /\ Kept(d) = <<>> /\ admitted'[d] = admitted[d]
      BY <1>1, <1>5, <2>3, Zenon DEF Kept, table
    <3> QED
      BY <3>1, Zenon DEF LimiterIInv
  <2> QED
    BY <2>1, <2>2, <2>3, Zenon
<1>9. LimiterTypeOK'
  <2>1. DOMAIN events' \subseteq Clients
    BY <1>1, <1>2, Zenon DEF table
  <2>2. \A d \in DOMAIN events' : events'[d] \in Seq(0..now) /\ Len(events'[d]) <= Limit
    BY <1>3, Zenon DEF table
  <2> QED
    BY <1>2, <1>4, <2>1, <2>2, Zenon DEF LimiterTypeOK
<1> QED
  BY <1>6, <1>8, <1>9, Zenon DEF LimiterIInv

LEMMA RefuseLimiter ==
  ASSUME LimiterIInv, NEW c \in Clients, Refuse(c)
  PROVE  LimiterIInv'
<1>1. /\ now \in Nat /\ admitted[c] \in Seq(0..now) /\ admitted[c] \in Seq(Nat)
      /\ Fresh(c) \in Seq(0..now) /\ Len(Fresh(c)) <= Limit
      /\ TailOf(Fresh(c), admitted[c], now)
  BY FreshIsWindow DEF TailOf
<1>2. InOrder(admitted[c])
  BY DEF LimiterIInv
<1>3. now' = now /\ admitted' = [admitted EXCEPT ![c] = admitted[c]] /\ events' = Put(c, Fresh(c))
  BY DEF Refuse, LimiterIInv, LimiterTypeOK
<1> QED
  BY <1>1, <1>2, <1>3, TableStep, Zenon

LEMMA AdmitLimiter ==
  ASSUME LimiterIInv, NEW c \in Clients, Admit(c)
  PROVE  LimiterIInv'
<1> DEFINE times == Append(Fresh(c), now)
           all == Append(admitted[c], now)
           table == Put(c, times)
<1>1. /\ now \in Nat /\ admitted[c] \in Seq(0..now) /\ admitted[c] \in Seq(Nat)
      /\ Fresh(c) \in Seq(0..now)
  BY FreshIsWindow
<1>2. InOrder(all) /\ all \in Seq(0..now)
  BY <1>1, AppendedInOrder, Zenon DEF LimiterIInv
<1>3. times \in Seq(0..now) /\ Len(times) <= Limit
  <2>1. Len(Fresh(c)) \in Nat /\ Len(Fresh(c)) < Limit /\ now \in 0..now
    BY <1>1, LenProperties DEF Admit
  <2>2. times \in Seq(0..now) /\ Len(times) = Len(Fresh(c)) + 1
    BY <1>1, <2>1, AppendProperties
  <2> QED
    BY <2>1, <2>2, LimiterAssumption
<1>4. TailOf(times, all, now)
  <2>1. PICK q \in 1..Len(admitted[c]) + 1 :
          /\ Fresh(c) = SubSeq(admitted[c], q, Len(admitted[c]))
          /\ \A i \in 1..q-1 : admitted[c][i] <= now - Window
    BY FreshIsWindow
  <2> QED
    BY <1>1, <2>1, AppendedTail, Zenon
<1>5. now' = now /\ admitted' = [admitted EXCEPT ![c] = all] /\ events' = Compacted(table)
  BY DEF Admit
<1>6. \A d \in DOMAIN table : table[d] # <<>> => table[d][Len(table[d])] \in Nat
  <2>1. \A d \in DOMAIN table : table[d] \in Seq(0..now)
    BY <1>3, Zenon DEF LimiterIInv, LimiterTypeOK, Put
  <2> HIDE DEF table
  <2>2. \A d \in DOMAIN table : table[d] # <<>> => Len(table[d]) \in 1..Len(table[d])
    BY <2>1, EmptySeq
  <2> QED
    BY <1>1, <2>1, <2>2, ElementOfSeq
<1> HIDE DEF table, times, all
<1>7. /\ DOMAIN events' \subseteq DOMAIN table
      /\ \A d \in DOMAIN events' : events'[d] = table[d]
      /\ \A d \in DOMAIN table \ DOMAIN events' :
           table[d] = <<>> \/ ~ (table[d][Len(table[d])] > now - Window)
  BY <1>5 DEF Compacted
<1>8. \A d \in DOMAIN table \ DOMAIN events' :
        table[d] = <<>> \/ table[d][Len(table[d])] <= now - Window
  BY <1>1, <1>6, <1>7, WindowType
<1> QED
  BY <1>2, <1>3, <1>4, <1>5, <1>7, <1>8, TableStep, Zenon DEF table

LEMMA TickLimiter ==
  ASSUME LimiterIInv, Tick
  PROVE  LimiterIInv'
<1>1. now \in Nat /\ now' = now + 1 /\ now' \in 0..MaxTime
  BY LimiterAssumption DEF Tick, LimiterIInv, LimiterTypeOK
<1>2. events' = events /\ admitted' = admitted
  BY DEF Tick
<1>3. \A times : times \in Seq(0..now) => times \in Seq(0..now')
  <2>1. 0..now \subseteq 0..now'
    BY <1>1
  <2> QED
    BY <2>1, SeqMonotonic, Zenon
<1>4. LimiterTypeOK'
  BY <1>1, <1>2, <1>3, Zenon DEF LimiterIInv, LimiterTypeOK
<1>5. \A c \in Clients : \A i \in 1..Len(admitted[c]) : admitted[c][i] \in Nat
  BY <1>1, ElementOfSeq DEF LimiterIInv, LimiterTypeOK
<1>6. ASSUME NEW c \in Clients
      PROVE  TailOf(Kept(c), admitted[c], now')
  <2>1. PICK p \in 1..Len(admitted[c]) + 1 :
          /\ Kept(c) = SubSeq(admitted[c], p, Len(admitted[c]))
          /\ \A i \in 1..p-1 : admitted[c][i] <= now - Window
    BY DEF LimiterIInv, TailOf
  <2>2. Len(admitted[c]) \in Nat
    <3>1. admitted[c] \in Seq(0..now)
      BY DEF LimiterIInv, LimiterTypeOK
    <3> QED
      BY <3>1, LenProperties
  <2>3. \A i \in 1..p-1 : admitted[c][i] <= now' - Window
    <3>1. p - 1 <= Len(admitted[c]) /\ p \in Nat
      BY <2>2
    <3>2. \A i \in 1..p-1 : admitted[c][i] \in Nat
      BY <1>5, <2>2, <3>1
    <3> QED
      BY <1>1, <2>1, <3>2, WindowType
  <2> QED
    BY <2>1, <2>3, Zenon DEF TailOf
<1> QED
  BY <1>2, <1>4, <1>6, Zenon DEF LimiterIInv, Kept
-----------------------------------------------------------------------------
\* A client with a full deque has Limit admissions in the window, a client with room fewer.
LEMMA FreshIsCounted ==
  ASSUME LimiterIInv, NEW c \in Clients
  PROVE  Promise!InWindow(admitted[c], now) = Len(Fresh(c)) /\ Len(Fresh(c)) \in 0..Limit
<1>1. PICK q \in 1..Len(admitted[c]) + 1 :
        /\ Fresh(c) = SubSeq(admitted[c], q, Len(admitted[c]))
        /\ \A i \in 1..q-1 : admitted[c][i] <= now - Window
        /\ \A i \in q..Len(admitted[c]) : admitted[c][i] > now - Window /\ admitted[c][i] <= now
  BY FreshIsWindow
<1>2. now \in Nat /\ admitted[c] \in Seq(Nat) /\ Len(Fresh(c)) <= Limit
  BY FreshIsWindow
<1>3. Promise!InWindow(admitted[c], now) = Len(admitted[c]) - q + 1
  BY <1>1, <1>2, WindowCount, Zenon
<1>4. Len(Fresh(c)) = Len(admitted[c]) - q + 1 /\ Len(Fresh(c)) \in Nat
  BY <1>1, <1>2, SuffixElements, LenProperties
<1> QED
  BY <1>2, <1>3, <1>4, LimiterAssumption

\* Retry-After, against the time until the first event leaves the window.
LEMMA WaitBounds ==
  ASSUME NEW left \in Nat \ {0}
  PROVE  LET wait == IF left < TicksPerSecond THEN 1 ELSE left \div TicksPerSecond
         IN  /\ wait \in Nat \ {0}
             /\ wait * TicksPerSecond \in Nat /\ (wait + 1) * TicksPerSecond \in Nat
             /\ wait > 1 => wait * TicksPerSecond <= left
             /\ left <= (wait + 1) * TicksPerSecond
<1>1. TicksPerSecond \in Nat \ {0}
  BY LimiterAssumption
<1>2. \A n, d \in Nat \ {0} :
        /\ n \div d \in Nat
        /\ d * (n \div d) <= n
        /\ n < d * (n \div d) + d
        /\ n >= d => n \div d # 0
  OBVIOUS
<1> QED
  BY <1>1, <1>2

LEMMA RefusedIsJust == LimiterIInv => RefusalIsJust
<1> SUFFICES ASSUME LimiterIInv, NEW c \in Clients, Len(Fresh(c)) >= Limit
             PROVE  LET wait == RetryAfter(c)
                    IN  /\ Promise!InWindow(admitted[c], now) = Limit
                        /\ wait > 1 =>
                             Promise!InWindow(admitted[c], now + wait * TicksPerSecond - 1) = Limit
                        /\ Promise!InWindow(admitted[c], now + (wait + 1) * TicksPerSecond) < Limit
  BY Zenon DEF RefusalIsJust
<1> DEFINE all == admitted[c]
           left == Fresh(c)[1] + Window - now
           wait == IF left < TicksPerSecond THEN 1 ELSE left \div TicksPerSecond
<1>1. PICK q \in 1..Len(all) + 1 :
        /\ Fresh(c) = SubSeq(all, q, Len(all))
        /\ \A i \in 1..q-1 : all[i] <= now - Window
        /\ \A i \in q..Len(all) : all[i] > now - Window /\ all[i] <= now
  BY FreshIsWindow
<1>2. /\ now \in Nat /\ all \in Seq(Nat) /\ InOrder(all)
      /\ Len(all) \in Nat /\ \A i \in 1..Len(all) : all[i] \in Nat
      /\ Window \in Nat \ {0} /\ Limit \in Nat \ {0}
  BY FreshIsWindow, LenProperties, ElementOfSeq, WindowType, LimiterAssumption DEF LimiterIInv
<1>3. Promise!InWindow(all, now) = Limit /\ Len(Fresh(c)) = Limit
  BY <1>2, FreshIsCounted
<1>4. /\ Len(all) - q + 1 = Limit /\ q \in 1..Len(all)
      /\ Fresh(c)[1] = all[q]
  <2>1. /\ Len(Fresh(c)) = Len(all) - q + 1
        /\ \A i \in 1..Len(all) - q + 1 : Fresh(c)[i] = all[q + i - 1]
    BY <1>1, <1>2, SuffixElements, Zenon
  <2> QED
    BY <1>2, <1>3, <2>1
<1>5. RetryAfter(c) = wait
  BY Zenon DEF RetryAfter
<1> HIDE DEF all
<1>6. all[q] \in Nat /\ left = all[q] + Window - now /\ left \in Nat \ {0}
  BY <1>1, <1>2, <1>4
<1> HIDE DEF left
<1>7. /\ wait \in Nat \ {0}
      /\ wait * TicksPerSecond \in Nat /\ (wait + 1) * TicksPerSecond \in Nat
      /\ wait > 1 => wait * TicksPerSecond <= left
      /\ left <= (wait + 1) * TicksPerSecond
  BY <1>6, WaitBounds, Zenon
<1> HIDE DEF wait
<1>8. ASSUME wait > 1
      PROVE  Promise!InWindow(all, now + wait * TicksPerSecond - 1) = Limit
  <2>1. PICK ticks \in Nat : ticks = wait * TicksPerSecond
    BY <1>7, Zenon
  <2>2. ticks \in Nat /\ ticks <= left /\ ticks >= 1
    <3>1. \A m, n \in Nat \ {0} : m * n >= 1
      OBVIOUS
    <3>2. wait * TicksPerSecond >= 1
      BY <1>7, <3>1, LimiterAssumption, Zenon
    <3> QED
      BY <1>7, <1>8, <2>1, <3>2
  <2>3. PICK instant \in Nat : instant = now + ticks - 1
    BY <1>2, <2>1, <2>2
  <2>4. \A i \in 1..q-1 : all[i] <= instant - Window
    <3>1. q \in Nat /\ \A i \in 1..q-1 : i \in 1..Len(all)
      BY <1>2, <1>4
    <3>2. \A i \in 1..q-1 : all[i] \in Nat /\ all[i] <= now - Window
      BY <1>1, <1>2, <3>1, Zenon DEF all
    <3>3. \A time \in Nat : time <= now - Window => time <= instant - Window
      BY <1>2, <2>2, <2>3
    <3> QED
      BY <3>2, <3>3, Zenon
  <2>5. \A i \in q..Len(all) : all[i] > instant - Window /\ all[i] <= instant
    <3>1. \A i \in q..Len(all) : i \in 1..Len(all) /\ q <= i
      BY <1>2, <1>4
    <3>2. \A i \in q..Len(all) : all[q] <= all[i] /\ all[i] \in Nat
      BY <1>2, <1>4, <3>1, Zenon DEF InOrder
    <3>3. \A i \in q..Len(all) : all[i] <= now
      BY <1>1, Zenon DEF all
    <3>4. \A time \in Nat : all[q] <= time /\ time <= now =>
            time > instant - Window /\ time <= instant
      BY <1>2, <1>6, <2>2, <2>3, SMTT(30)
    <3> QED
      BY <3>2, <3>3, <3>4, Zenon
  <2>6. Promise!InWindow(all, instant) = Len(all) - q + 1
    <3>1. all \in Seq(Nat) /\ q \in 1..Len(all) + 1
      BY <1>2, <1>4
    <3> QED
      BY <2>4, <2>5, <3>1, WindowCount, Zenon
  <2> QED
    BY <1>4, <2>1, <2>3, <2>6, Zenon
<1>9. Promise!InWindow(all, now + (wait + 1) * TicksPerSecond) < Limit
  <2>1. PICK ticks \in Nat : ticks = (wait + 1) * TicksPerSecond
    BY <1>7, Zenon
  <2>2. PICK r \in 1..Len(all) + 1 : r = q + 1
    BY <1>2, <1>4
  <2>3. ticks \in Nat /\ left <= ticks /\ now + ticks \in Nat
    BY <1>2, <1>7, <2>1
  <2>4. PICK instant \in Nat : instant = now + ticks
    BY <2>3, Zenon
  <2>5. \A i \in 1..r-1 : all[i] <= instant - Window
    <3>1. \A i \in 1..r-1 : i \in 1..Len(all) /\ i <= q
      BY <1>2, <1>4, <2>2
    <3>2. \A i \in 1..r-1 : all[i] <= all[q] /\ all[i] \in Nat
      BY <1>2, <1>4, <3>1, Zenon DEF InOrder
    <3>3. \A time \in Nat : time <= all[q] => time <= instant - Window
      BY <1>2, <1>6, <2>3, <2>4, SMTT(30)
    <3> QED
      BY <3>2, <3>3, Zenon
  <2>6. /\ Promise!InWindow(all, instant) \in Nat
        /\ Promise!InWindow(all, instant) <= Len(all) - r + 1
    <3>1. all \in Seq(Nat)
      BY <1>2
    <3> QED
      BY <2>5, <3>1, WindowCount, Zenon
  <2>7. Promise!InWindow(all, instant) < Limit
    BY <1>2, <1>4, <2>2, <2>6
  <2> QED
    BY <2>1, <2>4, <2>7, Zenon
<1> QED
  BY <1>3, <1>5, <1>8, <1>9, Zenon DEF all
-----------------------------------------------------------------------------
\* The composition: a request reaches its handler only through the gate.
AdmissionIInv ==
  /\ LimiterIInv
  /\ PrincipalIInv
  /\ gate \in [Requests -> {"sent", "called", "refused"}]
  /\ \A r \in Requests : pc[r] # "start" => gate[r] = "called"

LEMMA InitAdmission == AdmissionInit => AdmissionIInv
<1> SUFFICES ASSUME AdmissionInit PROVE AdmissionIInv
  OBVIOUS
<1>1. LimiterIInv /\ PrincipalIInv
  BY InitLimiter, InitPrincipal DEF AdmissionInit
<1> QED
  BY <1>1 DEF AdmissionInit, Init, AdmissionIInv

LEMMA LimiterStep ==
  ASSUME LimiterIInv, NEW c \in Clients, Allow(c)
  PROVE  LimiterIInv'
BY AdmitLimiter, RefuseLimiter DEF Allow

\* The invariants of a component are about its own variables.
LEMMA LimiterStutters == LimiterIInv /\ UNCHANGED limiterVars => LimiterIInv'
BY DEF limiterVars, LimiterIInv, LimiterTypeOK, Kept

LEMMA PrincipalStutters == PrincipalIInv /\ UNCHANGED vars => PrincipalIInv'
BY DEF vars, PrincipalIInv, TypeOK, UserOwnsFirstTenant

LEMMA NextAdmission == AdmissionIInv /\ [AdmissionNext]_admissionVars => AdmissionIInv'
<1> SUFFICES ASSUME AdmissionIInv, [AdmissionNext]_admissionVars PROVE AdmissionIInv'
  OBVIOUS
<1> USE DEF AdmissionIInv
<1>1. CASE Tick /\ UNCHANGED <<vars, gate>>
  <2>1. LimiterIInv' /\ PrincipalIInv'
    BY <1>1, TickLimiter, PrincipalStutters
  <2> QED
    BY <1>1, <2>1 DEF vars
<1>2. ASSUME NEW c \in TokenClients, DispatchWithToken(c)
      PROVE  AdmissionIInv'
  <2>1. LimiterIInv' /\ PrincipalIInv'
    BY <1>2, LimiterStep, PrincipalStutters, AdmissionAssumption DEF DispatchWithToken
  <2> QED
    BY <1>2, <2>1 DEF vars, DispatchWithToken
<1>3. ASSUME NEW r \in Requests, Dispatch(r)
      PROVE  AdmissionIInv'
  <2>1. LimiterIInv' /\ PrincipalIInv'
    BY <1>3, LimiterStep, PrincipalStutters, AdmissionAssumption DEF Dispatch, Allow
  <2> QED
    BY <1>3, <2>1 DEF vars, Dispatch
<1>4. ASSUME NEW r \in Requests, Call(r)
      PROVE  AdmissionIInv'
  <2>1. LimiterIInv' /\ PrincipalIInv'
    BY <1>4, LimiterStutters, RequestPrincipal DEF Call
  <2>2. \A q \in Requests \ {r} : pc'[q] = pc[q]
    BY <1>4 DEF Call, Request, SelectTenant, InsertTenant, SelectUser, InsertUser,
                EndCommitting, EndRollingBack, Goto, PrincipalIInv, TypeOK
  <2> QED
    BY <1>4, <2>1, <2>2 DEF Call
<1>5. CASE UNCHANGED admissionVars
  <2>1. LimiterIInv' /\ PrincipalIInv'
    BY <1>5, LimiterStutters, PrincipalStutters DEF admissionVars
  <2> QED
    BY <1>5, <2>1 DEF admissionVars, vars
<1> QED
  BY <1>1, <1>2, <1>3, <1>4, <1>5 DEF AdmissionNext

LEMMA AdmissionInvariant == AdmissionSpec => []AdmissionIInv
BY InitAdmission, NextAdmission, PTL DEF AdmissionSpec

(* The limiter and the look-up of the principal stay in their types together: no deque is
   longer than the limit, no admission lies in the future, and no request without a token
   touches the database before the limiter has let it through. *)
THEOREM AdmissionIsTyped == AdmissionSpec => []AdmissionTypeOK
<1>1. AdmissionIInv => AdmissionTypeOK
  BY DEF AdmissionIInv, LimiterIInv, PrincipalIInv, AdmissionTypeOK
<1> QED
  BY <1>1, AdmissionInvariant, PTL

(* However the transactions of the requests interleave, fail and commit: the development
   user belongs to the development tenant that was committed first. *)
THEOREM AdmissionUserOwnsFirstTenant == AdmissionSpec => []UserOwnsFirstTenant
<1>1. AdmissionIInv => UserOwnsFirstTenant
  BY DEF AdmissionIInv, PrincipalIInv
<1> QED
  BY <1>1, AdmissionInvariant, PTL

(* A client that is refused has used up its limit in the window that ends now, and the
   Retry-After it is given is right to a second. *)
THEOREM AdmissionRefusalIsJust == AdmissionSpec => []RefusalIsJust
<1>1. AdmissionIInv => RefusalIsJust
  BY RefusedIsJust DEF AdmissionIInv
<1> QED
  BY <1>1, AdmissionInvariant, PTL
-----------------------------------------------------------------------------
\* The refinement: a refused call changes nothing the promise is about.
LEMMA InitWindow == AdmissionInit => Promise!Init
BY DEF AdmissionInit, LimiterInit, Promise!Init

LEMMA AllowedIsPromised ==
  ASSUME LimiterIInv, NEW c \in Clients, Allow(c)
  PROVE  Promise!Admit(c) \/ UNCHANGED <<now, admitted>>
<1>1. CASE Admit(c)
  <2>1. Promise!InWindow(admitted[c], now) < Limit
    BY <1>1, FreshIsCounted DEF Admit
  <2> QED
    BY <1>1, <2>1 DEF Admit, Promise!Admit
<1>2. CASE Refuse(c)
  BY <1>2 DEF Refuse
<1> QED
  BY <1>1, <1>2 DEF Allow

LEMMA NextWindow ==
  AdmissionIInv /\ [AdmissionNext]_admissionVars => [Promise!Next]_<<now, admitted>>
<1> SUFFICES ASSUME AdmissionIInv, [AdmissionNext]_admissionVars
             PROVE  [Promise!Next]_<<now, admitted>>
  OBVIOUS
<1>1. LimiterIInv
  BY DEF AdmissionIInv
<1>2. CASE Tick
  BY <1>1, <1>2, LimiterAssumption
     DEF Tick, LimiterIInv, LimiterTypeOK, Promise!Next, Promise!Tick
<1>3. ASSUME NEW c \in Clients, Allow(c)
      PROVE  [Promise!Next]_<<now, admitted>>
  BY <1>1, <1>3, AllowedIsPromised DEF Promise!Next
<1>4. CASE UNCHANGED limiterVars
  BY <1>4 DEF limiterVars
<1> QED
  BY <1>2, <1>3, <1>4, AdmissionAssumption
     DEF AdmissionNext, DispatchWithToken, Dispatch, Call, Allow, admissionVars

(* Popping events off the deques and compacting the table implement the count over all
   admissions: a client is admitted only while fewer than Limit of them are in the window. *)
THEOREM AdmissionImplementsWindow == AdmissionSpec => ImplementsWindow
BY AdmissionInvariant, InitWindow, NextWindow, PTL
   DEF AdmissionSpec, ImplementsWindow, Promise!Spec
=============================================================================
