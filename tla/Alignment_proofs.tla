-------------------------- MODULE Alignment_proofs --------------------------
(***************************************************************************)
(* Proofs about Alignment, for any transcripts, turns and minimum overlap. *)
(***************************************************************************)
EXTENDS Alignment, SequenceLemmas

\* Intervals on the time line.
Interval(a) == a.start \in Nat /\ a.end \in Nat /\ a.start <= a.end
Overlaps(a, b) == Overlap(a, b) >= MinimumOverlap

\* The member of a group that starts first, and the one that ends last.
Opens(f, group) == f \in group /\ \A t \in group : f.start <= t.start
Closes(l, group) == l \in group /\ \A t \in group : t.end <= l.end

Connected(group) ==
  \A part \in (SUBSET group) \ {{}, group} :
    \E s \in part, t \in group \ part : Overlap(s, t) >= MinimumOverlap

Apart(group, other) ==
  /\ group \cap other = {}
  /\ \A s \in group, t \in other : Overlap(s, t) < MinimumOverlap

\* A later group starts later, and at most one of the two goes on longer than the minimum
\* after its start.
Precedes(group, later) ==
  \E f \in later :
    /\ Opens(f, later)
    /\ \E a \in group : a.start <= f.start
    /\ \/ \A a \in group : a.end < f.start + MinimumOverlap
       \/ \A b \in later : b.end < f.start + MinimumOverlap

Types ==
  /\ segments \in SUBSET {s \in Segment : s.start <= s.end}
  /\ turns \in Seq(Turn)
  /\ left \in SUBSET segments
  /\ groups \in Seq(SUBSET segments)
  /\ pc \in {"enrich", "group", "done"}

\* A candidate names a speaker who is heard during it, and none when nobody is.
Spoken ==
  pc # "enrich" =>
    \A s \in segments :
      IF speaker[s] = None
      THEN \A j \in DOMAIN turns : Overlap(s, turns[j]) = 0
      ELSE \E j \in DOMAIN turns : turns[j].speaker = speaker[s] /\ Overlap(s, turns[j]) > 0

\* What is placed comes before what is left.
PlacedFirst ==
  \A i \in DOMAIN groups : \A s \in groups[i], t \in left : s.start <= t.start

Spans == \A i \in DOMAIN groups :
  (\E f \in groups[i] : Opens(f, groups[i])) /\ (\E l \in groups[i] : Closes(l, groups[i]))

Chronological == \A i, j \in DOMAIN groups : i < j => Precedes(groups[i], groups[j])

GroupingIInv ==
  /\ Types
  /\ Spoken
  /\ PlacedFirst
  /\ Spans
  /\ Chronological
  /\ GroupsAreComponents

Results ==
  /\ pc # "done" => result = <<>>
  /\ ResultIsChronological
  /\ SpeakerIsHeard

AlignmentIInv == GroupingIInv /\ Results
-----------------------------------------------------------------------------
LEMMA MaxOfTwo ==
  ASSUME NEW a \in Int, NEW b \in Int
  PROVE  Max({a, b}) = IF a >= b THEN a ELSE b
BY DEF Max

LEMMA MinOfTwo ==
  ASSUME NEW a \in Int, NEW b \in Int
  PROVE  Min({a, b}) = IF a <= b THEN a ELSE b
BY DEF Min

LEMMA OverlapValue ==
  ASSUME NEW a, Interval(a), NEW b, Interval(b)
  PROVE  /\ Overlap(a, b) \in Nat
         /\ \A k \in Int :
              Overlap(a, b) >= k <=>
                \/ k <= 0
                \/ /\ a.end - a.start >= k /\ a.end - b.start >= k
                   /\ b.end - b.start >= k /\ b.end - a.start >= k
<1> DEFINE from == IF a.start >= b.start THEN a.start ELSE b.start
           to == IF a.end <= b.end THEN a.end ELSE b.end
<1>1. /\ a.start \in Nat /\ b.start \in Nat /\ a.end \in Nat /\ b.end \in Nat
      /\ a.start <= a.end /\ b.start <= b.end
  BY DEF Interval
<1>2. Max({a.start, b.start}) = from /\ Min({a.end, b.end}) = to
  BY <1>1, MaxOfTwo, MinOfTwo
<1>3. Max({0, to - from}) = IF 0 >= to - from THEN 0 ELSE to - from
  BY <1>1, MaxOfTwo
<1>4. Overlap(a, b) = IF 0 >= to - from THEN 0 ELSE to - from
  BY <1>2, <1>3 DEF Overlap
<1> QED
  BY <1>1, <1>4

\* Whatever its ends are: a turn of the diarization may be empty.
LEMMA OverlapNatural ==
  ASSUME NEW a, NEW b, a.start \in Int, a.end \in Int, b.start \in Int, b.end \in Int
  PROVE  Overlap(a, b) \in Nat
<1>1. Max({a.start, b.start}) \in Int /\ Min({a.end, b.end}) \in Int
  BY MaxOfTwo, MinOfTwo
<1>2. \A k \in Int : Max({0, k}) \in Nat
  BY MaxOfTwo
<1>3. Max({0, Min({a.end, b.end}) - Max({a.start, b.start})}) \in Nat
  BY <1>1, <1>2
<1> QED
  BY <1>3 DEF Overlap

LEMMA OverlapPositive ==
  ASSUME NEW a, NEW b, a.start \in Int, a.end \in Int, b.start \in Int, b.end \in Int
  PROVE  Overlap(a, b) > 0 <=>
           a.end > a.start /\ a.end > b.start /\ b.end > b.start /\ b.end > a.start
<1> DEFINE from == IF a.start >= b.start THEN a.start ELSE b.start
           to == IF a.end <= b.end THEN a.end ELSE b.end
<1>1. Max({a.start, b.start}) = from /\ Min({a.end, b.end}) = to
  BY MaxOfTwo, MinOfTwo
<1>2. Max({0, to - from}) = IF 0 >= to - from THEN 0 ELSE to - from
  BY MaxOfTwo
<1>3. Overlap(a, b) = IF 0 >= to - from THEN 0 ELSE to - from
  BY <1>1, <1>2 DEF Overlap
<1> QED
  BY <1>3

LEMMA OverlapsMeans ==
  ASSUME NEW a, Interval(a), NEW b, Interval(b)
  PROVE  /\ Overlaps(a, b) <=>
              \/ MinimumOverlap = 0
              \/ /\ a.end - a.start >= MinimumOverlap /\ a.end - b.start >= MinimumOverlap
                 /\ b.end - b.start >= MinimumOverlap /\ b.end - a.start >= MinimumOverlap
         /\ Overlaps(a, b) <=> Overlaps(b, a)
         /\ Overlaps(a, b) <=> ~ (Overlap(a, b) < MinimumOverlap)
<1>1. MinimumOverlap \in Nat
  BY AlignmentAssumption
<1>2. Overlap(a, b) \in Nat /\ Overlap(b, a) \in Nat
  BY OverlapValue
<1>3. \A k \in Int : Overlap(a, b) >= k <=>
        \/ k <= 0
        \/ /\ a.end - a.start >= k /\ a.end - b.start >= k
           /\ b.end - b.start >= k /\ b.end - a.start >= k
  BY OverlapValue
<1>4. \A k \in Int : Overlap(b, a) >= k <=>
        \/ k <= 0
        \/ /\ b.end - b.start >= k /\ b.end - a.start >= k
           /\ a.end - a.start >= k /\ a.end - b.start >= k
  BY OverlapValue
<1> QED
  BY <1>1, <1>2, <1>3, <1>4 DEF Overlaps

\* A group is made of candidates that were placed before s.
Earlier(group, s) == \A a \in group : Interval(a) /\ a.start <= s.start

LEMMA NewGroup ==
  ASSUME NEW s, Interval(s)
  PROVE  Opens(s, {s}) /\ Closes(s, {s}) /\ Connected({s})
<1>1. Opens(s, {s}) /\ Closes(s, {s})
  BY DEF Interval, Opens, Closes
<1>2. ASSUME NEW part \in SUBSET {s}, part # {}, part # {s}
      PROVE  FALSE
  BY <1>2
<1> QED
  BY <1>1, <1>2 DEF Connected

\* A candidate that overlaps nothing of a group comes after it.
LEMMA NewGroupFollows ==
  ASSUME NEW s, Interval(s), NEW group, Earlier(group, s), group # {}, s \notin group,
         \A a \in group : ~ Overlaps(s, a)
  PROVE  Precedes(group, {s}) /\ Apart(group, {s}) /\ Apart({s}, group)
<1>1. \A a \in group : Interval(a) /\ a.start <= s.start
  BY DEF Earlier
<1>2. \A a \in group : Overlap(s, a) < MinimumOverlap /\ Overlap(a, s) < MinimumOverlap
  BY <1>1, OverlapsMeans
<1>3. Apart(group, {s}) /\ Apart({s}, group)
  BY <1>2 DEF Apart
<1>4. ASSUME NEW a \in group
      PROVE  s.end < s.start + MinimumOverlap \/ a.end < s.start + MinimumOverlap
  <2>1. Interval(a) /\ a.start <= s.start /\ ~ Overlaps(s, a)
    BY <1>1
  <2> QED
    BY <2>1, OverlapsMeans, AlignmentAssumption DEF Interval
<1>5. Opens(s, {s}) /\ s \in {s} /\ \A b \in {s} : b = s
  BY NewGroup
<1>6. \E a \in group : a.start <= s.start
  BY <1>1
<1>7. Precedes(group, {s})
  BY <1>4, <1>5, <1>6 DEF Precedes
<1> QED
  BY <1>3, <1>7

\* A candidate that overlaps a member of a group keeps the group in one piece.
LEMMA GroupGrows ==
  ASSUME NEW s, Interval(s), NEW group, Earlier(group, s), s \notin group,
         NEW b \in group, Overlaps(s, b), Connected(group),
         NEW f, Opens(f, group), NEW l, Closes(l, group)
  PROVE  /\ \E m \in group \cup {s} : Opens(m, group \cup {s})
         /\ \E m \in group \cup {s} : Closes(m, group \cup {s})
         /\ Connected(group \cup {s})
<1>1. Interval(b) /\ Overlaps(b, s)
  BY OverlapsMeans DEF Earlier
<1>2. Opens(f, group \cup {s})
  BY DEF Opens, Earlier
<1>3. Closes(s, group \cup {s}) \/ Closes(l, group \cup {s})
  BY DEF Closes, Earlier, Interval
<1>4. ASSUME NEW part \in SUBSET (group \cup {s}), part \notin {{}, group \cup {s}}
      PROVE  \E x \in part, y \in (group \cup {s}) \ part : Overlaps(x, y)
  <2>1. CASE part \cap group \in {{}, group}
    <3>1. CASE s \in part
      <4>1. part \cap group = {} /\ b \notin part
        BY <2>1, <3>1, <1>4
      <4> QED
        BY <3>1, <4>1
    <3>2. CASE s \notin part
      <4>1. part = group
        BY <2>1, <3>2, <1>4
      <4> QED
        BY <1>1, <3>2, <4>1
    <3> QED
      BY <3>1, <3>2
  <2>2. CASE part \cap group \notin {{}, group}
    <3>1. part \cap group \in (SUBSET group) \ {{}, group}
      <4>1. part \cap group # {} /\ part \cap group # group
        BY <2>2, Zenon
      <4>2. part \cap group \in SUBSET group
        OBVIOUS
      <4> QED
        BY <4>1, <4>2, Zenon
    <3>2. PICK x \in part \cap group, y \in group \ (part \cap group) : Overlaps(x, y)
      BY <3>1 DEF Connected, Overlaps
    <3> QED
      BY <3>2
  <2> QED
    BY <2>1, <2>2
<1>5. Connected(group \cup {s})
  BY <1>4, Zenon DEF Connected, Overlaps
<1> QED
  BY <1>2, <1>3, <1>5 DEF Opens, Closes

\* It stays apart from the other groups, and in its place among them.
LEMMA GroupsStayApart ==
  ASSUME NEW s, Interval(s), NEW group, NEW other, Earlier(other, s), s \notin other,
         Apart(group, other), \A t \in other : ~ Overlaps(s, t)
  PROVE  Apart(group \cup {s}, other)
BY OverlapsMeans DEF Earlier, Apart

LEMMA GroupsStayApartToo ==
  ASSUME NEW s, Interval(s), NEW group, NEW other, Earlier(other, s), s \notin other,
         Apart(other, group), \A t \in other : ~ Overlaps(s, t)
  PROVE  Apart(other, group \cup {s})
BY OverlapsMeans DEF Earlier, Apart

LEMMA LaterGrows ==
  ASSUME NEW s, Interval(s), NEW group, Earlier(group, s), NEW other, Earlier(other, s),
         NEW b \in group, Overlaps(s, b), Precedes(other, group)
  PROVE  Precedes(other, group \cup {s})
<1>1. PICK f \in group :
        /\ Opens(f, group)
        /\ \E a \in other : a.start <= f.start
        /\ \/ \A a \in other : a.end < f.start + MinimumOverlap
           \/ \A c \in group : c.end < f.start + MinimumOverlap
  BY DEF Precedes
<1>2. Opens(f, group \cup {s})
  BY <1>1 DEF Opens, Earlier
<1>3. Interval(b) /\ Interval(f) /\ f.start <= b.start /\ f.start <= s.start
  BY <1>1 DEF Opens, Earlier
<1>4. ~ (b.end < f.start + MinimumOverlap)
  BY <1>3, OverlapsMeans, AlignmentAssumption DEF Interval
<1> QED
  BY <1>1, <1>2, <1>4 DEF Precedes

LEMMA EarlierGrows ==
  ASSUME NEW s, Interval(s), NEW group, Earlier(group, s), NEW other, Earlier(other, s),
         NEW b \in group, Overlaps(s, b), MinimumOverlap > 0, Precedes(group, other)
  PROVE  Precedes(group \cup {s}, other)
<1>1. PICK f \in other :
        /\ Opens(f, other)
        /\ \E a \in group : a.start <= f.start
        /\ \/ \A a \in group : a.end < f.start + MinimumOverlap
           \/ \A c \in other : c.end < f.start + MinimumOverlap
  BY DEF Precedes
<1>2. Interval(b) /\ Interval(f) /\ f.start <= s.start
  BY <1>1 DEF Earlier
<1>3. ~ (b.end < f.start + MinimumOverlap)
  BY <1>2, OverlapsMeans, AlignmentAssumption DEF Interval
<1> QED
  BY <1>1, <1>3 DEF Precedes
-----------------------------------------------------------------------------
LEMMA Candidates ==
  ASSUME Types
  PROVE  /\ MinimumOverlap \in Nat
         /\ \A s \in segments : Interval(s)
         /\ Len(groups) \in Nat /\ DOMAIN groups = 1..Len(groups)
         /\ \A i \in DOMAIN groups : groups[i] \subseteq segments
<1>1. \A s \in segments : s \in Segment /\ s.start <= s.end
  BY DEF Types
<1>2. \A s \in segments : Interval(s)
  BY <1>1 DEF Interval, Segment
<1>3. Len(groups) \in Nat /\ DOMAIN groups = 1..Len(groups)
  BY LenProperties DEF Types
<1>4. \A i \in DOMAIN groups : groups[i] \in SUBSET segments
  BY <1>3, ElementOfSeq DEF Types
<1> QED
  BY <1>2, <1>3, <1>4, AlignmentAssumption

LEMMA ComponentsMeans ==
  GroupsAreComponents <=>
    /\ UNION {groups[i] : i \in DOMAIN groups} = segments \ left
    /\ \A i, j \in DOMAIN groups : i # j => Apart(groups[i], groups[j])
    /\ \A i \in DOMAIN groups : Connected(groups[i])
BY Zenon DEF GroupsAreComponents, Apart, Connected

\* What the loop reaches next starts after everything it has placed.
LEMMA ReachedIsNext ==
  ASSUME GroupingIInv, NEW s, Reached(s)
  PROVE  /\ s \in left /\ s \in segments /\ Interval(s) /\ pc = "group"
         /\ \A i \in DOMAIN groups : Earlier(groups[i], s) /\ s \notin groups[i]
         /\ \A i \in DOMAIN groups : groups[i] # {}
         /\ \A t \in left : s.start <= t.start
<1>1. s \in left /\ s \in segments /\ pc = "group" /\ \A t \in left \ {s} : Before(s, t)
  BY DEF Reached, GroupingIInv, Types
<1>2. \A t \in segments : Interval(t)
  BY Candidates DEF GroupingIInv
<1>3. \A i \in DOMAIN groups : groups[i] \subseteq segments \ left
  <2>1. UNION {groups[i] : i \in DOMAIN groups} = segments \ left
    BY ComponentsMeans DEF GroupingIInv
  <2> QED
    BY <2>1
<1>4. \A i \in DOMAIN groups : Earlier(groups[i], s) /\ s \notin groups[i]
  BY <1>1, <1>2, <1>3 DEF GroupingIInv, PlacedFirst, Earlier
<1>5. \A i \in DOMAIN groups : groups[i] # {}
  BY Zenon DEF GroupingIInv, Spans
<1>6. left \subseteq segments
  BY DEF GroupingIInv, Types
<1>7. ASSUME NEW t \in left
      PROVE  s.start <= t.start
  <2>1. Interval(s) /\ Interval(t) /\ (t = s \/ Before(s, t))
    BY <1>1, <1>2, <1>6
  <2> QED
    BY <2>1 DEF Before, Interval
<1> QED
  BY <1>1, <1>2, <1>4, <1>5, <1>7

\* Of two groups that match what starts last, both go on where it starts: they would
\* overlap each other. So the merging of groups is never needed.
LEMMA OneGroupMatches ==
  ASSUME GroupingIInv, NEW s, Reached(s), NEW i \in Matching(s), NEW j \in Matching(s)
  PROVE  i = j
<1> SUFFICES ASSUME i # j PROVE FALSE
  OBVIOUS
<1>1. i \in DOMAIN groups /\ j \in DOMAIN groups
  BY DEF Matching
<1>2. PICK a \in groups[i], b \in groups[j] : Overlaps(s, a) /\ Overlaps(s, b)
  BY DEF Matching, Overlaps
<1>3. /\ Interval(s) /\ Interval(a) /\ Interval(b)
      /\ a.start <= s.start /\ b.start <= s.start
  BY <1>1, ReachedIsNext DEF Earlier
<1>4. Overlaps(a, b)
  <2>1. CASE MinimumOverlap = 0
    BY <1>3, <2>1, OverlapsMeans
  <2>2. CASE MinimumOverlap # 0
    <3>1. /\ a.end - s.start >= MinimumOverlap /\ a.end - a.start >= MinimumOverlap
          /\ b.end - s.start >= MinimumOverlap /\ b.end - b.start >= MinimumOverlap
      BY <1>2, <1>3, <2>2, OverlapsMeans
    <3>2. a.end - b.start >= MinimumOverlap /\ b.end - a.start >= MinimumOverlap
      BY <1>3, <3>1, AlignmentAssumption DEF Interval
    <3> QED
      BY <1>3, <3>1, <3>2, OverlapsMeans
  <2> QED
    BY <2>1, <2>2
<1>5. Overlap(a, b) < MinimumOverlap
  BY <1>1, ComponentsMeans DEF GroupingIInv, Apart
<1> QED
  BY <1>3, <1>4, <1>5, OverlapsMeans

\* A group of its own, behind the others.
LEMMA StartGroupKeeps ==
  ASSUME GroupingIInv, NEW s, StartGroup(s)
  PROVE  GroupingIInv'
<1> DEFINE n == Len(groups) + 1
<1>1. Reached(s) /\ Matching(s) = {} /\ groups' = Append(groups, {s}) /\ left' = left \ {s}
      /\ segments' = segments /\ turns' = turns /\ speaker' = speaker /\ pc' = pc
  BY DEF StartGroup
<1>2. /\ s \in left /\ s \in segments /\ Interval(s) /\ pc = "group"
      /\ \A i \in DOMAIN groups : Earlier(groups[i], s) /\ s \notin groups[i]
      /\ \A i \in DOMAIN groups : groups[i] # {}
      /\ \A t \in left : s.start <= t.start
  BY <1>1, ReachedIsNext
<1>3. Types /\ Len(groups) \in Nat /\ DOMAIN groups = 1..Len(groups)
  BY Candidates DEF GroupingIInv
<1>4. /\ groups' \in Seq(SUBSET segments) /\ Len(groups') = n
      /\ \A i \in 1..Len(groups) : groups'[i] = groups[i]
      /\ groups'[n] = {s}
  BY <1>1, <1>2, <1>3, AppendProperties DEF Types
<1>5. DOMAIN groups' = 1..n
  BY <1>4, LenProperties
<1>6. \A i \in DOMAIN groups' : (i \in DOMAIN groups /\ i < n) \/ i = n
  BY <1>3, <1>5
<1>7. n \in DOMAIN groups' /\ DOMAIN groups \subseteq DOMAIN groups'
      /\ \A i \in DOMAIN groups : groups'[i] = groups[i] /\ ~ (n < i) /\ i # n
  BY <1>3, <1>4, <1>5
<1> HIDE DEF n
<1>8. \A i \in DOMAIN groups : \A a \in groups[i] : ~ Overlaps(s, a)
  BY <1>1 DEF Matching, Overlaps
<1>9. \A i \in DOMAIN groups :
        Precedes(groups[i], {s}) /\ Apart(groups[i], {s}) /\ Apart({s}, groups[i])
  BY <1>2, <1>8, NewGroupFollows
<1>10. Opens(s, {s}) /\ Closes(s, {s}) /\ Connected({s})
  BY <1>2, NewGroup
<1>11. Types'
  BY <1>1, <1>3, <1>4 DEF Types
<1>12. Spoken'
  BY <1>1 DEF GroupingIInv, Spoken
<1>13. PlacedFirst'
  <2> SUFFICES ASSUME NEW i \in DOMAIN groups', NEW a \in groups'[i], NEW t \in left \ {s}
               PROVE  a.start <= t.start
    BY <1>1 DEF PlacedFirst
  <2>1. CASE i \in DOMAIN groups
    BY <1>7, <2>1 DEF GroupingIInv, PlacedFirst
  <2>2. CASE i = n
    BY <1>2, <1>4, <2>2
  <2> QED
    BY <1>6, <2>1, <2>2
<1>14. Spans'
  BY <1>4, <1>6, <1>7, <1>10, Zenon DEF GroupingIInv, Spans
<1>15. Chronological'
  <2> SUFFICES ASSUME NEW i \in DOMAIN groups', NEW j \in DOMAIN groups', i < j
               PROVE  Precedes(groups'[i], groups'[j])
    BY DEF Chronological
  <2>1. CASE j \in DOMAIN groups
    <3>1. i \in DOMAIN groups
      BY <1>6, <1>7, <2>1
    <3> QED
      BY <1>7, <2>1, <3>1 DEF GroupingIInv, Chronological
  <2>2. CASE j = n
    <3>1. i \in DOMAIN groups
      BY <1>3, <1>5, <1>6, <2>2
    <3> QED
      BY <1>4, <1>7, <1>9, <2>2, <3>1
  <2> QED
    BY <1>6, <2>1, <2>2
<1>16. GroupsAreComponents'
  <2>1. UNION {groups'[i] : i \in DOMAIN groups'} = segments \ (left \ {s})
    <3>1. UNION {groups[i] : i \in DOMAIN groups} = segments \ left
      BY ComponentsMeans DEF GroupingIInv
    <3>2. {groups'[i] : i \in DOMAIN groups'} = {groups[i] : i \in DOMAIN groups} \cup {{s}}
      BY <1>4, <1>6, <1>7, Zenon
    <3>3. UNION {groups'[i] : i \in DOMAIN groups'}
            = (UNION {groups[i] : i \in DOMAIN groups}) \cup {s}
      BY <3>2
    <3> QED
      BY <1>2, <3>1, <3>3
  <2>2. \A i \in DOMAIN groups' : Connected(groups'[i])
    BY <1>4, <1>6, <1>7, <1>10, ComponentsMeans, Zenon DEF GroupingIInv
  <2>3. ASSUME NEW i \in DOMAIN groups', NEW j \in DOMAIN groups', i # j
        PROVE  Apart(groups'[i], groups'[j])
    <3>1. CASE i \in DOMAIN groups /\ j \in DOMAIN groups
      BY <1>7, <2>3, <3>1, ComponentsMeans DEF GroupingIInv
    <3>2. CASE i \in DOMAIN groups /\ j = n
      BY <1>4, <1>7, <1>9, <3>2, Zenon
    <3>3. CASE i = n /\ j \in DOMAIN groups
      BY <1>4, <1>7, <1>9, <3>3, Zenon
    <3> QED
      BY <1>6, <2>3, <3>1, <3>2, <3>3
  <2> QED
    BY <1>1, <2>1, <2>2, <2>3, ComponentsMeans, Zenon DEF GroupsAreComponents, Apart, Connected
<1> QED
  BY <1>11, <1>12, <1>13, <1>14, <1>15, <1>16 DEF GroupingIInv

\* Only the group that matches changes, and none goes.
LEMMA JoinsTheOne ==
  ASSUME GroupingIInv, NEW s, JoinGroup(s)
  PROVE  \E p \in DOMAIN groups :
           /\ Matching(s) = {p}
           /\ groups' = [groups EXCEPT ![p] = groups[p] \cup {s}]
<1>1. Reached(s) /\ Matching(s) # {}
  BY DEF JoinGroup
<1>2. PICK p : p \in Matching(s)
  BY <1>1
<1>3. p \in DOMAIN groups /\ p \in Int /\ Matching(s) = {p}
  BY <1>1, <1>2, OneGroupMatches, Candidates DEF Matching, GroupingIInv
<1>4. Min(Matching(s)) = p
  BY <1>3 DEF Min
<1>5. {groups[i] : i \in Matching(s) \ {Min(Matching(s))}} = {}
  BY <1>3, <1>4
<1>6. groups' = [groups EXCEPT ![p] = @ \cup {s} \cup UNION {}]
  BY <1>4, <1>5 DEF JoinGroup
<1>7. UNION {} = {}
  OBVIOUS
<1>8. groups[p] \cup {s} \cup UNION {} = groups[p] \cup {s}
  BY <1>7
<1> QED
  BY <1>3, <1>6, <1>8

LEMMA JoinGroupKeeps ==
  ASSUME GroupingIInv, NEW s, JoinGroup(s)
  PROVE  GroupingIInv'
<1>1. Reached(s) /\ left' = left \ {s}
      /\ segments' = segments /\ turns' = turns /\ speaker' = speaker /\ pc' = pc
  BY DEF JoinGroup
<1>2. /\ s \in left /\ s \in segments /\ Interval(s) /\ pc = "group"
      /\ \A i \in DOMAIN groups : Earlier(groups[i], s) /\ s \notin groups[i]
      /\ \A i \in DOMAIN groups : groups[i] # {}
      /\ \A t \in left : s.start <= t.start
  BY <1>1, ReachedIsNext
<1>3. Types /\ DOMAIN groups = 1..Len(groups) /\ Len(groups) \in Nat
      /\ \A i \in DOMAIN groups : groups[i] \subseteq segments
  BY Candidates DEF GroupingIInv
<1>4. PICK p \in DOMAIN groups :
        /\ Matching(s) = {p}
        /\ groups' = [groups EXCEPT ![p] = groups[p] \cup {s}]
  BY JoinsTheOne
<1> DEFINE grown == groups[p] \cup {s}
<1>5. /\ DOMAIN groups' = DOMAIN groups /\ groups'[p] = grown
      /\ \A i \in DOMAIN groups \ {p} : groups'[i] = groups[i]
  BY <1>3, <1>4 DEF Types
<1>6. groups' \in Seq(SUBSET segments)
  <2>1. groups \in Seq(SUBSET segments) /\ grown \in SUBSET segments
    BY <1>2, <1>3 DEF Types
  <2> QED
    BY <1>4, <2>1, ExceptSeq
<1>7. PICK b \in groups[p] : Overlaps(s, b)
  BY <1>4 DEF Matching, Overlaps
<1>8. \A i \in DOMAIN groups \ {p} : \A a \in groups[i] : ~ Overlaps(s, a)
  BY <1>4 DEF Matching, Overlaps
<1>9. /\ \A i, j \in DOMAIN groups : i # j => Apart(groups[i], groups[j])
      /\ \A i \in DOMAIN groups : Connected(groups[i])
      /\ UNION {groups[i] : i \in DOMAIN groups} = segments \ left
  BY ComponentsMeans DEF GroupingIInv
<1>10. /\ \E m \in grown : Opens(m, grown)
       /\ \E m \in grown : Closes(m, grown)
       /\ Connected(grown)
  <2>1. PICK f \in groups[p], l \in groups[p] : Opens(f, groups[p]) /\ Closes(l, groups[p])
    BY Zenon DEF GroupingIInv, Spans
  <2> QED
    BY <1>2, <1>7, <1>9, <2>1, GroupGrows
<1>11. Types' /\ Spoken'
  BY <1>1, <1>3, <1>6 DEF GroupingIInv, Types, Spoken
<1>12. PlacedFirst'
  <2> SUFFICES ASSUME NEW i \in DOMAIN groups, NEW a \in groups'[i], NEW t \in left \ {s}
               PROVE  a.start <= t.start
    BY <1>1, <1>5 DEF PlacedFirst
  <2>1. CASE a \in groups[i]
    BY <2>1 DEF GroupingIInv, PlacedFirst
  <2>2. CASE a = s
    BY <1>2, <2>2
  <2> QED
    BY <1>5, <2>1, <2>2
<1> HIDE DEF grown
<1>13. Spans'
  <2> SUFFICES ASSUME NEW i \in DOMAIN groups
               PROVE  /\ \E f \in groups'[i] : Opens(f, groups'[i])
                      /\ \E l \in groups'[i] : Closes(l, groups'[i])
    BY <1>5, Zenon DEF Spans
  <2>1. CASE i = p
    BY <1>5, <1>10, <2>1
  <2>2. CASE i # p
    BY <1>5, <2>2 DEF GroupingIInv, Spans
  <2> QED
    BY <2>1, <2>2
<1>14. Chronological'
  <2> SUFFICES ASSUME NEW i \in DOMAIN groups, NEW j \in DOMAIN groups, i < j
               PROVE  Precedes(groups'[i], groups'[j])
    BY <1>5 DEF Chronological
  <2>1. Precedes(groups[i], groups[j]) /\ i # j
    BY <1>3 DEF GroupingIInv, Chronological
  <2>2. MinimumOverlap > 0
    <3>1. PICK x \in groups[i], y \in groups[j] : Overlap(x, y) < MinimumOverlap
      BY <1>2, <1>9, <2>1 DEF Apart
    <3>2. Overlap(x, y) \in Nat
      BY <1>2, OverlapValue DEF Earlier
    <3> QED
      BY <3>1, <3>2, AlignmentAssumption
  <2>3. CASE i = p
    BY <1>2, <1>5, <1>7, <2>1, <2>2, <2>3, EarlierGrows DEF grown
  <2>4. CASE j = p
    BY <1>2, <1>5, <1>7, <2>1, <2>4, LaterGrows DEF grown
  <2>5. CASE i # p /\ j # p
    BY <1>5, <2>1, <2>5
  <2> QED
    BY <2>3, <2>4, <2>5
<1>15. GroupsAreComponents'
  <2>1. UNION {groups'[i] : i \in DOMAIN groups'} = segments \ (left \ {s})
    <3>1. ASSUME NEW a
          PROVE  (\E i \in DOMAIN groups : a \in groups'[i])
                   <=> (\E i \in DOMAIN groups : a \in groups[i]) \/ a = s
      BY <1>5 DEF grown
    <3>2. UNION {groups'[i] : i \in DOMAIN groups}
            = (UNION {groups[i] : i \in DOMAIN groups}) \cup {s}
      BY <3>1
    <3> QED
      BY <1>2, <1>5, <1>9, <3>2
  <2>2. \A i \in DOMAIN groups : Connected(groups'[i])
    BY <1>5, <1>9, <1>10
  <2>3. ASSUME NEW i \in DOMAIN groups, NEW j \in DOMAIN groups, i # j
        PROVE  Apart(groups'[i], groups'[j])
    <3>1. Apart(groups[i], groups[j])
      BY <1>9, <2>3
    <3>2. CASE i = p
      BY <1>2, <1>5, <1>8, <2>3, <3>1, <3>2, GroupsStayApart DEF grown
    <3>3. CASE j = p
      BY <1>2, <1>5, <1>8, <2>3, <3>1, <3>3, GroupsStayApartToo DEF grown
    <3>4. CASE i # p /\ j # p
      BY <1>5, <3>1, <3>4
    <3> QED
      BY <3>2, <3>3, <3>4
  <2> QED
    BY <1>1, <1>5, <2>1, <2>2, <2>3, Zenon DEF GroupsAreComponents, Apart, Connected
<1> QED
  BY <1>11, <1>12, <1>13, <1>14, <1>15 DEF GroupingIInv
-----------------------------------------------------------------------------
Beats(s, i, j) ==
  \/ Overlap(s, turns[i]) > Overlap(s, turns[j])
  \/ /\ Overlap(s, turns[i]) = Overlap(s, turns[j])
     /\ \/ turns[i].confidence > turns[j].confidence
        \/ turns[i].confidence = turns[j].confidence /\ i < j

Best(s, i, some) == i \in some /\ \A j \in some \ {i} : Beats(s, i, j)
HasBest(s, k) == \A some \in SUBSET (1..k) : some # {} => \E i \in some : Best(s, i, some)

LEMMA OneMoreTurn ==
  ASSUME NEW s, NEW k \in Nat \ {0}, HasBest(s, k - 1),
         \A i \in 1..k : Overlap(s, turns[i]) \in Nat /\ turns[i].confidence \in Nat
  PROVE  HasBest(s, k)
<1> SUFFICES ASSUME NEW some \in SUBSET (1..k), some # {}
             PROVE  \E i \in some : Best(s, i, some)
  BY DEF HasBest
<1>1. \A j \in 1..k : j # k => j \in 1..(k - 1) /\ j < k
  OBVIOUS
<1>2. some \ {k} \in SUBSET (1..(k - 1))
  BY <1>1
<1>3. CASE k \notin some
  BY <1>2, <1>3 DEF HasBest
<1>4. CASE some = {k}
  BY <1>4 DEF Best
<1>5. CASE k \in some /\ some # {k}
  <2>1. some \ {k} # {}
    BY <1>5
  <2>2. PICK i \in some \ {k} : Best(s, i, some \ {k})
    BY <1>2, <2>1, Zenon DEF HasBest
  <2>3. /\ \A j \in some : /\ j \in 1..k
                           /\ Overlap(s, turns[j]) \in Nat /\ turns[j].confidence \in Nat
        /\ i < k
    BY <1>1
  <2>4. \A j \in some \ {k, i} : Beats(s, i, j)
    BY <2>2 DEF Best
  <2>5. CASE Beats(s, i, k)
    BY <2>4, <2>5 DEF Best
  <2>6. CASE Beats(s, k, i)
    <3>1. ASSUME NEW j \in some \ {k}
          PROVE  Beats(s, k, j)
      BY <1>5, <2>3, <2>4, <2>6 DEF Beats
    <3> QED
      BY <1>5, <3>1 DEF Best
  <2> QED
    BY <1>5, <2>3, <2>5, <2>6 DEF Beats
<1> QED
  BY <1>3, <1>4, <1>5

\* Of several turns one beats all the others: the least number of turns of which none does
\* would not be the least.
LEMMA OneTurnBeats ==
  ASSUME NEW s, NEW n \in Nat,
         \A i \in 1..n : Overlap(s, turns[i]) \in Nat /\ turns[i].confidence \in Nat
  PROVE  HasBest(s, n)
<1> DEFINE Without == {k \in 0..n : ~ HasBest(s, k)}
<1>1. SUFFICES ASSUME Without # {} PROVE FALSE
  OBVIOUS
<1>2. PICK k \in Without : \A m \in Without : k <= m
  <2>1. Without \in SUBSET Nat
    OBVIOUS
  <2> HIDE DEF Without
  <2> QED
    BY <1>1, <2>1, LeastNatural
<1>3. k \in 0..n /\ ~ HasBest(s, k)
  OBVIOUS
<1>4. HasBest(s, 0)
  <2>1. 1..0 = {}
    OBVIOUS
  <2> QED
    BY <2>1, Zenon DEF HasBest
<1>5. k # 0
  BY <1>3, <1>4
<1>6. k \in Nat \ {0} /\ k - 1 \in 0..n /\ ~ (k <= k - 1)
  BY <1>3, <1>5
<1>7. HasBest(s, k - 1)
  BY <1>2, <1>6
<1>8. \A i \in 1..k : i \in 1..n
  BY <1>3
<1> QED
  BY <1>3, <1>6, <1>7, <1>8, OneMoreTurn

\* attach_speakers names a speaker of a turn that the candidate overlaps, if there is one.
LEMMA AttachedIsHeard ==
  ASSUME Types, NEW s \in segments
  PROVE  IF AttachedSpeaker(s) = None
         THEN \A j \in DOMAIN turns : Overlap(s, turns[j]) = 0
         ELSE \E j \in DOMAIN turns :
                turns[j].speaker = AttachedSpeaker(s) /\ Overlap(s, turns[j]) > 0
<1> DEFINE heard == {i \in DOMAIN turns : Overlap(s, turns[i]) > 0}
<1>1. Len(turns) \in Nat /\ DOMAIN turns = 1..Len(turns)
  BY LenProperties DEF Types
<1>2. \A i \in 1..Len(turns) : turns[i] \in Turn
  BY ElementOfSeq DEF Types
<1>3. \A i \in 1..Len(turns) :
        Overlap(s, turns[i]) \in Nat /\ turns[i].confidence \in Nat /\ turns[i].speaker # None
  <2> SUFFICES ASSUME NEW i \in 1..Len(turns)
               PROVE  /\ Overlap(s, turns[i]) \in Nat
                      /\ turns[i].confidence \in Nat /\ turns[i].speaker # None
    OBVIOUS
  <2>1. /\ turns[i].start \in Nat /\ turns[i].end \in Nat /\ turns[i].confidence \in Nat
        /\ turns[i].speaker \in Speakers
    BY <1>2 DEF Turn
  <2>2. Interval(s)
    BY Candidates
  <2> QED
    BY <2>1, <2>2, OverlapNatural, AlignmentAssumption DEF Interval
<1>4. CASE heard = {}
  <2>1. AttachedSpeaker(s) = None
    BY <1>4 DEF AttachedSpeaker
  <2>2. \A j \in DOMAIN turns : Overlap(s, turns[j]) = 0
    BY <1>1, <1>3, <1>4
  <2> QED
    BY <2>1, <2>2
<1>5. CASE heard # {}
  <2>1. HasBest(s, Len(turns)) /\ heard \in SUBSET (1..Len(turns))
    BY <1>1, <1>3, OneTurnBeats
  <2>2. PICK b \in heard : \A j \in heard \ {b} : Beats(s, b, j)
    BY <1>5, <2>1, Zenon DEF HasBest, Best
  <2> DEFINE first == CHOOSE i \in heard : \A j \in heard \ {i} : Beats(s, i, j)
  <2>3. first \in heard
    BY <2>2
  <2>4. AttachedSpeaker(s) = turns[first].speaker
    BY <1>5 DEF AttachedSpeaker, Beats
  <2> HIDE DEF first
  <2> QED
    BY <1>1, <1>3, <2>3, <2>4
<1> QED
  BY <1>4, <1>5

LEMMA InitGrouping == Init => AlignmentIInv
<1> SUFFICES ASSUME Init PROVE AlignmentIInv
  OBVIOUS
<1>1. /\ groups = <<>> /\ result = <<>> /\ pc = "enrich" /\ left = segments
      /\ DOMAIN <<>> = {} /\ <<>> \in Seq(SUBSET segments)
  BY EmptySeq DEF Init
<1>2. Types
  BY <1>1, AlignmentAssumption DEF Init, Types
<1>3. Spoken /\ PlacedFirst /\ Spans /\ Chronological
  BY <1>1 DEF Spoken, PlacedFirst, Spans, Chronological
<1>4. GroupsAreComponents
  <2>1. UNION {groups[i] : i \in DOMAIN groups} = segments \ left
    BY <1>1
  <2> QED
    BY <1>1, <2>1, ComponentsMeans, Zenon
<1>5. Results
  BY <1>1 DEF Results, ResultIsChronological, SpeakerIsHeard
<1> QED
  BY <1>2, <1>3, <1>4, <1>5 DEF AlignmentIInv, GroupingIInv

\* Groups and what is left stay.
LEMMA GroupsStay ==
  ASSUME GroupingIInv, UNCHANGED <<segments, turns, left, groups>>,
         pc' \in {"enrich", "group", "done"}, Spoken'
  PROVE  GroupingIInv'
<1>1. Types'
  BY DEF GroupingIInv, Types
<1>2. PlacedFirst'
  BY DEF GroupingIInv, PlacedFirst
<1>3. Spans'
  BY DEF GroupingIInv, Spans
<1>4. Chronological'
  BY DEF GroupingIInv, Chronological
<1>5. GroupsAreComponents'
  BY DEF GroupingIInv, GroupsAreComponents
<1> QED
  BY <1>1, <1>2, <1>3, <1>4, <1>5 DEF GroupingIInv

LEMMA EnrichKeeps ==
  ASSUME GroupingIInv, Enrich
  PROVE  GroupingIInv'
<1>1. Spoken'
  <2>1. \A s \in segments : speaker'[s] = AttachedSpeaker(s)
    BY DEF Enrich
  <2>2. segments' = segments /\ turns' = turns
    BY DEF Enrich
  <2> SUFFICES ASSUME NEW s \in segments
               PROVE  IF speaker'[s] = None
                      THEN \A j \in DOMAIN turns : Overlap(s, turns[j]) = 0
                      ELSE \E j \in DOMAIN turns :
                             turns[j].speaker = speaker'[s] /\ Overlap(s, turns[j]) > 0
    BY <2>2 DEF Spoken
  <2> QED
    BY <2>1, AttachedIsHeard DEF GroupingIInv
<1> QED
  BY <1>1, GroupsStay DEF Enrich

-----------------------------------------------------------------------------
\* The span of a group goes from its first member's start to its last member's end.
LEMMA SpanOfGroup ==
  ASSUME NEW group, \A s \in group : Interval(s), NEW f, Opens(f, group), NEW l, Closes(l, group)
  PROVE  /\ Min({s.start : s \in group}) = f.start
         /\ Max({s.end : s \in group}) = l.end
<1>1. Min({s.start : s \in group}) = f.start
  BY DEF Min, Opens, Interval
<1>2. Max({s.end : s \in group}) = l.end
  BY DEF Max, Closes, Interval
<1> QED
  BY <1>1, <1>2

\* What Finish makes of the groups.
LEMMA SpansAreResults ==
  ASSUME GroupingIInv, Finish
  PROVE  /\ DOMAIN result' = DOMAIN groups
         /\ \A i \in DOMAIN groups :
              /\ Interval(result'[i])
              /\ result'[i].speaker \in Majority(groups[i])
              /\ \A f \in groups[i] : Opens(f, groups[i]) => result'[i].start = f.start
              /\ \A l \in groups[i] : Closes(l, groups[i]) => result'[i].end = l.end
<1>1. PICK voice \in [DOMAIN groups -> Speakers \cup {None}] :
        /\ \A i \in DOMAIN groups : voice[i] \in Majority(groups[i])
        /\ result' = [i \in DOMAIN groups |->
                        [start |-> Min({s.start : s \in groups[i]}),
                         end |-> Max({s.end : s \in groups[i]}),
                         speaker |-> voice[i]]]
  BY DEF Finish
<1>2. \A i \in DOMAIN groups : \A s \in groups[i] : Interval(s)
  BY Candidates DEF GroupingIInv
<1> SUFFICES ASSUME NEW i \in DOMAIN groups
             PROVE  /\ Interval(result'[i])
                    /\ result'[i].speaker \in Majority(groups[i])
                    /\ \A f \in groups[i] : Opens(f, groups[i]) => result'[i].start = f.start
                    /\ \A l \in groups[i] : Closes(l, groups[i]) => result'[i].end = l.end
  BY <1>1
<1>3. /\ result'[i].start = Min({s.start : s \in groups[i]})
      /\ result'[i].end = Max({s.end : s \in groups[i]})
      /\ result'[i].speaker = voice[i]
  BY <1>1
<1>4. PICK f \in groups[i], l \in groups[i] : Opens(f, groups[i]) /\ Closes(l, groups[i])
  BY Zenon DEF GroupingIInv, Spans
<1>5. result'[i].start = f.start /\ result'[i].end = l.end
  BY <1>2, <1>3, <1>4, SpanOfGroup
<1>6. \A g \in groups[i] : Opens(g, groups[i]) => result'[i].start = g.start
  BY <1>2, <1>3, <1>4, SpanOfGroup, Zenon
<1>7. \A g \in groups[i] : Closes(g, groups[i]) => result'[i].end = g.end
  BY <1>2, <1>3, <1>4, SpanOfGroup, Zenon
<1>8. Interval(result'[i])
  BY <1>2, <1>4, <1>5 DEF Interval, Opens
<1> QED
  BY <1>1, <1>3, <1>6, <1>7, <1>8

LEMMA FinishIsChronological ==
  ASSUME GroupingIInv, Finish
  PROVE  ResultIsChronological'
<1> SUFFICES ASSUME NEW i \in DOMAIN groups, NEW j \in DOMAIN groups, i < j
             PROVE  /\ result'[i].start <= result'[j].start
                    /\ Overlap(result'[i], result'[j]) < MinimumOverlap
  BY SpansAreResults DEF ResultIsChronological
<1>1. /\ Precedes(groups[i], groups[j]) /\ Apart(groups[i], groups[j])
      /\ \A s \in segments : Interval(s)
      /\ groups[i] \subseteq segments /\ groups[j] \subseteq segments
  <2>1. i # j
    BY Candidates DEF GroupingIInv
  <2> QED
    BY <2>1, Candidates, ComponentsMeans DEF GroupingIInv, Chronological
<1>2. PICK g \in groups[i], k \in groups[i], l \in groups[j] :
        Opens(g, groups[i]) /\ Closes(k, groups[i]) /\ Closes(l, groups[j])
  BY Zenon DEF GroupingIInv, Spans
<1>3. PICK f \in groups[j] :
        /\ Opens(f, groups[j])
        /\ \E a \in groups[i] : a.start <= f.start
        /\ \/ \A a \in groups[i] : a.end < f.start + MinimumOverlap
           \/ \A b \in groups[j] : b.end < f.start + MinimumOverlap
  BY <1>1 DEF Precedes
<1>4. /\ Interval(result'[i]) /\ Interval(result'[j])
      /\ result'[i].start = g.start /\ result'[j].start = f.start
      /\ result'[i].end = k.end /\ result'[j].end = l.end
  BY <1>2, <1>3, SpansAreResults
<1>5. /\ Interval(g) /\ Interval(f) /\ g.start <= f.start
      /\ (k.end < f.start + MinimumOverlap \/ l.end < f.start + MinimumOverlap)
  BY <1>1, <1>2, <1>3 DEF Opens, Interval
<1>6. MinimumOverlap > 0
  <2>1. Overlap(g, f) < MinimumOverlap /\ Overlap(g, f) \in Nat
    BY <1>1, <1>2, <1>3, <1>5, OverlapValue DEF Apart
  <2> QED
    BY <2>1, AlignmentAssumption
<1>7. ~ Overlaps(result'[i], result'[j])
  <2>1. Overlaps(result'[i], result'[j]) =>
          \/ MinimumOverlap = 0
          \/ k.end - f.start >= MinimumOverlap /\ l.end - f.start >= MinimumOverlap
    BY <1>4, OverlapsMeans
  <2>2. f.start \in Nat /\ k.end \in Nat /\ l.end \in Nat /\ MinimumOverlap \in Nat
    BY <1>4, AlignmentAssumption DEF Interval
  <2> QED
    BY <1>5, <1>6, <2>1, <2>2
<1> QED
  BY <1>4, <1>5, <1>7, OverlapsMeans

LEMMA FinishNamesTheHeard ==
  ASSUME GroupingIInv, Finish
  PROVE  SpeakerIsHeard'
<1>1. groups' = groups /\ turns' = turns /\ pc = "group" /\ Types
  BY DEF Finish, GroupingIInv
<1> SUFFICES ASSUME NEW i \in DOMAIN groups
             PROVE  IF result'[i].speaker = None
                    THEN \A s \in groups[i], j \in DOMAIN turns : Overlap(s, turns[j]) = 0
                    ELSE \E j \in DOMAIN turns : /\ turns[j].speaker = result'[i].speaker
                                                 /\ Overlap(result'[i], turns[j]) > 0
  BY <1>1, SpansAreResults DEF SpeakerIsHeard
<1>2. /\ groups[i] \subseteq segments /\ \A s \in segments : Interval(s)
  BY <1>1, Candidates
<1>3. Spoken
  BY DEF GroupingIInv
<1>4. result'[i].speaker \in Majority(groups[i])
  BY SpansAreResults
<1>5. CASE result'[i].speaker = None
  <2>1. \A s \in groups[i] : speaker[s] = None
    BY <1>4, <1>5 DEF Majority
  <2> QED
    BY <1>1, <1>2, <1>3, <1>5, <2>1 DEF Spoken
<1>6. CASE result'[i].speaker # None
  <2>1. PICK s \in groups[i] : speaker[s] = result'[i].speaker
    BY <1>4, <1>6 DEF Majority
  <2>2. PICK j \in DOMAIN turns : turns[j].speaker = speaker[s] /\ Overlap(s, turns[j]) > 0
    BY <1>1, <1>2, <1>3, <1>6, <2>1 DEF Spoken
  <2>3. PICK f \in groups[i], l \in groups[i] : Opens(f, groups[i]) /\ Closes(l, groups[i])
    BY Zenon DEF GroupingIInv, Spans
  <2>4. result'[i].start = f.start /\ result'[i].end = l.end /\ Interval(result'[i])
    BY <2>3, SpansAreResults
  <2>5. f.start <= s.start /\ s.end <= l.end /\ Interval(s)
    BY <1>2, <2>3 DEF Opens, Closes
  <2>6. turns[j].start \in Nat /\ turns[j].end \in Nat
    <3>1. turns[j] \in Turn
      BY <1>1, LenProperties, ElementOfSeq DEF Types
    <3> QED
      BY <3>1 DEF Turn
  <2>7. s.end > s.start /\ s.end > turns[j].start
        /\ turns[j].end > turns[j].start /\ turns[j].end > s.start
    BY <2>2, <2>5, <2>6, OverlapPositive DEF Interval
  <2>8. Overlap(result'[i], turns[j]) > 0
    BY <2>4, <2>5, <2>6, <2>7, OverlapPositive DEF Interval
  <2> QED
    BY <1>6, <2>1, <2>2, <2>8
<1> QED
  BY <1>5, <1>6
-----------------------------------------------------------------------------
LEMMA StepKeeps ==
  ASSUME AlignmentIInv, [Next]_vars
  PROVE  AlignmentIInv'
<1>1. GroupingIInv /\ Results
  BY DEF AlignmentIInv
<1>2. CASE Enrich
  <2>1. Results'
    BY <1>1, <1>2 DEF Enrich, Results, ResultIsChronological, SpeakerIsHeard
  <2> QED
    BY <1>1, <1>2, <2>1, EnrichKeeps DEF AlignmentIInv
<1>3. ASSUME NEW s \in segments, StartGroup(s) \/ JoinGroup(s)
      PROVE  AlignmentIInv'
  <2>1. GroupingIInv'
    BY <1>1, <1>3, StartGroupKeeps, JoinGroupKeeps
  <2>2. pc = "group" /\ pc' = pc /\ result' = result
    BY <1>3 DEF StartGroup, JoinGroup, Reached
  <2>3. result' = <<>> /\ DOMAIN <<>> = {}
    BY <1>1, <2>2, EmptySeq DEF Results
  <2>4. Results'
    BY <2>2, <2>3 DEF Results, ResultIsChronological, SpeakerIsHeard
  <2> QED
    BY <2>1, <2>4 DEF AlignmentIInv
<1>4. CASE Finish
  <2>1. Spoken'
    BY <1>1, <1>4 DEF GroupingIInv, Spoken, Finish
  <2>2. GroupingIInv'
    BY <1>1, <1>4, <2>1, GroupsStay DEF Finish
  <2>3. pc' = "done"
    BY <1>4 DEF Finish
  <2> QED
    BY <1>1, <1>4, <2>2, <2>3, FinishIsChronological, FinishNamesTheHeard
       DEF AlignmentIInv, Results
<1>5. CASE UNCHANGED vars
  <2>1. Spoken' /\ pc' = pc /\ pc \in {"enrich", "group", "done"}
    BY <1>1, <1>5 DEF vars, GroupingIInv, Types, Spoken
  <2>2. GroupingIInv'
    BY <1>1, <1>5, <2>1, GroupsStay DEF vars
  <2>3. Results'
    BY <1>1, <1>5 DEF vars, Results, ResultIsChronological, SpeakerIsHeard
  <2> QED
    BY <2>2, <2>3 DEF AlignmentIInv
<1> QED
  BY <1>2, <1>3, <1>4, <1>5 DEF Next

\* Whatever the transcripts and the turns are, AlignmentIInv holds throughout.
THEOREM AlignmentInvariant == Spec => []AlignmentIInv
BY InitGrouping, StepKeeps, PTL DEF Spec

(* align puts two candidates into one group exactly when a chain of overlapping ones leads
   from one to the other, in whatever number and lengths engines return them. *)
THEOREM AlignmentGroupsAreComponents == Spec => []GroupsAreComponents
<1>1. AlignmentIInv => GroupsAreComponents
  BY DEF AlignmentIInv, GroupingIInv
<1> QED
  BY <1>1, AlignmentInvariant, PTL

(* The aligned segments come in the order of their starts, and no two of them overlap by
   the minimum, although the groups they span are only apart member by member. *)
THEOREM AlignmentResultIsChronological == Spec => []ResultIsChronological
<1>1. AlignmentIInv => ResultIsChronological
  BY DEF AlignmentIInv, Results
<1> QED
  BY <1>1, AlignmentInvariant, PTL

(* An aligned segment names a speaker of a turn that it overlaps, and none only when no
   turn overlaps any of its candidates. *)
THEOREM AlignmentSpeakerIsHeard == Spec => []SpeakerIsHeard
<1>1. AlignmentIInv => SpeakerIsHeard
  BY DEF AlignmentIInv, Results
<1> QED
  BY <1>1, AlignmentInvariant, PTL
=============================================================================
