----------------------------- MODULE Alignment -----------------------------
(***************************************************************************)
(* What becomes of the transcripts of one recording: attach_speakers of    *)
(* app.engines.diarization, then TranscriptAligner.align of                *)
(* app.engines.alignment, which sorts the segments of all transcripts and  *)
(* places them one by one into groups. A batch job runs both, the          *)
(* finalization of a stream runs align alone, on the transcripts of all    *)
(* its chunks; their timestamps count from the start of each chunk.        *)
(*                                                                         *)
(* Texts are left out: no step of the grouping reads them.                 *)
(***************************************************************************)
EXTENDS Integers, Sequences, FiniteSetsExt

CONSTANTS
  Inputs,          \* the segments of all transcripts of one call, and the turns of the
                   \* diarization; <<>> also stands for a call without diarizer
  Speakers,
  MinimumOverlap,
  ChunkLength,     \* the duration of a chunk of a stream
  None

Segment == [engine : Nat, chunk : Nat, start : Nat, end : Nat]
Turn == [start : Nat, end : Nat, speaker : Speakers, confidence : Nat]

ASSUME AlignmentAssumption ==
  /\ \A input \in Inputs :
       /\ IsFiniteSet(input.segments)
       /\ \A s \in input.segments : s \in Segment /\ s.start <= s.end
       /\ input.turns \in Seq(Turn)
  /\ MinimumOverlap \in Nat
  /\ ChunkLength \in Nat
  /\ None \notin Speakers

VARIABLES
  segments,    \* flattened
  turns,       \* diarization.segments
  speaker,     \* SegmentResult.speaker
  left,        \* the segments the loop of align has not reached
  groups,
  result,      \* AlignmentResult.segments, the members of each in groups
  pc

vars == <<segments, turns, speaker, left, groups, result, pc>>

\* _overlap_ms
Overlap(a, b) == Max({0, Min({a.end, b.end}) - Max({a.start, b.start})})

Init ==
  /\ \E input \in Inputs : segments = input.segments /\ turns = input.turns
  /\ speaker = [s \in segments |-> None]
  /\ left = segments
  /\ groups = <<>>
  /\ result = <<>>
  /\ pc = "enrich"
-----------------------------------------------------------------------------
\* Mutant: a turn need not overlap the segment.
AttachedSpeakerOfAny(s) ==
  IF turns = <<>> THEN None
  ELSE turns[CHOOSE i \in DOMAIN turns :
               \A j \in DOMAIN turns : Overlap(s, turns[i]) >= Overlap(s, turns[j])].speaker

\* max over the turns that overlap the segment: the longest overlap, then the highest
\* confidence, then the first.
AttachedSpeaker(s) ==
  LET heard == {i \in DOMAIN turns : Overlap(s, turns[i]) > 0}
      Beats(i, j) ==
        \/ Overlap(s, turns[i]) > Overlap(s, turns[j])
        \/ /\ Overlap(s, turns[i]) = Overlap(s, turns[j])
           /\ \/ turns[i].confidence > turns[j].confidence
              \/ turns[i].confidence = turns[j].confidence /\ i < j
  IN  IF heard = {} THEN None
      ELSE turns[CHOOSE i \in heard : \A j \in heard \ {i} : Beats(i, j)].speaker

Enrich ==
  /\ pc = "enrich"
  /\ pc' = "group"
  /\ speaker' = [s \in segments |-> AttachedSpeaker(s)]
  /\ UNCHANGED <<segments, turns, left, groups, result>>

\* Mutant: sorted by end first.
BeforeByEnd(s, t) ==
  \/ s.end < t.end
  \/ s.end = t.end /\ s.start < t.start
  \/ s.end = t.end /\ s.start = t.start /\ s.engine < t.engine
  \/ s.end = t.end /\ s.start = t.start /\ s.engine = t.engine /\ s.chunk < t.chunk

\* The order of flattened.sort; equal keys keep the order of the transcripts.
Before(s, t) ==
  \/ s.start < t.start
  \/ s.start = t.start /\ s.end < t.end
  \/ s.start = t.start /\ s.end = t.end /\ s.engine < t.engine
  \/ s.start = t.start /\ s.end = t.end /\ s.engine = t.engine /\ s.chunk < t.chunk

Reached(s) == pc = "group" /\ s \in left /\ \A t \in left \ {s} : Before(s, t)

\* Mutant: a segment joins a group only when it overlaps all of it.
MatchingAll(s) ==
  {i \in DOMAIN groups : \A other \in groups[i] : Overlap(s, other) >= MinimumOverlap}

Matching(s) ==
  {i \in DOMAIN groups : \E other \in groups[i] : Overlap(s, other) >= MinimumOverlap}

StartGroup(s) ==
  /\ Reached(s)
  /\ Matching(s) = {}
  /\ groups' = Append(groups, {s})
  /\ left' = left \ {s}
  /\ UNCHANGED <<segments, turns, speaker, result, pc>>

\* The first matching group takes the segment and the other matching groups.
JoinGroup(s) ==
  /\ Reached(s)
  /\ Matching(s) # {}
  /\ LET primary == Min(Matching(s))
         secondary == {groups[i] : i \in Matching(s) \ {primary}}
         merged == [groups EXCEPT ![primary] = @ \cup {s} \cup UNION secondary]
     IN  groups' = IF secondary = {} THEN merged
                   ELSE SelectSeq(merged, LAMBDA group : group \notin secondary)
  /\ left' = left \ {s}
  /\ UNCHANGED <<segments, turns, speaker, result, pc>>

\* max(set(speakers), key=speakers.count): a set of strings has no fixed order, each of
\* the most frequent speakers may come first.
Majority(group) ==
  LET named == {speaker[s] : s \in group} \ {None}
      Count(v) == Cardinality({s \in group : speaker[s] = v})
  IN  IF named = {} THEN {None}
      ELSE {v \in named : \A w \in named : Count(v) >= Count(w)}

Finish ==
  /\ pc = "group" /\ left = {}
  /\ pc' = "done"
  /\ \E voice \in [DOMAIN groups -> Speakers \cup {None}] :
       /\ \A i \in DOMAIN groups : voice[i] \in Majority(groups[i])
       /\ result' = [i \in DOMAIN groups |->
                       [start |-> Min({s.start : s \in groups[i]}),
                        end |-> Max({s.end : s \in groups[i]}),
                        speaker |-> voice[i]]]
  /\ UNCHANGED <<segments, turns, speaker, left, groups>>

Next == Enrich \/ (\E s \in segments : StartGroup(s) \/ JoinGroup(s)) \/ Finish

Spec == Init /\ [][Next]_vars
-----------------------------------------------------------------------------
(* Placing the segments one by one gives the connected components of the overlap
   relation, every candidate in exactly one of them: two segments that overlap share a
   group, and no group falls into two parts that do not overlap. *)
GroupsAreComponents ==
  /\ UNION {groups[i] : i \in DOMAIN groups} = segments \ left
  /\ \A i, j \in DOMAIN groups : i # j =>
       /\ groups[i] \cap groups[j] = {}
       /\ \A s \in groups[i], t \in groups[j] : Overlap(s, t) < MinimumOverlap
  /\ \A i \in DOMAIN groups : \A part \in (SUBSET groups[i]) \ {{}, groups[i]} :
       \E s \in part, t \in groups[i] \ part : Overlap(s, t) >= MinimumOverlap

(* The aligned segments are in the order of time, and the spans of two of them overlap
   by less than the minimum: the aligner hands on one segment for each stretch of
   speech. *)
ResultIsChronological ==
  \A i, j \in DOMAIN result : i < j =>
    /\ result[i].start <= result[j].start
    /\ Overlap(result[i], result[j]) < MinimumOverlap

(* An aligned segment names a speaker who is heard during it, and none only when nobody
   is heard during any of its candidates. *)
SpeakerIsHeard ==
  \A i \in DOMAIN result :
    IF result[i].speaker = None
    THEN \A s \in groups[i], j \in DOMAIN turns : Overlap(s, turns[j]) = 0
    ELSE \E j \in DOMAIN turns :
           turns[j].speaker = result[i].speaker /\ Overlap(result[i], turns[j]) > 0

(* Coordinates remain tied to the time line of the source: the candidates of an aligned
   segment of a stream overlap one another in the stream. *)
GroupsFollowTheStream ==
  LET Streamed(s) == [start |-> s.chunk * ChunkLength + s.start,
                      end |-> s.chunk * ChunkLength + s.end]
  IN  \A i \in DOMAIN groups : \A part \in (SUBSET groups[i]) \ {{}, groups[i]} :
        \E s \in part, t \in groups[i] \ part :
          Overlap(Streamed(s), Streamed(t)) >= MinimumOverlap
=============================================================================
