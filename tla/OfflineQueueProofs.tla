--------------------------- MODULE OfflineQueueProofs ---------------------------
(***************************************************************************)
(* What the operators of OfflineQueue keep: the queue stays a queue, its   *)
(* size and the number of unacked frames stay within their caps, InFlight  *)
(* stays in order, and the frames of a round carry points under their own  *)
(* numbers.                                                                *)
(***************************************************************************)
EXTENDS OfflineQueue, FiniteSetTheorems, SequenceTheorems, TLAPS

\* Every caller keeps the caps of the queue: max_size, MAX_UNACKED_FRAMES.
Bounded(q) == Size(q) <= MaxQueue /\ Len(q.frames) <= Window

\* A queue is three lists.
LEMMA QueueParts ==
  ASSUME NEW q \in Queue
  PROVE  /\ q.staging \in Seq(Points) /\ q.inflight \in Seq(QueuedPoint)
         /\ q.frames \in Seq(Nat)
BY DEF Queue

\* The two lists that size() adds up.
Staged(q) == Len(q.staging)
Flying(q) == Len(q.inflight)

\* size() counts both lists.
LEMMA SizeIsSum ==
  ASSUME NEW q \in Queue
  PROVE  Staged(q) \in Nat /\ Flying(q) \in Nat /\ Size(q) = Staged(q) + Flying(q)
<1>1. q.staging \in Seq(Points) /\ q.inflight \in Seq(QueuedPoint)
  BY DEF Queue
<1>2. Staged(q) \in Nat /\ Flying(q) \in Nat
  BY <1>1 DEF Staged, Flying
<1>3. Size(q) = Staged(q) + Flying(q)
  BY Zenon DEF Size, Staged, Flying
<1> QED BY <1>2, <1>3

\* OfflineQueue::new and clear: an empty queue is within the caps.
LEMMA EmptyQueueBounded == EmptyQueue \in Queue /\ Bounded(EmptyQueue)
<1>1. EmptyQueue \in Queue
  BY DEF EmptyQueue, Queue
<1>2. Bounded(EmptyQueue)
  BY QueueAssumption DEF Bounded, EmptyQueue, Size, QueueAssumption
<1> QED BY <1>1, <1>2

\* retain and filter never make a list longer.
LEMMA RetainShortens ==
  ASSUME NEW S, NEW s \in Seq(S), NEW I \in SUBSET DOMAIN s
  PROVE  Retain(s, I) \in Seq(S) /\ Len(Retain(s, I)) <= Len(s)
<1>1. DOMAIN s = 1 .. Len(s) /\ Len(s) \in Nat
  OBVIOUS
<1>2. IsFiniteSet(I) /\ Cardinality(I) \in Nat /\ Cardinality(I) <= Len(s)
  <2>1. IsFiniteSet(1 .. Len(s)) /\ Cardinality(1 .. Len(s)) = Len(s)
    <3>1. /\ IsFiniteSet(1 .. Len(s))
          /\ Cardinality(1 .. Len(s)) = IF 1 > Len(s) THEN 0 ELSE Len(s) - 1 + 1
      <4>1. 1 \in Int /\ Len(s) \in Int
        BY <1>1
      <4> QED BY <4>1, FS_Interval, Zenon
    <3> QED BY <1>1, <3>1
  <2> QED BY <1>1, <2>1, FS_Subset, FS_CardinalityType
<1>3. ASSUME NEW j \in 1 .. Cardinality(I) PROVE s[Position(I, j)] \in S
  <2>1. I # {}
    BY <1>2, FS_EmptySet
  <2>2. \E i \in I : (\E k \in I : Rank(I, k) = j) => Rank(I, i) = j
    BY <2>1
  <2>3. Position(I, j) \in I
    BY <2>2 DEF Position
  <2> QED BY <1>1, <2>3
<1>4. Retain(s, I) \in Seq(S)
  BY <1>2, <1>3 DEF Retain
<1>5. Len(Retain(s, I)) = Cardinality(I)
  BY <1>2 DEF Retain
<1> QED BY <1>2, <1>4, <1>5

\* Vec::remove drops exactly one element.
LEMMA RemoveIndexShortens ==
  ASSUME NEW S, NEW s \in Seq(S), NEW i \in 1 .. Len(s)
  PROVE  RemoveIndex(s, i) \in Seq(S) /\ Len(RemoveIndex(s, i)) = Len(s) - 1
<1>1. Len(s) \in Nat /\ i \in Int /\ 1 <= i /\ i <= Len(s)
  OBVIOUS
<1>2. SubSeq(s, 1, i - 1) \in Seq(S) /\ Len(SubSeq(s, 1, i - 1)) = i - 1
  <2>1. \A k \in 1 .. i - 1 : s[k] \in S
    BY <1>1
  <2> QED BY <1>1, <2>1, SubSeqProperties
<1>3. SubSeq(s, i + 1, Len(s)) \in Seq(S) /\ Len(SubSeq(s, i + 1, Len(s))) = Len(s) - i
  <2>1. \A k \in i + 1 .. Len(s) : s[k] \in S
    BY <1>1
  <2> QED BY <1>1, <2>1, SubSeqProperties
<1> QED BY <1>1, <1>2, <1>3, ConcatProperties DEF RemoveIndex

\* enforce_cap brings a queue that is one point too long back to max_size.
LEMMA EnforceCapCaps ==
  ASSUME NEW q \in Queue, Size(q) <= MaxQueue + 1, NEW r \in EnforceCap(q)
  PROVE  r \in Queue /\ Size(r) <= MaxQueue /\ r.frames = q.frames
<1>1. /\ q.staging \in Seq(Points) /\ q.inflight \in Seq(QueuedPoint)
      /\ MaxQueue \in Nat /\ MaxQueue >= 1
  BY QueueAssumption DEF Queue, QueueAssumption
<1>2. Staged(q) \in Nat /\ Flying(q) \in Nat /\ Size(q) = Staged(q) + Flying(q)
  BY SizeIsSum
<1>3. CASE Size(q) <= MaxQueue
  BY <1>3 DEF EnforceCap
<1>4. CASE ~(Size(q) <= MaxQueue) /\ q.staging # <<>>
  <2>1. PICK i \in {1} \cup 2 .. (Len(q.staging) - 1) :
              r = [q EXCEPT !.staging = RemoveIndex(q.staging, i)]
    BY <1>4, Zenon DEF EnforceCap
  <2>2. i \in 1 .. Len(q.staging)
    BY <1>1, <1>4, EmptySeq
  <2>3. /\ RemoveIndex(q.staging, i) \in Seq(Points)
        /\ Len(RemoveIndex(q.staging, i)) = Len(q.staging) - 1
    BY <1>1, <2>2, RemoveIndexShortens
  <2>4. r \in Queue /\ r.staging = RemoveIndex(q.staging, i)
        /\ r.inflight = q.inflight /\ r.frames = q.frames
    BY <1>1, <2>1, <2>3, Zenon DEF Queue
  <2>5. Staged(r) = Staged(q) - 1 /\ Flying(r) = Flying(q)
    BY <2>3, <2>4 DEF Staged, Flying
  <2>6. Size(r) = Staged(r) + Flying(r)
    BY <2>4, SizeIsSum
  <2> QED BY <1>1, <1>2, <2>4, <2>5, <2>6
<1>5. CASE ~(Size(q) <= MaxQueue) /\ q.staging = <<>>
  <2>1. q.inflight # <<>>
    <3>1. Flying(q) # 0
      <4>1. Staged(q) = 0
        BY <1>5 DEF Staged
      <4> QED BY <1>1, <1>2, <1>5, <4>1
    <3> QED BY <3>1 DEF Flying
  <2>2. Tail(q.inflight) \in Seq(QueuedPoint) /\ Len(Tail(q.inflight)) = Len(q.inflight) - 1
    BY <1>1, <2>1, HeadTailProperties
  <2>3. r = [q EXCEPT !.inflight = Tail(q.inflight)]
    BY <1>5, Zenon DEF EnforceCap
  <2>4. r \in Queue /\ r.inflight = Tail(q.inflight)
        /\ r.staging = q.staging /\ r.frames = q.frames
    BY <1>1, <2>2, <2>3, Zenon DEF Queue
  <2>5. Staged(r) = Staged(q) /\ Flying(r) = Flying(q) - 1
    BY <2>2, <2>4 DEF Staged, Flying
  <2>6. Size(r) = Staged(r) + Flying(r)
    BY <2>4, SizeIsSum
  <2> QED BY <1>1, <1>2, <2>4, <2>5, <2>6
<1> QED BY <1>3, <1>4, <1>5

\* A staged point: the caps hold whatever the queue held before.
LEMMA PushStagingBounded ==
  ASSUME NEW q \in Queue, Bounded(q), NEW pt \in Points, NEW r \in PushStaging(q, pt)
  PROVE  r \in Queue /\ Bounded(r)
<1> DEFINE longer == [q EXCEPT !.staging = Append(q.staging, pt)]
<1>1. q.staging \in Seq(Points)
  BY QueueParts
<1>2. Append(q.staging, pt) \in Seq(Points)
      /\ Len(Append(q.staging, pt)) = Len(q.staging) + 1
  BY <1>1, AppendProperties
<1>3. longer \in Queue /\ longer.staging = Append(q.staging, pt)
      /\ longer.inflight = q.inflight /\ longer.frames = q.frames
  BY <1>2, Zenon DEF Queue
<1>4. r \in EnforceCap(longer)
  BY Zenon DEF PushStaging
<1> HIDE DEF longer
<1>5. Size(longer) <= MaxQueue + 1
  <2>1. Staged(longer) = Staged(q) + 1 /\ Flying(longer) = Flying(q)
    BY <1>2, <1>3 DEF Staged, Flying
  <2>2. Size(q) <= MaxQueue /\ MaxQueue \in Nat
    BY QueueAssumption DEF Bounded, QueueAssumption
  <2> QED BY <1>3, <2>1, <2>2, SizeIsSum
<1>6. r \in Queue /\ Size(r) <= MaxQueue /\ r.frames = longer.frames
  BY <1>3, <1>4, <1>5, EnforceCapCaps
<1> QED BY <1>3, <1>6 DEF Bounded

\* A live point may push out the oldest one, and takes no frame by itself.
LEMMA EnqueueBounded ==
  ASSUME NEW q \in Queue, Bounded(q), NEW seq \in Nat, NEW pt \in Points,
         NEW r \in Enqueue(q, seq, pt)
  PROVE  r \in Queue /\ Size(r) <= MaxQueue /\ r.frames = q.frames
<1> DEFINE e == [seq |-> seq, pt |-> pt, sent |-> TRUE]
           longer == [q EXCEPT !.inflight = Append(q.inflight, e)]
<1>1. q.inflight \in Seq(QueuedPoint)
  BY QueueParts
<1>2. e \in QueuedPoint
  BY DEF QueuedPoint
<1>3. r \in EnforceCap(longer)
  BY Zenon DEF Enqueue
<1> HIDE DEF e
<1>4. Append(q.inflight, e) \in Seq(QueuedPoint)
      /\ Len(Append(q.inflight, e)) = Len(q.inflight) + 1
  BY <1>1, <1>2, AppendProperties
<1>5. longer \in Queue /\ longer.inflight = Append(q.inflight, e)
      /\ longer.staging = q.staging /\ longer.frames = q.frames
  BY <1>4, Zenon DEF Queue
<1> HIDE DEF longer
<1>6. Size(longer) <= MaxQueue + 1
  <2>1. Staged(longer) = Staged(q) /\ Flying(longer) = Flying(q) + 1
    BY <1>4, <1>5 DEF Staged, Flying
  <2>2. Size(q) <= MaxQueue /\ MaxQueue \in Nat
    BY QueueAssumption DEF Bounded, QueueAssumption
  <2> QED BY <1>5, <2>1, <2>2, SizeIsSum
<1> QED BY <1>3, <1>5, <1>6, EnforceCapCaps

-----------------------------------------------------------------------------
\* mark_unsent and record_frame rewrite the sent flags of the same points.
LEMMA SentFlags ==
  ASSUME NEW s \in Seq(QueuedPoint), NEW flag \in [DOMAIN s -> BOOLEAN]
  PROVE  /\ [i \in DOMAIN s |-> [s[i] EXCEPT !.sent = flag[i]]] \in Seq(QueuedPoint)
         /\ Len([i \in DOMAIN s |-> [s[i] EXCEPT !.sent = flag[i]]]) = Len(s)
<1>1. DOMAIN s = 1 .. Len(s) /\ Len(s) \in Nat
  OBVIOUS
<1>2. \A i \in DOMAIN s : [s[i] EXCEPT !.sent = flag[i]] \in QueuedPoint
  <2>1. \A i \in DOMAIN s : s[i] \in QueuedPoint /\ flag[i] \in BOOLEAN
    BY <1>1
  <2> QED BY <2>1, Zenon DEF QueuedPoint
<1> DEFINE new(i) == [s[i] EXCEPT !.sent = flag[i]]
<1>3. \A i \in 1 .. Len(s) : new(i) \in QueuedPoint
  BY <1>1, <1>2
<1> HIDE DEF new
<1>4. [i \in 1 .. Len(s) |-> new(i)] \in Seq(QueuedPoint)
      /\ Len([i \in 1 .. Len(s) |-> new(i)]) = Len(s)
  BY <1>1, <1>3
<1> QED BY <1>1, <1>4 DEF new

\* A lost socket: the window is empty again, every point is still there.
LEMMA MarkUnsentBounded ==
  ASSUME NEW q \in Queue, Bounded(q)
  PROVE  MarkUnsent(q) \in Queue /\ Bounded(MarkUnsent(q))
<1> DEFINE s == q.inflight
           flag == [i \in DOMAIN s |-> FALSE]
           new == [i \in DOMAIN s |-> [s[i] EXCEPT !.sent = flag[i]]]
<1>1. s \in Seq(QueuedPoint) /\ q.staging \in Seq(Points)
  BY QueueParts
<1>2. new \in Seq(QueuedPoint) /\ Len(new) = Len(s)
  <2>1. flag \in [DOMAIN s -> BOOLEAN]
    OBVIOUS
  <2> HIDE DEF flag
  <2> QED BY <1>1, <2>1, SentFlags
<1>3. new = [i \in DOMAIN s |-> [s[i] EXCEPT !.sent = FALSE]]
  OBVIOUS
<1> HIDE DEF flag
<1>4. MarkUnsent(q) = [q EXCEPT !.inflight = new, !.frames = <<>>]
  BY <1>3, Zenon DEF MarkUnsent
<1> HIDE DEF new
<1>5. <<>> \in Seq(Nat) /\ Len(<<>>) = 0
  OBVIOUS
<1>6. MarkUnsent(q) \in Queue /\ MarkUnsent(q).inflight = new
      /\ MarkUnsent(q).staging = q.staging /\ MarkUnsent(q).frames = <<>>
  BY <1>2, <1>4, <1>5, Zenon DEF Queue
<1>7. Staged(MarkUnsent(q)) = Staged(q) /\ Flying(MarkUnsent(q)) = Flying(q)
  BY <1>2, <1>6 DEF Staged, Flying
<1>8. Size(MarkUnsent(q)) = Size(q)
  BY <1>6, <1>7, SizeIsSum
<1> QED BY <1>5, <1>6, <1>8, QueueAssumption DEF Bounded, QueueAssumption

\* record_frame only sets flags of the in-flight points.
LEMMA SentThroughType ==
  ASSUME NEW s \in Seq(QueuedPoint), NEW seqs
  PROVE  SentThrough(s, seqs) \in Seq(QueuedPoint) /\ Len(SentThrough(s, seqs)) = Len(s)
<1> DEFINE flag == [i \in DOMAIN s |-> s[i].sent \/ \E k \in DOMAIN seqs : s[i].seq <= seqs[k]]
<1>1. \A i \in DOMAIN s : s[i] \in QueuedPoint
  OBVIOUS
<1>2. flag \in [DOMAIN s -> BOOLEAN]
  BY <1>1, Zenon DEF QueuedPoint
<1>3. SentThrough(s, seqs) = [i \in DOMAIN s |-> [s[i] EXCEPT !.sent = flag[i]]]
  BY Zenon DEF SentThrough
<1> HIDE DEF flag
<1> QED BY <1>2, <1>3, SentFlags

\* record_frame adds its frames to the window and keeps every point.
LEMMA RecordFramesAdds ==
  ASSUME NEW q \in Queue, NEW seqs \in Seq(Nat)
  PROVE  /\ RecordFrames(q, seqs) \in Queue
         /\ Size(RecordFrames(q, seqs)) = Size(q)
         /\ Len(RecordFrames(q, seqs).frames) = Len(q.frames) + Len(seqs)
<1> DEFINE new == SentThrough(q.inflight, seqs)
           r == RecordFrames(q, seqs)
<1>1. q.inflight \in Seq(QueuedPoint) /\ q.staging \in Seq(Points) /\ q.frames \in Seq(Nat)
  BY QueueParts
<1>2. new \in Seq(QueuedPoint) /\ Len(new) = Len(q.inflight)
  BY <1>1, SentThroughType
<1>3. r = [q EXCEPT !.frames = q.frames \o seqs, !.inflight = new]
  BY Zenon DEF RecordFrames
<1> HIDE DEF new, r
<1>4. q.frames \o seqs \in Seq(Nat) /\ Len(q.frames \o seqs) = Len(q.frames) + Len(seqs)
  BY <1>1, ConcatProperties
<1>5. r \in Queue /\ r.inflight = new /\ r.staging = q.staging /\ r.frames = q.frames \o seqs
  BY <1>2, <1>3, <1>4, Zenon DEF Queue
<1>6. Staged(r) = Staged(q) /\ Flying(r) = Flying(q)
  BY <1>2, <1>5 DEF Staged, Flying
<1>7. Size(r) = Size(q)
  BY <1>5, <1>6, SizeIsSum
<1> QED BY <1>4, <1>5, <1>7 DEF r

\* An Ack, of whatever number, only takes points and frames away.
LEMMA AckThroughBounded ==
  ASSUME NEW q \in Queue, Bounded(q), NEW ack
  PROVE  AckThrough(q, ack) \in Queue /\ Bounded(AckThrough(q, ack))
<1> DEFINE I == {i \in DOMAIN q.inflight : q.inflight[i].seq > ack}
           F == {i \in DOMAIN q.frames : q.frames[i] > ack}
           r == AckThrough(q, ack)
<1>1. q.inflight \in Seq(QueuedPoint) /\ q.staging \in Seq(Points) /\ q.frames \in Seq(Nat)
  BY QueueParts
<1>2. r = [q EXCEPT !.inflight = Retain(q.inflight, I), !.frames = Retain(q.frames, F)]
  BY Zenon DEF AckThrough
<1>3. Retain(q.inflight, I) \in Seq(QueuedPoint) /\ Len(Retain(q.inflight, I)) <= Len(q.inflight)
  BY <1>1, RetainShortens
<1>4. Retain(q.frames, F) \in Seq(Nat) /\ Len(Retain(q.frames, F)) <= Len(q.frames)
  BY <1>1, RetainShortens
<1> HIDE DEF I, F, r
<1>5. r \in Queue /\ r.inflight = Retain(q.inflight, I)
      /\ r.staging = q.staging /\ r.frames = Retain(q.frames, F)
  BY <1>2, <1>3, <1>4, Zenon DEF Queue
<1>6. Staged(r) = Staged(q) /\ Flying(r) <= Flying(q)
  BY <1>3, <1>5 DEF Staged, Flying
<1>7. Size(r) <= MaxQueue
  BY <1>5, <1>6, SizeIsSum, QueueAssumption DEF Bounded, QueueAssumption
<1>8. Len(r.frames) <= Window
  <2>1. Len(r.frames) \in Nat /\ Len(q.frames) \in Nat /\ Len(q.frames) <= Window
        /\ Len(r.frames) <= Len(q.frames)
    BY <1>1, <1>4, <1>5 DEF Bounded
  <2> QED BY <2>1, QueueAssumption DEF QueueAssumption
<1> QED BY <1>5, <1>7, <1>8 DEF Bounded, r

\* unsent_inflight selects in-flight points.
LEMMA UnsentInflightType ==
  ASSUME NEW q \in Queue
  PROVE  UnsentInflight(q) \in Seq(QueuedPoint)
BY QueueParts, RetainShortens DEF UnsentInflight

-----------------------------------------------------------------------------
\* assign moves points from Staging to InFlight: none is lost or added.
LEMMA AssignMoves ==
  ASSUME NEW q \in Queue, NEW n \in Nat, n <= Len(q.staging), NEW base \in Nat
  PROVE  /\ AssignFromStaging(q, n, base) \in Queue
         /\ Size(AssignFromStaging(q, n, base)) = Size(q)
         /\ AssignFromStaging(q, n, base).frames = q.frames
<1> DEFINE new == [i \in 1 .. n |-> [seq |-> base + i, pt |-> q.staging[i], sent |-> FALSE]]
           rest == SubSeq(q.staging, n + 1, Len(q.staging))
           r == AssignFromStaging(q, n, base)
<1>1. q.inflight \in Seq(QueuedPoint) /\ q.staging \in Seq(Points)
  BY QueueParts
<1>2. Len(q.staging) \in Nat /\ \A i \in 1 .. Len(q.staging) : q.staging[i] \in Points
  BY <1>1
<1>3. new \in Seq(QueuedPoint) /\ Len(new) = n
  <2>1. ASSUME NEW i \in 1 .. n
        PROVE  [seq |-> base + i, pt |-> q.staging[i], sent |-> FALSE] \in QueuedPoint
    <3>1. base + i \in Nat /\ q.staging[i] \in Points
      BY <1>2
    <3> QED BY <3>1 DEF QueuedPoint
  <2> QED BY <2>1
<1>4. rest \in Seq(Points) /\ Len(rest) = Len(q.staging) - n
  <2>1. \A k \in n + 1 .. Len(q.staging) : q.staging[k] \in Points
    BY <1>2
  <2> QED BY <1>1, <1>2, <2>1, SubSeqProperties
<1>5. r = [q EXCEPT !.staging = rest, !.inflight = q.inflight \o new]
  BY Zenon DEF AssignFromStaging
<1> HIDE DEF new, rest, r
<1>6. /\ q.inflight \o new \in Seq(QueuedPoint)
      /\ Len(q.inflight \o new) = Len(q.inflight) + n
  BY <1>1, <1>3, ConcatProperties
<1>7. r \in Queue /\ r.staging = rest /\ r.inflight = q.inflight \o new /\ r.frames = q.frames
  BY <1>4, <1>5, <1>6, Zenon DEF Queue
<1>8. Staged(r) = Staged(q) - n /\ Flying(r) = Flying(q) + n
  BY <1>4, <1>6, <1>7 DEF Staged, Flying
<1>9. Size(r) = Size(q)
  BY <1>7, <1>8, SizeIsSum
<1> QED BY <1>7, <1>9 DEF r

\* Position picks an element of the set, for every rank the set has.
LEMMA PositionInRange ==
  ASSUME NEW n \in Nat, NEW I \in SUBSET (1 .. n), NEW j \in 1 .. Cardinality(I)
  PROVE  Position(I, j) \in 1 .. n
<1>1. I # {}
  BY FS_EmptySet
<1>2. \E i \in I : (\E k \in I : Rank(I, k) = j) => Rank(I, i) = j
  BY <1>1
<1>3. Position(I, j) \in I
  BY <1>2 DEF Position
<1> QED BY <1>3

\* encode_loc_frames makes Loc frames of the points it is given.
LEMMA EncodeType ==
  ASSUME NEW last \in Nat, NEW pts \in Seq(Points)
  PROVE  EncodeLocFrames(last, pts) \in Seq(Frame)
<1> DEFINE n     == Len(pts)
           ends  == FrameEnds(pts)
           count == Cardinality(ends)
           to(k) == Position(ends, k)
           frame(k) == [seq |-> (last - n + to(k)) % SeqSpace,
                        pts |-> SubSeq(pts, FrameFrom(ends, k), to(k))]
<1>1. /\ n \in Nat /\ \A i \in 1 .. n : pts[i] \in Points
      /\ SeqSpace \in Nat /\ SeqSpace >= 1
  BY QueueAssumption DEF QueueAssumption
<1>2. ends \in SUBSET (1 .. n)
  BY DEF FrameEnds
<1> HIDE DEF ends
<1>3. count \in Nat
  <2>1. IsFiniteSet(1 .. n)
    BY <1>1, FS_Interval
  <2> QED BY <1>2, <2>1, FS_Subset, FS_CardinalityType
<1>4. \A k \in 1 .. count : to(k) \in 1 .. n
  BY <1>1, <1>2, PositionInRange
<1>5. \A k \in 1 .. count : FrameFrom(ends, k) \in Nat /\ FrameFrom(ends, k) >= 1
  <2> SUFFICES ASSUME NEW k \in 1 .. count
               PROVE  FrameFrom(ends, k) \in Nat /\ FrameFrom(ends, k) >= 1
    OBVIOUS
  <2>1. CASE k = 1
    BY <2>1 DEF FrameFrom
  <2>2. CASE k # 1
    <3> HIDE DEF count
    <3>1. k - 1 \in 1 .. count
      BY <1>3, <2>2
    <3>2. Position(ends, k - 1) \in 1 .. n
      BY <1>4, <3>1
    <3>3. FrameFrom(ends, k) = Position(ends, k - 1) + 1
      BY <2>2 DEF FrameFrom
    <3> QED BY <1>1, <3>2, <3>3
  <2> QED BY <2>1, <2>2
<1>6. ASSUME NEW k \in 1 .. count PROVE frame(k) \in Frame
  <2>1. to(k) \in 1 .. n
    BY <1>4
  <2>2. FrameFrom(ends, k) \in Nat /\ FrameFrom(ends, k) >= 1
    BY <1>5
  <2> HIDE DEF to
  <2>3. (last - n + to(k)) % SeqSpace \in Nat
    <3>1. last - n + to(k) \in Int
      BY <1>1, <2>1
    <3> HIDE DEF n
    <3> QED BY <1>1, <3>1
  <2>4. SubSeq(pts, FrameFrom(ends, k), to(k)) \in Seq(Points)
    <3>1. \A j \in FrameFrom(ends, k) .. to(k) : pts[j] \in Points
      BY <1>1, <2>1, <2>2
    <3>2. FrameFrom(ends, k) \in Int /\ to(k) \in Int
      BY <2>1, <2>2
    <3> QED BY <3>1, <3>2, SubSeqProperties
  <2> QED BY <2>3, <2>4, Zenon DEF Frame
<1>7. EncodeLocFrames(last, pts) = [k \in 1 .. count |-> frame(k)]
  BY Zenon DEF EncodeLocFrames, ends
<1> HIDE DEF count, frame
<1> QED BY <1>3, <1>6, <1>7

\* flush_queue moves staged points in flight, which changes neither the size of
\* the buffer nor the frames it waits for.
LEMMA FlushAssignMoves ==
  ASSUME NEW q \in Queue, NEW lastAssigned \in Nat
  PROVE  /\ FlushAssign(q, lastAssigned).queue \in Queue
         /\ Size(FlushAssign(q, lastAssigned).queue) = Size(q)
         /\ FlushAssign(q, lastAssigned).queue.frames = q.frames
         /\ FlushAssign(q, lastAssigned).assigned \in Nat
<1> DEFINE remaining == WindowRemaining(q)
           room == FrameCap * remaining
           take == IF Len(q.staging) < room THEN Len(q.staging) ELSE room
           a    == FlushAssign(q, lastAssigned)
<1>1. a = IF UnsentInflight(q) # <<>>
          THEN [queue |-> q, assigned |-> lastAssigned]
          ELSE [queue    |-> AssignFromStaging(q, take, lastAssigned),
                assigned |-> lastAssigned + take]
  BY Zenon DEF FlushAssign
<1>2. /\ Len(q.staging) \in Nat /\ Len(q.frames) \in Nat
      /\ FrameCap \in Nat /\ Window \in Nat
  BY QueueParts, QueueAssumption DEF QueueAssumption
<1>3. remaining \in Nat
  BY <1>2 DEF WindowRemaining
<1>4. take \in Nat /\ take <= Len(q.staging)
  <2> HIDE DEF remaining
  <2>1. room \in Nat
    BY <1>2, <1>3
  <2> HIDE DEF room
  <2> QED BY <1>2, <2>1
<1> HIDE DEF take, a
<1>5. CASE UnsentInflight(q) # <<>>
  <2>1. a.queue = q /\ a.assigned = lastAssigned
    BY <1>1, <1>5
  <2> QED BY <2>1 DEF a
<1>6. CASE UnsentInflight(q) = <<>>
  <2>1. a.queue = AssignFromStaging(q, take, lastAssigned) /\ a.assigned = lastAssigned + take
    BY <1>1, <1>6
  <2>2. a.assigned \in Nat
    BY <1>4, <2>1
  <2> QED BY <1>4, <2>1, <2>2, AssignMoves DEF a
<1> QED BY <1>5, <1>6

\* flush_queue makes at most as many frames as the window has room for.
LEMMA FlushEncodeFits ==
  ASSUME NEW q \in Queue, Bounded(q)
  PROVE  /\ FlushEncode(q) \in Seq(Frame)
         /\ Len(q.frames) + Len(FlushEncode(q)) <= Window
<1> DEFINE batch     == UnsentInflight(q)
           remaining == WindowRemaining(q)
           last      == batch[Len(batch)].seq
           points    == [i \in DOMAIN batch |-> batch[i].pt]
           encoded   == EncodeLocFrames(last, points)
           n         == IF Len(encoded) < remaining THEN Len(encoded) ELSE remaining
           used      == Len(q.frames)
<1>1. FlushEncode(q) = IF batch = <<>> THEN <<>> ELSE SubSeq(encoded, 1, n)
  BY Zenon DEF FlushEncode
<1>2. used \in Nat /\ Window \in Nat /\ used <= Window
  BY QueueParts, QueueAssumption DEF QueueAssumption, Bounded
<1>3. remaining \in Nat /\ used + remaining <= Window
  <2>1. remaining = IF used < Window THEN Window - used ELSE 0
    BY Zenon DEF WindowRemaining
  <2> HIDE DEF used, remaining
  <2> QED BY <1>2, <2>1
<1>4. batch \in Seq(QueuedPoint)
  BY UnsentInflightType
<1> HIDE DEF batch, remaining, used
<1>5. CASE batch = <<>>
  <2>1. FlushEncode(q) = <<>>
    BY <1>1, <1>5
  <2>2. FlushEncode(q) \in Seq(Frame) /\ Len(FlushEncode(q)) = 0
    BY <2>1
  <2>3. used + Len(FlushEncode(q)) <= Window
    BY <1>2, <2>2
  <2> QED BY <2>2, <2>3 DEF used
<1>6. CASE batch # <<>>
  <2>1. /\ Len(batch) \in DOMAIN batch
        /\ \A i \in DOMAIN batch : batch[i] \in QueuedPoint
    BY <1>4, <1>6, EmptySeq
  <2>2. \A i \in DOMAIN batch : batch[i].seq \in Nat /\ batch[i].pt \in Points
    BY <2>1, Zenon DEF QueuedPoint
  <2>3. points \in Seq(Points)
    BY <1>4, <2>2
  <2>4. last \in Nat
    BY <2>1, <2>2
  <2> HIDE DEF points, last
  <2>5. encoded \in Seq(Frame)
    BY <2>3, <2>4, EncodeType
  <2> HIDE DEF encoded
  <2>6. n \in Nat /\ n <= remaining /\ n <= Len(encoded)
    BY <1>3, <2>5
  <2> HIDE DEF n
  <2>7. SubSeq(encoded, 1, n) \in Seq(Frame) /\ Len(SubSeq(encoded, 1, n)) = n
    <3>1. \A i \in 1 .. n : encoded[i] \in Frame
      BY <2>5, <2>6
    <3> QED BY <2>6, <3>1, SubSeqProperties
  <2>8. FlushEncode(q) \in Seq(Frame) /\ Len(FlushEncode(q)) = n
    BY <1>1, <1>6, <2>7
  <2>9. used + Len(FlushEncode(q)) <= Window
    BY <1>2, <1>3, <2>6, <2>8
  <2> QED BY <2>8, <2>9 DEF used
<1> QED BY <1>5, <1>6

\* Recording the frames of a round fills the window by as many.
LEMMA FlushRecordBounded ==
  ASSUME NEW q \in Queue, Bounded(q), NEW out \in Seq(Frame),
         Len(q.frames) + Len(out) <= Window
  PROVE  FlushRecord(q, out) \in Queue /\ Bounded(FlushRecord(q, out))
<1> DEFINE seqs == [i \in DOMAIN out |-> out[i].seq]
           r    == RecordFrames(q, seqs)
<1>1. FlushRecord(q, out) = r
  BY Zenon DEF FlushRecord
<1>2. seqs \in Seq(Nat) /\ Len(seqs) = Len(out)
  <2>1. \A i \in DOMAIN out : out[i] \in Frame
    OBVIOUS
  <2>2. \A i \in DOMAIN out : out[i].seq \in Nat
    BY <2>1, Zenon DEF Frame
  <2> QED BY <2>2
<1> HIDE DEF seqs
<1>3. r \in Queue /\ Size(r) = Size(q) /\ Len(r.frames) = Len(q.frames) + Len(seqs)
  BY <1>2, RecordFramesAdds
<1> HIDE DEF r
<1>4. Bounded(r)
  BY <1>2, <1>3 DEF Bounded
<1> QED BY <1>1, <1>3, <1>4

-----------------------------------------------------------------------------
(* Ranks.                                                                    *)

\* Every set of numbers has a least one.
LEMMA LeastElement ==
  ASSUME NEW T \in SUBSET Nat, T # {}
  PROVE  \E n \in T : \A k \in T : n <= k
<1>1. PICK n \in T : \A k \in T : <<k, n>> \notin OpToRel(<, Nat)
  BY NatLessThanWellFounded, WFMin, Zenon
<1>2. OpToRel(<, Nat) = {ss \in Nat \X Nat : ss[1] < ss[2]}
  BY Zenon DEF OpToRel
<1>3. \A k \in T : <<k, n>> \notin {ss \in Nat \X Nat : ss[1] < ss[2]}
  BY <1>1, <1>2, Zenon
<1>4. ASSUME NEW k \in T PROVE ~(k < n)
  <2>1. <<k, n>> \in Nat \X Nat /\ <<k, n>>[1] = k /\ <<k, n>>[2] = n
    OBVIOUS
  <2> QED BY <1>3, <2>1, Zenon
<1>5. \A k \in T : n <= k
  BY <1>4
<1> QED BY <1>5

\* The ranks of a set of positions.
LEMMA RankRises ==
  ASSUME NEW n \in Nat, NEW I \in SUBSET (1 .. n)
  PROVE  /\ IsFiniteSet(I) /\ Cardinality(I) \in Nat
         /\ \A i \in I : Rank(I, i) \in 1 .. Cardinality(I)
         /\ \A i, j \in I : i < j => Rank(I, i) < Rank(I, j)
<1>1. IsFiniteSet(1 .. n)
  <2>1. 1 \in Int /\ n \in Int
    OBVIOUS
  <2> QED BY <2>1, FS_Interval, Zenon
<1>2. IsFiniteSet(I) /\ Cardinality(I) \in Nat
  BY <1>1, FS_Subset, FS_CardinalityType
<1> DEFINE Below(i) == {k \in I : k <= i}
<1>3. ASSUME NEW i \in I
      PROVE  /\ IsFiniteSet(Below(i)) /\ Cardinality(Below(i)) \in Nat
             /\ Cardinality(Below(i)) <= Cardinality(I) /\ Cardinality(Below(i)) # 0
  <2>1. Below(i) \in SUBSET I /\ i \in Below(i)
    OBVIOUS
  <2> HIDE DEF Below
  <2>2. IsFiniteSet(Below(i)) /\ Cardinality(Below(i)) <= Cardinality(I)
    BY <1>2, <2>1, FS_Subset
  <2>3. Cardinality(Below(i)) \in Nat
    BY <2>2, FS_CardinalityType
  <2>4. Cardinality(Below(i)) # 0
    BY <2>1, <2>2, FS_EmptySet
  <2> QED BY <2>2, <2>3, <2>4
<1>4. ASSUME NEW i \in I, NEW j \in I, i < j
      PROVE  Cardinality(Below(i)) < Cardinality(Below(j))
  <2>0. \A k \in I : k \in Nat
    OBVIOUS
  <2>1. Below(i) \in SUBSET Below(j) /\ j \in Below(j) /\ j \notin Below(i)
    <3>1. (\A k \in I : k <= i => k <= j) /\ ~(j <= i) /\ j <= j
      BY <1>4, <2>0
    <3> QED BY <3>1, Zenon
  <2>2. IsFiniteSet(Below(j)) /\ Cardinality(Below(i)) \in Nat /\ Cardinality(Below(j)) \in Nat
    BY <1>3
  <2> HIDE DEF Below
  <2>3. /\ Cardinality(Below(i)) <= Cardinality(Below(j))
        /\ Cardinality(Below(i)) # Cardinality(Below(j))
    BY <2>1, <2>2, FS_Subset
  <2> QED BY <2>2, <2>3
<1>5. \A i \in I : Rank(I, i) = Cardinality(Below(i))
  BY DEF Rank
<1> HIDE DEF Below
<1> QED BY <1>2, <1>3, <1>4, <1>5

\* Every rank up to the size of the set is taken: Position inverts Rank.
LEMMA PositionRises ==
  ASSUME NEW n \in Nat, NEW I \in SUBSET (1 .. n)
  PROVE  /\ \A j \in 1 .. Cardinality(I) : Position(I, j) \in I /\ Rank(I, Position(I, j)) = j
         /\ \A i \in I : Position(I, Rank(I, i)) = i
         /\ \A j, k \in 1 .. Cardinality(I) : j < k => Position(I, j) < Position(I, k)
<1> DEFINE c == Cardinality(I)
           f == [i \in I |-> Rank(I, i)]
<1>1. /\ IsFiniteSet(I) /\ c \in Nat
      /\ \A i \in I : i \in Nat /\ Rank(I, i) \in 1 .. c
      /\ \A i, j \in I : i < j => Rank(I, i) < Rank(I, j)
  <2>1. \A i \in I : i \in Nat
    OBVIOUS
  <2> QED BY <2>1, RankRises
<1>2. \A i, j \in I : Rank(I, i) = Rank(I, j) => i = j
  <2>1. ASSUME NEW i \in I, NEW j \in I, Rank(I, i) = Rank(I, j), i # j PROVE FALSE
    <3>1. i < j \/ j < i
      BY <1>1, <2>1
    <3>2. Rank(I, i) < Rank(I, j) \/ Rank(I, j) < Rank(I, i)
      BY <1>1, <3>1
    <3> QED BY <1>1, <2>1, <3>2
  <2> QED BY <2>1
<1>3. f \in Injection(I, 1 .. c)
  <2>1. f \in [I -> 1 .. c] /\ \A i \in I : f[i] = Rank(I, i)
    BY <1>1, Zenon
  <2> HIDE DEF f, c
  <2>2. \A i, j \in I : f[i] = f[j] => i = j
    BY <1>2, <2>1
  <2> QED BY <2>1, <2>2, Zenon DEF Injection, IsInjective
<1>4. IsFiniteSet(1 .. c) /\ Cardinality(1 .. c) = c
  <2>1. 1 \in Int /\ c \in Int
    BY <1>1
  <2>2. Cardinality(1 .. c) = IF 1 > c THEN 0 ELSE c - 1 + 1
    BY <2>1, FS_Interval, Zenon
  <2>3. IsFiniteSet(1 .. c)
    BY <2>1, FS_Interval, Zenon
  <2> HIDE DEF c
  <2> QED BY <1>1, <2>2, <2>3
<1>5. f \in Surjection(I, 1 .. c)
  BY <1>3, <1>4, FS_Injection
<1>6. \A j \in 1 .. c : \E k \in I : Rank(I, k) = j
  BY <1>5 DEF Surjection
<1>7. ASSUME NEW j \in 1 .. c PROVE Position(I, j) \in I /\ Rank(I, Position(I, j)) = j
  <2>1. \E i \in I : (\E k \in I : Rank(I, k) = j) => Rank(I, i) = j
    BY <1>6
  <2>2. /\ Position(I, j) \in I
        /\ (\E k \in I : Rank(I, k) = j) => Rank(I, Position(I, j)) = j
    BY <2>1, Zenon DEF Position
  <2> QED BY <1>6, <2>2
<1>8. \A i \in I : Position(I, Rank(I, i)) = i
  BY <1>1, <1>2, <1>7
<1>9. ASSUME NEW j \in 1 .. c, NEW k \in 1 .. c, j < k PROVE Position(I, j) < Position(I, k)
  <2> DEFINE a == Position(I, j)
             b == Position(I, k)
  <2>1. a \in I /\ b \in I /\ Rank(I, a) = j /\ Rank(I, b) = k
    BY <1>7
  <2> HIDE DEF a, b
  <2>2. a \in Nat /\ b \in Nat /\ (b < a => k < j) /\ j \in Nat /\ k \in Nat
    BY <1>1, <2>1
  <2>3. a # b
    BY <1>9, <2>1, <2>2
  <2>4. a < b
    BY <1>9, <2>2, <2>3
  <2> QED BY <2>4 DEF a, b
<1> QED BY <1>7, <1>8, <1>9

\* Position lists the set in order and leaves none of it out.
LEMMA NoneBetween ==
  ASSUME NEW n \in Nat, NEW I \in SUBSET (1 .. n), NEW i \in I
  PROVE  /\ Cardinality(I) >= 1 /\ i <= Position(I, Cardinality(I))
         /\ \A j \in 1 .. Cardinality(I) : i < Position(I, j) => j > 1 /\ i <= Position(I, j - 1)
<1> DEFINE c == Cardinality(I)
           r == Rank(I, i)
<1>1. c \in Nat /\ r \in 1 .. c /\ Position(I, r) = i
  BY RankRises, PositionRises
<1>2. \A j \in 1 .. c : Position(I, j) \in I
  BY PositionRises
<1>3. \A j \in 1 .. c : Position(I, j) \in Nat
  <2>1. \A k \in I : k \in Nat
    OBVIOUS
  <2> QED BY <1>2, <2>1
<1>4. \A j, k \in 1 .. c : j < k => Position(I, j) < Position(I, k)
  BY PositionRises
<1> HIDE DEF c, r
<1>5. \A j \in 1 .. c : r <= j => i <= Position(I, j)
  BY <1>1, <1>3, <1>4
<1>6. c >= 1 /\ c \in 1 .. c /\ r <= c
  BY <1>1
<1>7. i <= Position(I, c)
  BY <1>5, <1>6
<1>8. ASSUME NEW j \in 1 .. c, i < Position(I, j) PROVE j > 1 /\ i <= Position(I, j - 1)
  <2>1. r < j
    <3>1. CASE j < r
      BY <1>1, <1>3, <1>4, <1>8, <3>1
    <3>2. CASE j = r
      BY <1>1, <1>3, <1>8, <3>2
    <3> QED BY <1>1, <3>1, <3>2
  <2>2. j > 1 /\ j - 1 \in 1 .. c /\ r <= j - 1
    BY <1>1, <2>1
  <2> QED BY <1>5, <2>2
<1> QED BY <1>6, <1>7, <1>8 DEF c

\* Vec::retain of what lies behind position m.
LEMMA RetainSuffix ==
  ASSUME NEW S, NEW s \in Seq(S), NEW m \in 0 .. Len(s)
  PROVE  /\ Retain(s, m + 1 .. Len(s)) \in Seq(S)
         /\ Len(Retain(s, m + 1 .. Len(s))) = Len(s) - m
         /\ \A j \in 1 .. Len(s) - m : Retain(s, m + 1 .. Len(s))[j] = s[m + j]
<1> DEFINE n == Len(s)
           I == m + 1 .. n
<1>1. n \in Nat /\ m \in Nat /\ m <= n /\ DOMAIN s = 1 .. n
  OBVIOUS
<1>2. I \in SUBSET (1 .. n)
  BY <1>1
<1>3. \A i \in m .. n : Cardinality(m + 1 .. i) = i - m
  <2>1. ASSUME NEW i \in m .. n PROVE Cardinality(m + 1 .. i) = i - m
    <3>1. m + 1 \in Int /\ i \in Int /\ i >= m
      BY <1>1
    <3>2. Cardinality(m + 1 .. i) = IF m + 1 > i THEN 0 ELSE i - (m + 1) + 1
      BY <3>1, FS_Interval, Zenon
    <3> QED BY <1>1, <3>1, <3>2
  <2> QED BY <2>1
<1>4. Cardinality(I) = n - m
  BY <1>1, <1>3
<1>5. \A i \in I : Rank(I, i) = i - m
  <2>1. ASSUME NEW i \in I PROVE Rank(I, i) = i - m
    <3>1. i \in m .. n /\ {k \in I : k <= i} = m + 1 .. i
      BY <1>1
    <3>2. Rank(I, i) = Cardinality(m + 1 .. i)
      BY <3>1, Zenon DEF Rank
    <3> QED BY <1>3, <3>1, <3>2
  <2> QED BY <2>1
<1>6. ASSUME NEW j \in 1 .. n - m PROVE Position(I, j) = m + j /\ s[m + j] \in S
  <2>1. m + j \in I /\ (m + j) - m = j /\ m + j \in 1 .. n
    BY <1>1
  <2>2. Rank(I, m + j) = j
    BY <1>5, <2>1
  <2> HIDE DEF I, n
  <2>3. Position(I, Rank(I, m + j)) = m + j
    BY <1>1, <1>2, <2>1, PositionRises
  <2> QED BY <1>1, <2>1, <2>2, <2>3
<1>7. Retain(s, I) = [j \in 1 .. n - m |-> s[m + j]]
  <2>1. Retain(s, I) = [j \in 1 .. n - m |-> s[Position(I, j)]]
    BY <1>4, Zenon DEF Retain
  <2> HIDE DEF I
  <2> QED BY <1>6, <2>1, Zenon
<1>8. n - m \in Nat
  BY <1>1
<1> HIDE DEF n, I
<1>9. /\ Retain(s, I) \in Seq(S) /\ Len(Retain(s, I)) = n - m
      /\ \A j \in 1 .. n - m : Retain(s, I)[j] = s[m + j]
  <2> DEFINE kept == Retain(s, I)
             k    == n - m
  <2>1. kept = [j \in 1 .. k |-> s[m + j]] /\ k \in Nat
    BY <1>7, <1>8
  <2>2. \A j \in 1 .. k : s[m + j] \in S
    BY <1>6
  <2> HIDE DEF kept, k
  <2>3. kept \in [1 .. k -> S] /\ \A j \in 1 .. k : kept[j] = s[m + j]
    BY <2>1, <2>2, Zenon
  <2>4. kept \in Seq(S) /\ Len(kept) = k
    <3>1. kept \in [1 .. k -> S] /\ k \in Nat
      BY <2>1, <2>3
    <3> QED BY <3>1
  <2> QED BY <2>3, <2>4 DEF kept, k
<1> QED BY <1>9 DEF n, I

-----------------------------------------------------------------------------
(* What the operators of the queue make of an orderly list.                 *)

\* What a point is.
LEMMA PointParts ==
  ASSUME NEW s \in Seq(QueuedPoint), NEW i \in 1 .. Len(s)
  PROVE  s[i] \in QueuedPoint /\ s[i].seq \in Nat /\ s[i].pt \in Points /\ s[i].sent \in BOOLEAN
<1>1. s[i] \in QueuedPoint
  OBVIOUS
<1> QED BY <1>1 DEF QueuedPoint

\* The end of an orderly list is orderly.
LEMMA OrderlySuffix ==
  ASSUME NEW s \in Seq(QueuedPoint), NEW last \in Nat, Orderly(s, last), NEW d \in 0 .. Len(s),
         NEW t \in Seq(QueuedPoint), Len(t) = Len(s) - d,
         \A j \in 1 .. Len(s) - d : t[j] = s[d + j]
  PROVE  Orderly(t, last)
<1>1. PICK m \in 0 .. Len(s) : SentUpTo(s, m)
  BY DEF Orderly
<1> DEFINE n == Len(s)
           e == IF m < d THEN 0 ELSE m - d
<1>2. /\ n \in Nat /\ n <= last /\ Len(t) = n - d /\ d \in 0 .. n /\ m \in 0 .. n
      /\ \A i \in 1 .. n : s[i].seq = last - n + i
      /\ \A i \in 1 .. n : s[i].sent <=> i <= m
  BY <1>1 DEF Orderly, Run, SentUpTo
<1>3. \A j \in 1 .. n - d : d + j \in 1 .. n /\ t[j] = s[d + j]
  BY <1>2
<1> HIDE DEF n
<1>4. e \in 0 .. n - d /\ \A j \in 1 .. n - d : d + j <= m <=> j <= e
  BY <1>2
<1> HIDE DEF e
<1>5. ASSUME NEW j \in 1 .. n - d
      PROVE  t[j].seq = last - (n - d) + j /\ (t[j].sent <=> j <= e)
  <2>1. d + j \in 1 .. n /\ t[j] = s[d + j] /\ (d + j <= m <=> j <= e)
    BY <1>3, <1>4
  <2>2. t[j].seq = last - n + (d + j) /\ (t[j].sent <=> d + j <= m)
    BY <1>2, <2>1
  <2>3. last - n + (d + j) = last - (n - d) + j
    BY <1>2
  <2> QED BY <2>1, <2>2, <2>3
<1>6. Run(t, last)
  <2>1. Len(t) <= last
    BY <1>2
  <2>2. \A j \in 1 .. Len(t) : t[j].seq = last - Len(t) + j
    BY <1>2, <1>5, Zenon
  <2> QED BY <2>1, <2>2 DEF Run
<1>7. SentUpTo(t, e) /\ e \in 0 .. Len(t)
  BY <1>2, <1>4, <1>5 DEF SentUpTo
<1> QED BY <1>6, <1>7 DEF Orderly

\* InFlight after a point was dropped at its head: enforce_cap.
LEMMA OrderlyTail ==
  ASSUME NEW s \in Seq(QueuedPoint), NEW last \in Nat, Orderly(s, last), s # <<>>
  PROVE  Orderly(Tail(s), last)
<1>1. /\ Len(s) \in Nat \ {0} /\ Tail(s) \in Seq(QueuedPoint) /\ Len(Tail(s)) = Len(s) - 1
      /\ \A j \in 1 .. Len(s) - 1 : Tail(s)[j] = s[j + 1]
  BY EmptySeq, HeadTailProperties
<1>2. 1 \in 0 .. Len(s) /\ \A j \in 1 .. Len(s) - 1 : Tail(s)[j] = s[1 + j]
  BY <1>1
<1> QED BY <1>1, <1>2, OrderlySuffix

\* InFlight after an Ack.
LEMMA OrderlyAck ==
  ASSUME NEW s \in Seq(QueuedPoint), NEW last \in Nat, Orderly(s, last), NEW ack \in Nat
  PROVE  /\ Orderly(Retain(s, {i \in DOMAIN s : s[i].seq > ack}), last)
         /\ Len(Retain(s, {i \in DOMAIN s : s[i].seq > ack})) <= Len(s)
         /\ ack <= last => ack + Len(Retain(s, {i \in DOMAIN s : s[i].seq > ack})) <= last
<1> DEFINE n == Len(s)
           d == IF ack > last THEN n ELSE IF ack > last - n THEN ack - (last - n) ELSE 0
<1>1. /\ n \in Nat /\ n <= last /\ DOMAIN s = 1 .. n
      /\ \A i \in 1 .. n : s[i].seq = last - n + i
  BY DEF Orderly, Run
<1> HIDE DEF n
<1>2. d \in 0 .. n /\ \A i \in 1 .. n : last - n + i > ack <=> i \in d + 1 .. n
  BY <1>1
<1> HIDE DEF d
<1>3. {i \in DOMAIN s : s[i].seq > ack} = d + 1 .. n
  <2>1. ASSUME NEW i PROVE (i \in 1 .. n /\ s[i].seq > ack) <=> i \in d + 1 .. n
    <3>1. CASE i \in 1 .. n
      <4>1. s[i].seq = last - n + i /\ (last - n + i > ack <=> i \in d + 1 .. n)
        BY <1>1, <1>2, <3>1
      <4> QED BY <3>1, <4>1, Zenon
    <3>2. CASE i \notin 1 .. n
      <4>1. i \notin d + 1 .. n
        BY <1>1, <1>2, <3>2
      <4> QED BY <3>2, <4>1, Zenon
    <3> QED BY <3>1, <3>2
  <2> QED BY <1>1, <2>1, Zenon
<1>4. /\ Retain(s, d + 1 .. n) \in Seq(QueuedPoint) /\ Len(Retain(s, d + 1 .. n)) = n - d
      /\ \A j \in 1 .. n - d : Retain(s, d + 1 .. n)[j] = s[d + j]
  BY <1>2, RetainSuffix DEF n
<1>5. Orderly(Retain(s, d + 1 .. n), last)
  BY <1>2, <1>4, OrderlySuffix DEF n
<1>6. n - d <= n /\ (ack <= last => ack + (n - d) <= last)
  BY <1>1, <1>2 DEF d
<1> QED BY <1>3, <1>4, <1>5, <1>6 DEF n

\* InFlight after a lost socket.
LEMMA OrderlyUnsent ==
  ASSUME NEW s \in Seq(QueuedPoint), NEW last \in Nat, Orderly(s, last)
  PROVE  Orderly([i \in DOMAIN s |-> [s[i] EXCEPT !.sent = FALSE]], last)
<1> DEFINE t == [i \in DOMAIN s |-> [s[i] EXCEPT !.sent = FALSE]]
           n == Len(s)
<1>1. /\ n \in Nat /\ n <= last /\ DOMAIN s = 1 .. n
      /\ \A i \in 1 .. n : s[i].seq = last - n + i
  BY DEF Orderly, Run
<1>2. ASSUME NEW i \in 1 .. n PROVE t[i].seq = s[i].seq /\ ~t[i].sent
  <2>1. s[i] \in QueuedPoint /\ t[i] = [s[i] EXCEPT !.sent = FALSE]
    BY <1>1, PointParts
  <2> QED BY <2>1, Zenon DEF QueuedPoint
<1>3. Len(t) = n
  BY <1>1
<1> HIDE DEF t, n
<1>4. Run(t, last)
  <2>1. \A i \in 1 .. Len(t) : t[i].seq = last - Len(t) + i
    BY <1>1, <1>2, <1>3, Zenon
  <2> QED BY <1>1, <1>3, <2>1 DEF Run
<1>5. 0 \in 0 .. Len(t) /\ SentUpTo(t, 0)
  BY <1>1, <1>2, <1>3 DEF SentUpTo
<1> QED BY <1>4, <1>5 DEF Orderly, t

\* What SentThrough does to each point.
LEMMA SentThroughParts ==
  ASSUME NEW s \in Seq(QueuedPoint), NEW seqs
  PROVE  /\ Len(SentThrough(s, seqs)) = Len(s)
         /\ \A i \in 1 .. Len(s) :
              /\ SentThrough(s, seqs)[i].seq = s[i].seq /\ SentThrough(s, seqs)[i].pt = s[i].pt
              /\ SentThrough(s, seqs)[i].sent <=>
                   s[i].sent \/ \E k \in DOMAIN seqs : s[i].seq <= seqs[k]
<1>1. DOMAIN s = 1 .. Len(s) /\ Len(s) \in Nat
  OBVIOUS
<1>2. Len(SentThrough(s, seqs)) = Len(s)
  BY SentThroughType
<1>3. ASSUME NEW i \in 1 .. Len(s)
      PROVE  /\ SentThrough(s, seqs)[i].seq = s[i].seq /\ SentThrough(s, seqs)[i].pt = s[i].pt
             /\ SentThrough(s, seqs)[i].sent <=>
                  s[i].sent \/ \E k \in DOMAIN seqs : s[i].seq <= seqs[k]
  <2> DEFINE b == s[i].sent \/ \E k \in DOMAIN seqs : s[i].seq <= seqs[k]
  <2>1. SentThrough(s, seqs)[i] = [s[i] EXCEPT !.sent = b]
    BY <1>1, Zenon DEF SentThrough
  <2>2. s[i] \in QueuedPoint
    BY PointParts
  <2>3. /\ [s[i] EXCEPT !.sent = b].seq = s[i].seq /\ [s[i] EXCEPT !.sent = b].pt = s[i].pt
        /\ [s[i] EXCEPT !.sent = b].sent = b
    BY <2>2, Zenon DEF QueuedPoint
  <2> QED BY <2>1, <2>3, Zenon
<1> QED BY <1>2, <1>3

\* Frames up to the number of position e have been sent, and nothing behind it.
LEMMA OrderlySent ==
  ASSUME NEW s \in Seq(QueuedPoint), NEW last \in Nat, Run(s, last), NEW e \in 0 .. Len(s),
         \A i \in 1 .. Len(s) : s[i].sent => i <= e, NEW seqs,
         \A i \in 1 .. Len(s) : i <= e => \E k \in DOMAIN seqs : s[i].seq <= seqs[k],
         \A i \in 1 .. Len(s) : i > e => ~\E k \in DOMAIN seqs : s[i].seq <= seqs[k]
  PROVE  SentUpTo(SentThrough(s, seqs), e) /\ Orderly(SentThrough(s, seqs), last)
<1> DEFINE t == SentThrough(s, seqs)
           n == Len(s)
<1>1. /\ n \in Nat /\ n <= last /\ e \in 0 .. n
      /\ \A i \in 1 .. n : s[i].seq = last - n + i
  BY DEF Run
<1>2. /\ Len(t) = n
      /\ \A i \in 1 .. n : /\ t[i].seq = s[i].seq
                           /\ t[i].sent <=> s[i].sent \/ \E k \in DOMAIN seqs : s[i].seq <= seqs[k]
  BY SentThroughParts, Zenon
<1> HIDE DEF t
<1>3. \A i \in 1 .. n : i <= e \/ i > e
  BY <1>1
<1>4. SentUpTo(t, e)
  <2>1. \A i \in 1 .. n : i > e => ~(i <= e)
    BY <1>1
  <2> QED BY <1>2, <1>3, <2>1, Zenon DEF SentUpTo
<1> HIDE DEF n
<1>5. Run(t, last)
  <2>1. \A i \in 1 .. Len(t) : t[i].seq = last - Len(t) + i
    BY <1>1, <1>2, Zenon
  <2> QED BY <1>1, <1>2, <2>1 DEF Run
<1> QED BY <1>1, <1>2, <1>4, <1>5, Zenon DEF Orderly, t

\* InFlight with the next number behind it, as publish and enqueue leave it.
LEMMA RunAppend ==
  ASSUME NEW s \in Seq(QueuedPoint), NEW last \in Nat, Run(s, last),
         NEW e \in QueuedPoint, e.seq = last + 1
  PROVE  Run(Append(s, e), last + 1) /\ Run(Tail(Append(s, e)), last + 1)
<1> DEFINE n == Len(s)
           t == Append(s, e)
           u == Tail(t)
<1>1. n \in Nat /\ n <= last /\ \A i \in 1 .. n : s[i].seq = last - n + i
  BY DEF Run
<1>2. /\ t \in Seq(QueuedPoint) /\ Len(t) = n + 1 /\ t[n + 1] = e
      /\ \A i \in 1 .. n : t[i] = s[i]
  OBVIOUS
<1> HIDE DEF t
<1>3. t # <<>>
  BY <1>1, <1>2, EmptySeq
<1>4. Len(u) = n /\ \A i \in 1 .. n : u[i] = t[i + 1]
  <2>1. Len(u) = Len(t) - 1 /\ \A i \in 1 .. Len(u) : u[i] = t[i + 1]
    BY <1>2, <1>3, HeadTailProperties, Zenon
  <2> HIDE DEF n, u
  <2> QED BY <1>1, <1>2, <2>1
<1> HIDE DEF n, u
<1>5. ASSUME NEW i \in 1 .. n + 1 PROVE t[i].seq = last - n + i
  <2>1. CASE i = n + 1
    BY <1>1, <1>2, <2>1
  <2>2. CASE i # n + 1
    <3>1. i \in 1 .. n
      BY <1>1, <2>2
    <3> QED BY <1>1, <1>2, <3>1
  <2> QED BY <2>1, <2>2
<1>6. Run(t, last + 1)
  <2>1. Len(t) <= last + 1 /\ last + 1 - Len(t) = last - n
    BY <1>1, <1>2
  <2>2. \A i \in 1 .. Len(t) : t[i].seq = last + 1 - Len(t) + i
    BY <1>2, <1>5, <2>1, Zenon
  <2> QED BY <2>1, <2>2 DEF Run
<1>7. Run(u, last + 1)
  <2>1. ASSUME NEW i \in 1 .. n PROVE u[i].seq = last + 1 - n + i
    <3>1. i + 1 \in 1 .. n + 1 /\ last - n + (i + 1) = last + 1 - n + i
      BY <1>1
    <3> QED BY <1>4, <1>5, <3>1, Zenon
  <2>2. \A i \in 1 .. Len(u) : u[i].seq = last + 1 - Len(u) + i
    BY <1>4, <2>1, Zenon
  <2> QED BY <1>1, <1>4, <2>2 DEF Run
<1> QED BY <1>6, <1>7 DEF t, u

\* Points that go on from a number, none of them sent.
Continues(new, last) == \A i \in 1 .. Len(new) : new[i].seq = last + i /\ ~new[i].sent

\* InFlight with k numbered points behind it, when all of it was sent.
LEMMA OrderlyAssign ==
  ASSUME NEW s \in Seq(QueuedPoint), NEW last \in Nat, Run(s, last), SentUpTo(s, Len(s)),
         NEW new \in Seq(QueuedPoint), Continues(new, last), NEW k, k = Len(new)
  PROVE  /\ s \o new \in Seq(QueuedPoint) /\ Len(s \o new) = Len(s) + k
         /\ \A i \in 1 .. Len(s) : (s \o new)[i] = s[i]
         /\ Run(s \o new, last + k) /\ SentUpTo(s \o new, Len(s))
<1> DEFINE n == Len(s)
           t == s \o new
<1>0. k \in Nat /\ \A i \in 1 .. k : new[i].seq = last + i /\ ~new[i].sent
  BY DEF Continues
<1>1. /\ n \in Nat /\ n <= last /\ \A i \in 1 .. n : s[i].seq = last - n + i
      /\ \A i \in 1 .. n : s[i].sent
  BY DEF Run, SentUpTo
<1>2. /\ t \in Seq(QueuedPoint) /\ Len(t) = n + k
      /\ \A i \in 1 .. n + k : t[i] = IF i <= n THEN s[i] ELSE new[i - n]
  BY <1>0, ConcatProperties
<1> HIDE DEF n, t
<1>3. ASSUME NEW i \in 1 .. n + k
      PROVE  t[i].seq = last - n + i /\ (t[i].sent <=> i <= n) /\ (i <= n => t[i] = s[i])
  <2>1. CASE i <= n
    <3>1. i \in 1 .. n /\ t[i] = s[i]
      BY <1>0, <1>1, <1>2, <2>1
    <3> QED BY <1>1, <2>1, <3>1
  <2>2. CASE ~(i <= n)
    <3>1. i - n \in 1 .. k /\ t[i] = new[i - n] /\ last + (i - n) = last - n + i
      BY <1>0, <1>1, <1>2, <2>2
    <3> QED BY <1>0, <2>2, <3>1
  <2> QED BY <2>1, <2>2
<1>4. Len(t) <= last + k /\ last + k - Len(t) = last - n
  BY <1>0, <1>1, <1>2
<1>5. \A i \in 1 .. Len(t) : t[i].seq = last + k - Len(t) + i
  BY <1>2, <1>3, <1>4, Zenon
<1>6. SentUpTo(t, n)
  BY <1>2, <1>3, Zenon DEF SentUpTo
<1>7. \A i \in 1 .. n : i \in 1 .. n + k /\ i <= n
  BY <1>0, <1>1
<1>8. Run(t, last + k)
  BY <1>4, <1>5 DEF Run
<1>9. \A i \in 1 .. n : t[i] = s[i]
  BY <1>3, <1>7
<1> QED BY <1>2, <1>6, <1>8, <1>9, Zenon DEF n, t

-----------------------------------------------------------------------------
(* Frames.                                                                   *)

LEMMA EndsInRange ==
  ASSUME NEW pts PROVE FrameEnds(pts) \in SUBSET (1 .. Len(pts))
BY Zenon DEF FrameEnds

\* The pieces between the ends follow one another.
LEMMA PiecesFollow ==
  ASSUME NEW n \in Nat, NEW E \in SUBSET (1 .. n)
  PROVE  /\ Cardinality(E) \in Nat
         /\ \A k \in 1 .. Cardinality(E) :
              /\ Position(E, k) \in 1 .. n /\ FrameFrom(E, k) \in 1 .. Position(E, k)
              /\ \A j \in 1 .. k : Position(E, j) <= Position(E, k)
              /\ \A x \in 1 .. Position(E, k) :
                   \E j \in 1 .. k : x \in FrameFrom(E, j) .. Position(E, j)
<1> DEFINE c == Cardinality(E)
           P(k) == Position(E, k)
<1>1. c \in Nat
  BY RankRises
<1>2. /\ \A k \in 1 .. c : P(k) \in 1 .. n
      /\ \A j, k \in 1 .. c : j < k => P(j) < P(k)
  BY PositionRises
<1>3. \A k \in 1 .. c : FrameFrom(E, k) = IF k = 1 THEN 1 ELSE P(k - 1) + 1
  BY DEF FrameFrom
<1> HIDE DEF c, P
<1>4. ASSUME NEW k \in 1 .. c PROVE FrameFrom(E, k) \in 1 .. P(k)
  <2>1. CASE k = 1
    BY <1>2, <1>3, <2>1
  <2>2. CASE k # 1
    <3>1. k - 1 \in 1 .. c /\ k - 1 < k
      BY <1>1, <2>2
    <3>2. P(k - 1) \in 1 .. n /\ P(k - 1) < P(k) /\ P(k) \in 1 .. n
      BY <1>2, <3>1
    <3> QED BY <1>3, <2>2, <3>2
  <2> QED BY <2>1, <2>2
<1>5. ASSUME NEW k \in 1 .. c, NEW j \in 1 .. k PROVE P(j) <= P(k)
  <2>1. j \in 1 .. c /\ (j < k \/ j = k)
    BY <1>1
  <2> QED BY <1>2, <2>1
<1>6. ASSUME NEW k \in 1 .. c, NEW x \in 1 .. P(k)
      PROVE  \E j \in 1 .. k : x \in FrameFrom(E, j) .. P(j)
  <2> DEFINE T == {j \in 1 .. k : x <= P(j)}
  <2>1. T \in SUBSET Nat /\ k \in T
    BY <1>2
  <2>2. PICK j \in T : \A i \in T : j <= i
    BY <2>1, LeastElement
  <2>3. j \in 1 .. k /\ j \in 1 .. c /\ x <= P(j) /\ P(j) \in 1 .. n /\ x \in Nat
    BY <1>1, <1>2, <2>2
  <2>4. FrameFrom(E, j) <= x
    <3>1. CASE j = 1
      BY <1>3, <2>3, <3>1
    <3>2. CASE j # 1
      <4>1. j - 1 \in 1 .. k /\ j - 1 \in 1 .. c /\ ~(j <= j - 1)
        BY <1>1, <2>3, <3>2
      <4>2. ~(x <= P(j - 1)) /\ P(j - 1) \in 1 .. n
        BY <1>2, <2>2, <4>1
      <4> QED BY <1>3, <2>3, <3>2, <4>2
    <3> QED BY <3>1, <3>2
  <2>5. FrameFrom(E, j) \in 1 .. P(j)
    BY <1>4, <2>3
  <2> QED BY <2>3, <2>4, <2>5
<1> QED BY <1>1, <1>2, <1>4, <1>5, <1>6 DEF c, P

\* A frame of the points a to b of a batch that ends at number last.
FrameAt(f, pts, last, a, b) ==
  /\ f.seq = last - Len(pts) + b
  /\ f.pts = SubSeq(pts, a, b) /\ Len(f.pts) = b - a + 1
  /\ \A i \in 1 .. b - a + 1 : f.pts[i] = pts[a + i - 1]

\* The frames that encode_loc_frames cuts a batch into: each has its piece of
\* it, and a number that counts back from the last.
LEMMA FrameParts ==
  ASSUME NEW pts \in Seq(Points), NEW last \in Nat, Len(pts) <= last, last < SeqSpace,
         NEW E, E = FrameEnds(pts)
  PROVE  /\ EncodeLocFrames(last, pts) \in Seq(Frame)
         /\ Len(EncodeLocFrames(last, pts)) = Cardinality(E)
         /\ \A k \in 1 .. Cardinality(E) : FrameAt(EncodeLocFrames(last, pts)[k], pts, last,
                                                 FrameFrom(E, k), Position(E, k))
<1> DEFINE n == Len(pts)
           frames == EncodeLocFrames(last, pts)
           to(k) == Position(E, k)
           from(k) == FrameFrom(E, k)
           frame(k) == [seq |-> (last - n + to(k)) % SeqSpace, pts |-> SubSeq(pts, from(k), to(k))]
<1>1. E \in SUBSET (1 .. n) /\ n \in Nat
  BY EndsInRange
<1>2. frames = [k \in 1 .. Cardinality(E) |-> frame(k)]
  BY Zenon DEF EncodeLocFrames
<1>3. frames \in Seq(Frame)
  BY EncodeType
<1> HIDE DEF n
<1>4. /\ Cardinality(E) \in Nat
      /\ \A k \in 1 .. Cardinality(E) : to(k) \in 1 .. n /\ from(k) \in 1 .. to(k)
  BY <1>1, PiecesFollow
<1>5. Len(frames) = Cardinality(E)
  <2> HIDE DEF frame
  <2> QED BY <1>2, <1>4
<1>6. ASSUME NEW k \in 1 .. Cardinality(E)
      PROVE  FrameAt(frames[k], pts, last, from(k), to(k))
  <2> DEFINE a == from(k)
             b == to(k)
  <2>1. a \in 1 .. b /\ b \in 1 .. n
    BY <1>4
  <2>2. frames[k].seq = (last - n + b) % SeqSpace /\ frames[k].pts = SubSeq(pts, a, b)
    <3>1. frames[k] = frame(k)
      <4> HIDE DEF frame, frames
      <4> QED BY <1>2, Zenon
    <3> HIDE DEF frames
    <3>2. /\ frame(k).seq = (last - n + b) % SeqSpace
          /\ frame(k).pts = SubSeq(pts, a, b)
      <4> HIDE DEF to, from
      <4> QED OBVIOUS
    <3> HIDE DEF frame, a, b
    <3> QED BY <3>1, <3>2, Zenon
  <2> HIDE DEF a, b, frames
  <2>3. last - n + b \in 0 .. SeqSpace - 1 /\ SeqSpace \in Nat \ {0}
    BY <1>1, <2>1, QueueAssumption DEF QueueAssumption, n
  <2>4. (last - n + b) % SeqSpace = last - n + b
    BY <2>3
  <2>5. a \in Int /\ b \in Int /\ a <= b /\ \A i \in a .. b : pts[i] \in Points
    BY <2>1 DEF n
  <2>6. /\ Len(SubSeq(pts, a, b)) = b - a + 1
        /\ \A i \in 1 .. b - a + 1 : SubSeq(pts, a, b)[i] = pts[a + i - 1]
    BY <2>5, SubSeqProperties
  <2>7. FrameAt(frames[k], pts, last, a, b)
    BY <2>2, <2>4, <2>6, Zenon DEF FrameAt, n
  <2> QED BY <2>7 DEF a, b
<1> QED BY <1>3, <1>5, <1>6, Zenon

\* The server gives the points of the first w frames the numbers that count back
\* from the last point of the batch.
LEMMA NumberedByPlace ==
  ASSUME NEW pts \in Seq(Points), NEW last \in Nat, Len(pts) <= last, last < SeqSpace,
         NEW E, E = FrameEnds(pts), NEW w \in 1 .. Cardinality(E)
  PROVE  Numbered(SubSeq(EncodeLocFrames(last, pts), 1, w))
           = {<<last - Len(pts) + x, pts[x]>> : x \in 1 .. Position(E, w)}
<1> DEFINE n == Len(pts)
           frames == EncodeLocFrames(last, pts)
           cut == SubSeq(frames, 1, w)
           to(k) == Position(E, k)
           from(k) == FrameFrom(E, k)
           Places == {<<last - n + x, pts[x]>> : x \in 1 .. to(w)}
<1>1. E \in SUBSET (1 .. n) /\ n \in Nat
  BY EndsInRange
<1>2. /\ w \in 1 .. w /\ \A k \in 1 .. w : k \in 1 .. Cardinality(E)
      /\ \A k \in 1 .. w : to(k) \in Nat /\ from(k) \in Nat /\ 1 <= from(k)
                           /\ from(k) <= to(k) /\ to(k) <= to(w)
      /\ \A x \in 1 .. to(w) : \E k \in 1 .. w : x \in from(k) .. to(k)
  <2>1. /\ Cardinality(E) \in Nat
        /\ \A k \in 1 .. Cardinality(E) :
             /\ to(k) \in 1 .. n /\ from(k) \in 1 .. to(k)
             /\ \A j \in 1 .. k : to(j) <= to(k)
             /\ \A x \in 1 .. to(k) : \E j \in 1 .. k : x \in from(j) .. to(j)
    BY <1>1, PiecesFollow, Zenon
  <2> HIDE DEF to, from, n
  <2>2. w \in 1 .. w /\ \A k \in 1 .. w : k \in 1 .. Cardinality(E)
    BY <2>1
  <2>3. /\ \A x \in 1 .. to(w) : \E k \in 1 .. w : x \in from(k) .. to(k)
        /\ \A k \in 1 .. w : to(k) <= to(w)
    BY <2>1, Zenon
  <2>4. \A k \in 1 .. w : to(k) \in Nat /\ from(k) \in Nat /\ 1 <= from(k) /\ from(k) <= to(k)
    <3>1. ASSUME NEW k \in 1 .. w
          PROVE  to(k) \in Nat /\ from(k) \in Nat /\ 1 <= from(k) /\ from(k) <= to(k)
      <4>1. to(k) \in 1 .. n /\ from(k) \in 1 .. to(k)
        BY <2>1, <2>2, Zenon
      <4> QED BY <4>1
    <3> QED BY <3>1, Zenon
  <2> QED BY <2>2, <2>3, <2>4
<1>3. /\ frames \in Seq(Frame) /\ Len(frames) = Cardinality(E)
      /\ \A k \in 1 .. w :
           /\ frames[k].seq = last - n + to(k)
           /\ Len(frames[k].pts) = to(k) - from(k) + 1
           /\ \A i \in 1 .. to(k) - from(k) + 1 : frames[k].pts[i] = pts[from(k) + i - 1]
  <2>1. /\ frames \in Seq(Frame) /\ Len(frames) = Cardinality(E)
        /\ \A k \in 1 .. Cardinality(E) : FrameAt(frames[k], pts, last, from(k), to(k))
    BY FrameParts, ZenonT(40)
  <2> HIDE DEF to, from, frames
  <2> QED BY <1>2, <2>1, Zenon DEF FrameAt
<1> HIDE DEF frames, n, to, from
<1>4. cut \in Seq(Frame) /\ DOMAIN cut = 1 .. w /\ \A k \in 1 .. w : cut[k] = frames[k]
  <2>1. 1 \in Int /\ w \in Int /\ 1 <= w /\ \A i \in 1 .. w : frames[i] \in Frame
    BY <1>2, <1>3
  <2>2. /\ cut \in Seq(Frame) /\ Len(cut) = w - 1 + 1
        /\ \A k \in 1 .. w - 1 + 1 : cut[k] = frames[1 + k - 1]
    BY <2>1, SubSeqProperties
  <2> HIDE DEF cut
  <2> QED BY <2>1, <2>2
<1>5. \A k \in 1 .. w : DOMAIN cut[k].pts = 1 .. to(k) - from(k) + 1
  <2>1. ASSUME NEW k \in 1 .. w PROVE DOMAIN cut[k].pts = 1 .. to(k) - from(k) + 1
    <3>1. cut[k] \in Frame
      BY <1>4
    <3>2. cut[k].pts \in Seq(Points)
      BY <3>1, Zenon DEF Frame
    <3>3. DOMAIN cut[k].pts = 1 .. Len(cut[k].pts)
      BY <3>2, LenProperties, Zenon
    <3> QED BY <1>3, <1>4, <3>3, Zenon
  <2> QED BY <2>1
<1> HIDE DEF cut
<1>6. ASSUME NEW y
      PROVE  y \in Numbered(cut) <=>
             \E k \in 1 .. w : \E i \in 1 .. to(k) - from(k) + 1 :
               y = <<cut[k].seq - Len(cut[k].pts) + i, cut[k].pts[i]>>
  <2>1. y \in Numbered(cut) <=>
          \E k \in DOMAIN cut : \E i \in DOMAIN cut[k].pts :
            y = <<cut[k].seq - Len(cut[k].pts) + i, cut[k].pts[i]>>
    <3> DEFINE G(f) == {<<f.seq - Len(f.pts) + i, f.pts[i]>> : i \in DOMAIN f.pts}
    <3>1. Numbered(cut) = UNION {G(f) : f \in {cut[k] : k \in DOMAIN cut}}
      BY Zenon DEF Numbered
    <3>2. \A k \in DOMAIN cut : y \in G(cut[k]) <=>
            \E i \in DOMAIN cut[k].pts : y = <<cut[k].seq - Len(cut[k].pts) + i, cut[k].pts[i]>>
      BY Zenon
    <3> HIDE DEF G
    <3>3. y \in UNION {G(f) : f \in {cut[k] : k \in DOMAIN cut}} <=>
            \E k \in DOMAIN cut : y \in G(cut[k])
      OBVIOUS
    <3> QED BY <3>1, <3>2, <3>3, Zenon
  <2> QED BY <1>4, <1>5, <2>1, Zenon
<1>7. ASSUME NEW k \in 1 .. w, NEW i \in 1 .. to(k) - from(k) + 1
      PROVE  /\ from(k) + i - 1 \in 1 .. to(w)
             /\ <<cut[k].seq - Len(cut[k].pts) + i, cut[k].pts[i]>>
                  = <<last - n + (from(k) + i - 1), pts[from(k) + i - 1]>>
  <2>1. /\ cut[k].seq = last - n + to(k) /\ Len(cut[k].pts) = to(k) - from(k) + 1
        /\ cut[k].pts[i] = pts[from(k) + i - 1]
    BY <1>3, <1>4
  <2>2. to(k) \in Nat /\ from(k) \in Nat /\ 1 <= from(k) /\ to(k) <= to(w) /\ to(w) \in Nat
    BY <1>2
  <2>3. from(k) + i - 1 \in 1 .. to(w)
    BY <2>2
  <2>4. cut[k].seq - Len(cut[k].pts) + i = last - n + (from(k) + i - 1)
    BY <1>1, <2>1, <2>2
  <2> QED BY <2>1, <2>3, <2>4, Zenon
<1>8. ASSUME NEW y \in Numbered(cut) PROVE y \in Places
  <2>1. PICK k \in 1 .. w : \E i \in 1 .. to(k) - from(k) + 1 :
               y = <<cut[k].seq - Len(cut[k].pts) + i, cut[k].pts[i]>>
    BY <1>6, <1>8, Zenon
  <2>2. PICK i \in 1 .. to(k) - from(k) + 1 :
               y = <<cut[k].seq - Len(cut[k].pts) + i, cut[k].pts[i]>>
    BY <2>1, Zenon
  <2> QED BY <1>7, <2>2, Zenon
<1>9. ASSUME NEW y \in Places PROVE y \in Numbered(cut)
  <2>1. PICK x \in 1 .. to(w) : y = <<last - n + x, pts[x]>>
    BY <1>9, Zenon
  <2>2. PICK k \in 1 .. w : x \in from(k) .. to(k)
    BY <1>2
  <2> DEFINE i == x - from(k) + 1
  <2>3. i \in 1 .. to(k) - from(k) + 1 /\ from(k) + i - 1 = x
    <3>1. from(k) \in Nat /\ to(k) \in Nat
      BY <1>2
    <3> QED BY <2>2, <3>1
  <2> HIDE DEF i
  <2>4. y = <<cut[k].seq - Len(cut[k].pts) + i, cut[k].pts[i]>>
    BY <1>7, <2>1, <2>3, Zenon
  <2> QED BY <1>6, <2>3, <2>4, Zenon
<1>10. Numbered(cut) = Places
  BY <1>8, <1>9, Zenon
<1> QED BY <1>10, Zenon DEF cut, frames, n, to

\* The points sent from an orderly list.
LEMMA SentByPlace ==
  ASSUME NEW q \in Queue, NEW last \in Nat, Run(q.inflight, last),
         NEW m \in 0 .. Len(q.inflight), SentUpTo(q.inflight, m)
  PROVE  SentBy(q) = {<<last - Len(q.inflight) + i, q.inflight[i].pt>> : i \in 1 .. m}
<1> DEFINE s == q.inflight
           n == Len(s)
<1>1. s \in Seq(QueuedPoint) /\ DOMAIN s = 1 .. n /\ n \in Nat
  BY QueueParts
<1>2. {i \in DOMAIN s : s[i].sent} = 1 .. m
  <2>1. ASSUME NEW i PROVE (i \in DOMAIN s /\ s[i].sent) <=> i \in 1 .. m
    <3>1. i \in 1 .. m <=> i \in 1 .. n /\ i <= m
      BY <1>1
    <3> QED BY <1>1, <3>1, Zenon DEF SentUpTo
  <2> QED BY <2>1, Zenon
<1>3. \A i \in 1 .. m : s[i].seq = last - n + i
  <2>1. \A i \in 1 .. m : i \in 1 .. n
    BY <1>1
  <2> QED BY <2>1, Zenon DEF Run
<1>4. SentBy(q) = {<<s[i].seq, s[i].pt>> : i \in 1 .. m}
  BY <1>2, Zenon DEF SentBy
<1> QED BY <1>3, <1>4, Zenon

-----------------------------------------------------------------------------
(* One round of flush_queue.                                                 *)

\* Without an unsent point all of InFlight was sent.
LEMMA NoneUnsent ==
  ASSUME NEW q \in Queue, UnsentInflight(q) = <<>>
  PROVE  SentUpTo(q.inflight, Len(q.inflight))
<1> DEFINE s == q.inflight
           I == {i \in DOMAIN s : ~s[i].sent}
<1>1. s \in Seq(QueuedPoint) /\ DOMAIN s = 1 .. Len(s) /\ Len(s) \in Nat
  BY QueueParts
<1>2. I \in SUBSET (1 .. Len(s))
  BY <1>1
<1>3. Retain(s, I) = <<>>
  BY Zenon DEF UnsentInflight
<1>4. IsFiniteSet(I) /\ Cardinality(I) \in Nat
  BY <1>1, <1>2, RankRises
<1>5. Retain(s, I) = [j \in 1 .. Cardinality(I) |-> s[Position(I, j)]]
  BY Zenon DEF Retain
<1>6. \A i \in 1 .. Len(s) : s[i].sent \/ i \in I
  BY <1>1, Zenon
<1> HIDE DEF I
<1>7. Cardinality(I) = 0
  <2>1. DOMAIN Retain(s, I) = 1 .. Cardinality(I)
    BY <1>5, Zenon
  <2>2. DOMAIN Retain(s, I) = {}
    BY <1>3
  <2> QED BY <1>4, <2>1, <2>2
<1>8. I = {}
  BY <1>4, <1>7, FS_EmptySet
<1>9. \A i \in 1 .. Len(s) : s[i].sent /\ i <= Len(s)
  BY <1>1, <1>6, <1>8
<1> QED BY <1>9 DEF SentUpTo

\* flush_queue numbers staged points behind the last number assigned, and only
\* when nothing unsent is left in front of them.
LEMMA AssignOrderly ==
  ASSUME NEW q \in Queue, NEW last \in Nat, Orderly(q.inflight, last)
  PROVE  /\ FlushAssign(q, last).queue \in Queue /\ FlushAssign(q, last).assigned \in Nat
         /\ Orderly(FlushAssign(q, last).queue.inflight, FlushAssign(q, last).assigned)
         /\ SentBy(FlushAssign(q, last).queue) = SentBy(q)
         /\ last <= FlushAssign(q, last).assigned
         /\ Len(FlushAssign(q, last).queue.inflight)
              = Len(q.inflight) + (FlushAssign(q, last).assigned - last)
<1> DEFINE a == FlushAssign(q, last)
           s == q.inflight
           n == Len(s)
           room == FrameCap * WindowRemaining(q)
           k == IF Len(q.staging) < room THEN Len(q.staging) ELSE room
           r == AssignFromStaging(q, k, last)
           new == [i \in 1 .. k |-> [seq |-> last + i, pt |-> q.staging[i], sent |-> FALSE]]
<1>1. a.queue \in Queue /\ a.assigned \in Nat
  BY FlushAssignMoves
<1>2. a = IF UnsentInflight(q) # <<>>
          THEN [queue |-> q, assigned |-> last]
          ELSE [queue |-> r, assigned |-> last + k]
  BY Zenon DEF FlushAssign
<1> HIDE DEF a
<1>3. CASE UnsentInflight(q) # <<>>
  <2>1. a.queue = q /\ a.assigned = last
    <3> HIDE DEF r, k
    <3> QED BY <1>2, <1>3
  <2>2. last <= last /\ n = n + (last - last)
    BY QueueParts
  <2> QED BY <1>1, <2>1, <2>2, Zenon DEF a
<1>4. CASE UnsentInflight(q) = <<>>
  <2>1. a.queue = r /\ a.assigned = last + k
    <3> HIDE DEF r, k
    <3> QED BY <1>2, <1>4
  <2>2. s \in Seq(QueuedPoint) /\ n \in Nat /\ q.staging \in Seq(Points) /\ q.frames \in Seq(Nat)
    BY QueueParts
  <2>3. k \in Nat /\ \A i \in 1 .. k : q.staging[i] \in Points
    <3>1. FrameCap \in Nat /\ WindowRemaining(q) \in Nat
      BY <2>2, QueueAssumption DEF QueueAssumption, WindowRemaining
    <3>2. room \in Nat
      <4> HIDE DEF n
      <4> QED BY <3>1
    <3> HIDE DEF room
    <3>3. k \in Nat /\ k <= Len(q.staging)
      BY <2>2, <3>2
    <3> QED BY <2>2, <3>3
  <2>4. r.inflight = s \o new
    <3>1. r = [q EXCEPT !.staging  = SubSeq(q.staging, k + 1, Len(q.staging)),
                        !.inflight = s \o new]
      BY Zenon DEF AssignFromStaging
    <3>2. q \in [staging : Seq(Points), inflight : Seq(QueuedPoint), frames : Seq(Nat)]
      BY Zenon DEF Queue
    <3> HIDE DEF r, new, k, s
    <3> QED BY <3>1, <3>2, Zenon
  <2> HIDE DEF r, k
  <2>5. ASSUME NEW i \in 1 .. k
        PROVE  new[i] \in QueuedPoint /\ new[i].seq = last + i /\ ~new[i].sent
    <3>1. last + i \in Nat /\ q.staging[i] \in Points
      BY <2>3
    <3>2. new[i] = [seq |-> last + i, pt |-> q.staging[i], sent |-> FALSE]
      BY Zenon
    <3> HIDE DEF new
    <3> QED BY <3>1, <3>2 DEF QueuedPoint
  <2>6. new \in Seq(QueuedPoint) /\ Len(new) = k
    <3>1. new = [i \in 1 .. k |-> new[i]]
      BY Zenon
    <3> HIDE DEF new
    <3>2. new \in [1 .. k -> QueuedPoint]
      BY <2>5, <3>1, Zenon
    <3> QED BY <2>3, <3>2
  <2>7. Run(s, last) /\ SentUpTo(s, n)
    BY <1>4, NoneUnsent, Zenon DEF Orderly
  <2> HIDE DEF new
  <2>8. /\ s \o new \in Seq(QueuedPoint) /\ Len(s \o new) = n + k
        /\ \A i \in 1 .. n : (s \o new)[i] = s[i]
        /\ Run(s \o new, last + k) /\ SentUpTo(s \o new, n)
    <3>1. Continues(new, last)
      BY <2>5, <2>6, Zenon DEF Continues
    <3>2. k = Len(new)
      BY <2>6
    <3>3. s \in Seq(QueuedPoint) /\ n = Len(s) /\ Run(s, last) /\ SentUpTo(s, Len(s))
      BY <2>2, <2>7, Zenon
    <3> HIDE DEF s, n, room
    <3>4. /\ s \o new \in Seq(QueuedPoint) /\ Len(s \o new) = Len(s) + k
          /\ \A i \in 1 .. Len(s) : (s \o new)[i] = s[i]
          /\ Run(s \o new, last + k) /\ SentUpTo(s \o new, Len(s))
      BY <2>6, <3>1, <3>2, <3>3, OrderlyAssign, ZenonT(60)
    <3> QED BY <3>3, <3>4, Zenon
  <2>9. n \in 0 .. Len(s \o new) /\ n \in 0 .. n
    BY <2>2, <2>3, <2>8
  <2>10. Orderly(r.inflight, last + k)
    BY <2>4, <2>8, <2>9, Zenon DEF Orderly
  <2>11. SentBy(q) = {<<last - n + i, s[i].pt>> : i \in 1 .. n}
    BY <2>7, <2>9, SentByPlace, ZenonT(40)
  <2>12. SentBy(r) = {<<(last + k) - (n + k) + i, (s \o new)[i].pt>> : i \in 1 .. n}
    <3>1. r \in Queue /\ last + k \in Nat
      BY <1>1, <2>1, Zenon
    <3>2. Run(r.inflight, last + k) /\ n \in 0 .. Len(r.inflight) /\ SentUpTo(r.inflight, n)
      BY <2>4, <2>8, <2>9, Zenon
    <3>3. SentBy(r) = {<<(last + k) - Len(r.inflight) + i, r.inflight[i].pt>> : i \in 1 .. n}
      BY <3>1, <3>2, SentByPlace, ZenonT(40)
    <3> HIDE DEF s, n
    <3> QED BY <2>4, <2>8, <3>3, Zenon
  <2>13. \A i \in 1 .. n : <<(last + k) - (n + k) + i, (s \o new)[i].pt>> = <<last - n + i, s[i].pt>>
    <3>1. \A i \in 1 .. n : (last + k) - (n + k) + i = last - n + i
      <4> HIDE DEF n
      <4> QED BY <2>2, <2>3
    <3> QED BY <2>8, <3>1, Zenon
  <2>14. SentBy(r) = SentBy(q)
    BY <2>11, <2>12, <2>13, Zenon
  <2>15. last <= last + k /\ Len(r.inflight) = n + ((last + k) - last)
    <3> HIDE DEF n
    <3> QED BY <2>2, <2>3, <2>4, <2>8
  <2> QED BY <1>1, <2>1, <2>10, <2>14, <2>15, Zenon DEF a
<1> QED BY <1>3, <1>4

\* The batch of an orderly list is its end, and the last number is its last's.
LEMMA BatchByPlace ==
  ASSUME NEW q \in Queue, NEW last \in Nat, Run(q.inflight, last),
         NEW m \in 0 .. Len(q.inflight), SentUpTo(q.inflight, m),
         NEW batch, batch = UnsentInflight(q), batch # <<>>,
         NEW points, points = [j \in DOMAIN batch |-> batch[j].pt]
  PROVE  /\ batch[Len(batch)].seq = last
         /\ points \in Seq(Points) /\ Len(points) = Len(q.inflight) - m
         /\ \A j \in 1 .. Len(q.inflight) - m : points[j] = q.inflight[m + j].pt
<1> DEFINE s == q.inflight
           n == Len(s)
           I == {i \in DOMAIN s : ~s[i].sent}
<1>1. /\ s \in Seq(QueuedPoint) /\ DOMAIN s = 1 .. n /\ n \in Nat /\ m \in 0 .. n
      /\ n <= last /\ \A i \in 1 .. n : s[i].seq = last - n + i
  <2>1. s \in Seq(QueuedPoint) /\ DOMAIN s = 1 .. n /\ n \in Nat
    BY QueueParts
  <2> QED BY <2>1, Zenon DEF Run
<1>2. I = m + 1 .. n
  <2>1. ASSUME NEW i PROVE (i \in DOMAIN s /\ ~s[i].sent) <=> i \in m + 1 .. n
    <3>1. i \in m + 1 .. n <=> i \in 1 .. n /\ ~(i <= m)
      BY <1>1
    <3>2. \A j \in 1 .. n : s[j].sent <=> j <= m
      BY Zenon DEF SentUpTo
    <3> QED BY <1>1, <3>1, <3>2, Zenon
  <2> QED BY <2>1, Zenon
<1>3. batch = Retain(s, I)
  BY Zenon DEF UnsentInflight
<1>4. /\ batch \in Seq(QueuedPoint) /\ Len(batch) = n - m
      /\ \A j \in 1 .. n - m : batch[j] = s[m + j]
  <2> HIDE DEF s, I
  <2>1. batch = Retain(s, m + 1 .. Len(s))
    BY <1>2, <1>3, Zenon
  <2> QED BY <1>1, <2>1, RetainSuffix
<1> HIDE DEF I
<1>5. n - m \in Nat /\ n - m # 0
  <2>1. Len(batch) # 0
    BY <1>4, EmptySeq
  <2> HIDE DEF n
  <2> QED BY <1>1, <1>4, <2>1
<1>6. batch[Len(batch)].seq = last
  <2> HIDE DEF n
  <2>1. Len(batch) \in 1 .. n - m /\ m + Len(batch) \in 1 .. n /\ last - n + (m + Len(batch)) = last
    BY <1>1, <1>4, <1>5
  <2> QED BY <1>1, <1>4, <2>1, Zenon
<1>7. \A j \in 1 .. n - m : batch[j].pt \in Points
  <2>1. \A j \in 1 .. Len(batch) : batch[j].pt \in Points
    BY <1>4, PointParts
  <2> QED BY <1>4, <2>1, Zenon
<1>8. DOMAIN batch = 1 .. n - m
  <2> HIDE DEF n
  <2> QED BY <1>4
<1>9. points = [j \in 1 .. n - m |-> batch[j].pt]
  BY <1>8, Zenon
<1>10. points \in [1 .. n - m -> Points]
  <2> HIDE DEF n
  <2> QED BY <1>7, <1>9, Zenon
<1>11. \A j \in 1 .. n - m : points[j] = s[m + j].pt
  <2>1. \A j \in 1 .. n - m : points[j] = batch[j].pt
    <3> HIDE DEF n
    <3> QED BY <1>9, Zenon
  <2> QED BY <1>4, <2>1, Zenon
<1>12. points \in Seq(Points) /\ Len(points) = n - m
  <2> HIDE DEF n
  <2> QED BY <1>5, <1>10
<1> QED BY <1>4, <1>6, <1>11, <1>12, Zenon

\* A round with these frames sends the points m + 1 to e of s.
SendsTo(s, last, frames, m, e) ==
  /\ Numbered(frames) = {<<last - Len(s) + i, s[i].pt>> : i \in m + 1 .. e}
  /\ \A i \in 1 .. Len(s) : i <= e <=> \E k \in DOMAIN frames : s[i].seq <= frames[k].seq

\* A round sends the points behind position m up to some position e, each under
\* its own number, and its frame numbers reach that far and no further.
LEMMA EncodeByPlace ==
  ASSUME NEW q \in Queue, NEW last \in Nat, last < SeqSpace, Run(q.inflight, last),
         NEW m \in 0 .. Len(q.inflight), SentUpTo(q.inflight, m),
         NEW frames, frames = FlushEncode(q), frames # <<>>
  PROVE  \E e \in m + 1 .. Len(q.inflight) : SendsTo(q.inflight, last, frames, m, e)
<1> DEFINE s == q.inflight
           n == Len(s)
           batch == UnsentInflight(q)
           points == [i \in DOMAIN batch |-> batch[i].pt]
           encoded == EncodeLocFrames(last, points)
           w == IF Len(encoded) < WindowRemaining(q) THEN Len(encoded) ELSE WindowRemaining(q)
           E == FrameEnds(points)
           to(k) == Position(E, k)
           from(k) == FrameFrom(E, k)
           e == m + to(w)
<1>1. /\ n \in Nat /\ m \in 0 .. n /\ n <= last /\ q.frames \in Seq(Nat)
      /\ \A i \in 1 .. n : s[i].seq = last - n + i
  <2>1. q.inflight \in Seq(QueuedPoint) /\ q.frames \in Seq(Nat)
    BY QueueParts
  <2>2. n \in Nat
    BY <2>1
  <2> QED BY <2>1, <2>2, Zenon DEF Run
<1>2. batch # <<>>
  BY Zenon DEF FlushEncode
<1>3. /\ batch[Len(batch)].seq = last /\ points \in Seq(Points) /\ Len(points) = n - m
      /\ \A j \in 1 .. n - m : points[j] = s[m + j].pt
  <2> HIDE DEF batch
  <2>1. batch = UnsentInflight(q)
    BY DEF batch
  <2>2. points = [i \in DOMAIN batch |-> batch[i].pt]
    BY Zenon
  <2> HIDE DEF points
  <2> QED BY <1>2, <2>1, <2>2, BatchByPlace, SMTT(30)
<1>4. frames = SubSeq(encoded, 1, w)
  <2>1. frames = LET b == UnsentInflight(q)
                     f == EncodeLocFrames(b[Len(b)].seq, [i \in DOMAIN b |-> b[i].pt])
                 IN SubSeq(f, 1, IF Len(f) < WindowRemaining(q) THEN Len(f) ELSE WindowRemaining(q))
    BY <1>2, Zenon DEF FlushEncode
  <2> QED BY <1>3, <2>1, Zenon
<1> HIDE DEF batch, points
<1>5. Len(points) <= last /\ n - m \in Nat
  <2> HIDE DEF n
  <2> QED BY <1>1, <1>3
<1>6. /\ encoded \in Seq(Frame) /\ Len(encoded) = Cardinality(E)
      /\ \A k \in 1 .. Cardinality(E) : FrameAt(encoded[k], points, last, from(k), to(k))
  <2> HIDE DEF E
  <2>1. E = FrameEnds(points)
    BY DEF E
  <2>2. points \in Seq(Points) /\ Len(points) <= last
    BY <1>3, <1>5
  <2> HIDE DEF s, n, e
  <2> QED BY <2>1, <2>2, FrameParts, ZenonT(40)
<1>7. E \in SUBSET (1 .. n - m)
  BY <1>3, EndsInRange, Zenon
<1> HIDE DEF E, encoded
<1>8. /\ Cardinality(E) \in Nat
      /\ \A k \in 1 .. Cardinality(E) :
           /\ to(k) \in 1 .. n - m
           /\ \A j \in 1 .. k : to(j) <= to(k)
  BY <1>5, <1>7, PiecesFollow, Zenon
<1>9. w \in 1 .. Cardinality(E)
  <2>1. WindowRemaining(q) \in Nat
    BY <1>1, QueueAssumption DEF QueueAssumption, WindowRemaining
  <2>2. w \in Nat /\ w <= Cardinality(E)
    BY <1>6, <1>8, <2>1
  <2>3. w # 0
    <3> HIDE DEF w
    <3>1. ASSUME w = 0 PROVE FALSE
      <4>1. frames = SubSeq(encoded, 1, 0)
        BY <1>4, <3>1, Zenon
      <4>2. Len(SubSeq(encoded, 1, 0)) = 0 /\ SubSeq(encoded, 1, 0) \in Seq(Frame)
        <5>1. \A i \in 1 .. 0 : encoded[i] \in Frame
          OBVIOUS
        <5> QED BY <5>1, SubSeqProperties
      <4> QED BY <4>1, <4>2, EmptySeq
    <3> QED BY <3>1
  <2> HIDE DEF w
  <2> QED BY <1>8, <2>2, <2>3
<1> HIDE DEF w
<1>10. Numbered(frames) = {<<last - (n - m) + x, points[x]>> : x \in 1 .. to(w)}
  <2>1. E = FrameEnds(points)
    BY DEF E
  <2>2. Numbered(SubSeq(EncodeLocFrames(last, points), 1, w))
          = {<<last - Len(points) + x, points[x]>> : x \in 1 .. Position(E, w)}
    <3>1. points \in Seq(Points) /\ Len(points) <= last
      BY <1>3, <1>5
    <3> HIDE DEF s, n, e
    <3> QED BY <1>9, <2>1, <3>1, NumberedByPlace, ZenonT(40)
  <2> QED BY <1>3, <1>4, <2>2, Zenon DEF encoded
<1>11. /\ DOMAIN frames = 1 .. w
       /\ \A k \in 1 .. w : frames[k].seq = last - (n - m) + to(k)
  <2>1. 1 <= w /\ w \in Nat /\ \A i \in 1 .. w : i \in 1 .. Cardinality(E)
    BY <1>8, <1>9
  <2>2. \A i \in 1 .. w : encoded[i] \in Frame
    BY <1>6, <2>1
  <2>3. /\ frames \in Seq(Frame) /\ Len(frames) = w - 1 + 1
        /\ \A k \in 1 .. w - 1 + 1 : frames[k] = encoded[1 + k - 1]
    BY <1>4, <2>1, <2>2, SubSeqProperties
  <2>4. DOMAIN frames = 1 .. w /\ \A k \in 1 .. w : frames[k] = encoded[k]
    BY <2>1, <2>3
  <2>5. \A k \in 1 .. Cardinality(E) : encoded[k].seq = last - (n - m) + to(k)
    BY <1>3, <1>6, Zenon DEF FrameAt
  <2> QED BY <2>1, <2>4, <2>5, Zenon
<1>12. \A k \in 1 .. w : to(k) \in 1 .. n - m /\ to(k) <= to(w)
  <2>1. \A k \in 1 .. w : k \in 1 .. Cardinality(E)
    BY <1>8, <1>9
  <2> QED BY <1>8, <1>9, <2>1, Zenon
<1>13. w \in 1 .. w
  BY <1>8, <1>9
<1> HIDE DEF to, n, s
<1>14. e \in m + 1 .. n /\ to(w) \in 1 .. n - m
  BY <1>1, <1>12, <1>13
<1>15. {<<last - (n - m) + x, points[x]>> : x \in 1 .. to(w)}
         = {<<last - n + i, s[i].pt>> : i \in m + 1 .. e}
  <2> DEFINE A(x) == <<last - (n - m) + x, points[x]>>
             B(i) == <<last - n + i, s[i].pt>>
  <2>1. ASSUME NEW x \in 1 .. to(w) PROVE m + x \in m + 1 .. e /\ A(x) = B(m + x)
    <3>1. m + x \in m + 1 .. e /\ x \in 1 .. n - m /\ last - (n - m) + x = last - n + (m + x)
      BY <1>1, <1>14
    <3>2. points[x] = s[m + x].pt
      BY <1>3, <3>1 DEF n, s
    <3> QED BY <3>1, <3>2, Zenon
  <2>2. ASSUME NEW i \in m + 1 .. e PROVE i - m \in 1 .. to(w) /\ B(i) = A(i - m)
    <3>1. i - m \in 1 .. to(w) /\ m + (i - m) = i
      BY <1>1, <1>14
    <3>2. A(i - m) = B(m + (i - m))
      BY <2>1, <3>1
    <3> HIDE DEF A, B
    <3> QED BY <3>1, <3>2, Zenon
  <2> HIDE DEF A, B, e
  <2>3. {A(x) : x \in 1 .. to(w)} = {B(i) : i \in m + 1 .. e}
    BY <2>1, <2>2, Zenon
  <2> QED BY <2>3, Zenon DEF A, B
<1>16. ASSUME NEW i \in 1 .. n
       PROVE  i <= e <=> \E k \in DOMAIN frames : s[i].seq <= frames[k].seq
  <2>1. s[i].seq = last - n + i
    BY <1>1
  <2>2. ASSUME i <= e PROVE s[i].seq <= frames[w].seq
    <3>1. frames[w].seq = last - (n - m) + to(w)
      BY <1>11, <1>13
    <3> QED BY <1>1, <1>14, <2>1, <2>2, <3>1
  <2>3. ASSUME NEW k \in DOMAIN frames, s[i].seq <= frames[k].seq PROVE i <= e
    <3>1. k \in 1 .. w
      BY <1>11, <2>3, Zenon
    <3>2. frames[k].seq = last - (n - m) + to(k) /\ to(k) \in 1 .. n - m /\ to(k) <= to(w)
      BY <1>11, <1>12, <3>1
    <3>3. s[i].seq <= frames[k].seq
      BY <2>3
    <3> HIDE DEF s
    <3> QED BY <1>1, <1>14, <2>1, <3>2, <3>3
  <2> QED BY <1>11, <1>13, <2>2, <2>3, Zenon
<1>17. Numbered(frames) = {<<last - n + i, s[i].pt>> : i \in m + 1 .. e}
  BY <1>10, <1>15, Zenon
<1> HIDE DEF e
<1>18. SendsTo(s, last, frames, m, e)
  BY <1>16, <1>17, Zenon DEF SendsTo, n
<1> QED BY <1>14, <1>18, Zenon DEF s, n

\* The queue after the frames of a round, or the frame of a live point.
LEMMA RecordParts ==
  ASSUME NEW q \in Queue, NEW seqs \in Seq(Nat)
  PROVE  RecordFrames(q, seqs).inflight = SentThrough(q.inflight, seqs)
<1>1. RecordFrames(q, seqs)
        = [q EXCEPT !.frames = q.frames \o seqs, !.inflight = SentThrough(q.inflight, seqs)]
  BY Zenon DEF RecordFrames
<1>2. q \in [staging : Seq(Points), inflight : Seq(QueuedPoint), frames : Seq(Nat)]
  BY Zenon DEF Queue
<1> QED BY <1>1, <1>2, Zenon

\* flush_queue on an orderly list: it stays orderly, and what it newly counts as
\* sent is what the frames carry.
LEMMA RoundOrderly ==
  ASSUME NEW q \in Queue, NEW last \in Nat, last < SeqSpace, Orderly(q.inflight, last),
         NEW frames \in Seq(Frame), frames = FlushEncode(q), frames # <<>>,
         NEW r \in Queue, r = FlushRecord(q, frames)
  PROVE  Orderly(r.inflight, last) /\ Numbered(frames) = SentBy(r) \ SentBy(q)
<1> DEFINE s == q.inflight
           n == Len(s)
           seqs == [i \in DOMAIN frames |-> frames[i].seq]
           t == r.inflight
<1>1. s \in Seq(QueuedPoint) /\ n \in Nat /\ Run(s, last) /\ n <= last
  <2>1. s \in Seq(QueuedPoint) /\ n \in Nat
    BY QueueParts
  <2> QED BY <2>1, Zenon DEF Orderly, Run
<1>2. PICK m \in 0 .. n : SentUpTo(s, m)
  BY Zenon DEF Orderly
<1>3. PICK e \in m + 1 .. n : SendsTo(s, last, frames, m, e)
  <2> HIDE DEF seqs, t
  <2>1. m \in 0 .. Len(q.inflight) /\ SentUpTo(q.inflight, m) /\ Run(q.inflight, last)
    BY <1>1, <1>2, Zenon
  <2> QED BY <2>1, EncodeByPlace, SMTT(30)
<1>4. t = SentThrough(s, seqs)
  <2>1. seqs \in Seq(Nat)
    <3>1. \A i \in DOMAIN frames : frames[i] \in Frame
      OBVIOUS
    <3>2. \A i \in DOMAIN frames : frames[i].seq \in Nat
      BY <3>1, Zenon DEF Frame
    <3> QED BY <3>2
  <2>2. r = RecordFrames(q, seqs)
    BY Zenon DEF FlushRecord
  <2> HIDE DEF seqs
  <2> QED BY <2>1, <2>2, RecordParts, Zenon
<1>5. DOMAIN seqs = DOMAIN frames /\ \A k \in DOMAIN frames : seqs[k] = frames[k].seq
  BY Zenon
<1> HIDE DEF seqs, t, n
<1>6. n = Len(s) /\ m \in 0 .. n /\ e \in 0 .. n /\ m < e
  BY <1>1, <1>2, <1>3 DEF n
<1>7. \A i \in 1 .. n : i <= e <=> \E k \in DOMAIN seqs : s[i].seq <= seqs[k]
  BY <1>3, <1>5, Zenon DEF SendsTo, n
<1>8. SentUpTo(t, e) /\ Orderly(t, last)
  <2>1. ASSUME NEW i \in 1 .. n, s[i].sent PROVE i <= e
    <3>1. i <= m
      BY <1>2, <2>1, Zenon DEF SentUpTo, n
    <3> QED BY <1>1, <1>6, <3>1
  <2>2. \A i \in 1 .. n : i > e => ~(i <= e)
    BY <1>1, <1>6
  <2>3. /\ \A i \in 1 .. Len(s) : s[i].sent => i <= e
        /\ \A i \in 1 .. Len(s) : i <= e => \E k \in DOMAIN seqs : s[i].seq <= seqs[k]
        /\ \A i \in 1 .. Len(s) : i > e => ~\E k \in DOMAIN seqs : s[i].seq <= seqs[k]
    BY <1>6, <1>7, <2>1, <2>2, Zenon
  <2>4. e \in 0 .. Len(s)
    BY <1>6, Zenon
  <2>5. SentUpTo(SentThrough(s, seqs), e) /\ Orderly(SentThrough(s, seqs), last)
    BY <1>1, <2>3, <2>4, OrderlySent, ZenonT(40)
  <2> QED BY <1>4, <2>5, Zenon
<1>9. Len(t) = n /\ \A i \in 1 .. n : t[i].pt = s[i].pt
  BY <1>1, <1>4, <1>6, SentThroughParts, Zenon
<1>10. SentBy(q) = {<<last - n + i, s[i].pt>> : i \in 1 .. m}
  <2>1. m \in 0 .. Len(s) /\ SentUpTo(s, m)
    BY <1>2, <1>6, Zenon
  <2>2. SentBy(q) = {<<last - Len(s) + i, s[i].pt>> : i \in 1 .. m}
    BY <1>1, <2>1, SentByPlace, ZenonT(40)
  <2> QED BY <1>6, <2>2, Zenon
<1>11. SentBy(r) = {<<last - n + i, s[i].pt>> : i \in 1 .. e}
  <2>1. Run(t, last) /\ e \in 0 .. Len(t)
    BY <1>6, <1>8, <1>9, Zenon DEF Orderly
  <2>2. SentBy(r) = {<<last - Len(t) + i, t[i].pt>> : i \in 1 .. e}
    BY <1>8, <2>1, SentByPlace, ZenonT(40) DEF t
  <2>3. \A i \in 1 .. e : i \in 1 .. n
    BY <1>1, <1>6
  <2> QED BY <1>9, <2>2, <2>3, Zenon
<1>12. {<<last - n + i, s[i].pt>> : i \in m + 1 .. e}
         = {<<last - n + i, s[i].pt>> : i \in 1 .. e} \ {<<last - n + i, s[i].pt>> : i \in 1 .. m}
  <2> DEFINE B(i) == <<last - n + i, s[i].pt>>
  <2>1. \A i, j \in 1 .. n : B(i) = B(j) => i = j
    <3>1. \A i, j \in 1 .. n : last - n + i = last - n + j => i = j
      BY <1>1
    <3> QED BY <3>1, Zenon
  <2>2. /\ \A i \in m + 1 .. e : i \in 1 .. n /\ i \in 1 .. e /\ i \notin 1 .. m
        /\ \A i \in 1 .. m : i \in 1 .. n
        /\ \A i \in 1 .. e : i \in 1 .. m \/ i \in m + 1 .. e
    BY <1>1, <1>6
  <2> HIDE DEF B
  <2>3. ASSUME NEW y PROVE y \in {B(i) : i \in m + 1 .. e} <=>
                            y \in {B(i) : i \in 1 .. e} \ {B(i) : i \in 1 .. m}
    BY <2>1, <2>2, Zenon
  <2>4. {B(i) : i \in m + 1 .. e} = {B(i) : i \in 1 .. e} \ {B(i) : i \in 1 .. m}
    BY <2>3, Zenon
  <2> QED BY <2>4, Zenon DEF B
<1>13. Numbered(frames) = {<<last - n + i, s[i].pt>> : i \in m + 1 .. e}
  BY <1>3, Zenon DEF SendsTo, n
<1> QED BY <1>8, <1>10, <1>11, <1>12, <1>13, Zenon DEF t

\* enforce_cap drops a point that awaits an Ack only when nothing is staged.
LEMMA CapKeepsInflight ==
  ASSUME NEW q \in Queue, NEW r \in EnforceCap(q)
  PROVE  \/ r.inflight = q.inflight
         \/ q.staging = <<>> /\ Size(q) > MaxQueue /\ r.inflight = Tail(q.inflight)
<1>1. q \in [staging : Seq(Points), inflight : Seq(QueuedPoint), frames : Seq(Nat)]
  BY Zenon DEF Queue
<1>2. CASE Size(q) <= MaxQueue
  BY <1>2, Zenon DEF EnforceCap
<1>3. CASE ~(Size(q) <= MaxQueue) /\ q.staging # <<>>
  <2>1. PICK i \in {1} \cup 2 .. (Len(q.staging) - 1) :
              r = [q EXCEPT !.staging = RemoveIndex(q.staging, i)]
    BY <1>3, Zenon DEF EnforceCap
  <2> QED BY <1>1, <2>1, Zenon
<1>4. CASE ~(Size(q) <= MaxQueue) /\ q.staging = <<>>
  <2>1. r = [q EXCEPT !.inflight = Tail(q.inflight)]
    BY <1>4, Zenon DEF EnforceCap
  <2>2. r.inflight = Tail(q.inflight)
    BY <1>1, <2>1, Zenon
  <2>3. Size(q) \in Nat /\ MaxQueue \in Nat
    BY SizeIsSum, QueueAssumption DEF QueueAssumption
  <2> QED BY <1>4, <2>2, <2>3
<1> QED BY <1>2, <1>3, <1>4, Zenon

\* push_staging leaves InFlight alone.
LEMMA StageKeepsInflight ==
  ASSUME NEW q \in Queue, NEW pt \in Points, NEW r \in PushStaging(q, pt)
  PROVE  r.inflight = q.inflight
<1> DEFINE longer == [q EXCEPT !.staging = Append(q.staging, pt)]
<1>1. Append(q.staging, pt) \in Seq(Points) /\ Append(q.staging, pt) # <<>>
  BY QueueParts, AppendProperties
<1>2. longer \in Queue /\ longer.staging = Append(q.staging, pt) /\ longer.inflight = q.inflight
  BY <1>1, Zenon DEF Queue
<1>3. r \in EnforceCap(longer)
  BY Zenon DEF PushStaging
<1> HIDE DEF longer
<1> QED BY <1>1, <1>2, <1>3, CapKeepsInflight, Zenon

\* enqueue gives the next number to the point, behind the others.
LEMMA EnqueueRun ==
  ASSUME NEW q \in Queue, NEW last \in Nat, Run(q.inflight, last), NEW pt \in Points,
         NEW r \in Enqueue(q, last + 1, pt)
  PROVE  Run(r.inflight, last + 1)
<1> DEFINE e == [seq |-> last + 1, pt |-> pt, sent |-> TRUE]
           longer == [q EXCEPT !.inflight = Append(q.inflight, e)]
<1>1. e \in QueuedPoint /\ e.seq = last + 1
  BY DEF QueuedPoint
<1>2. r \in EnforceCap(longer)
  BY Zenon DEF Enqueue
<1> HIDE DEF e
<1>3. q.inflight \in Seq(QueuedPoint) /\ Append(q.inflight, e) \in Seq(QueuedPoint)
  BY <1>1, QueueParts, AppendProperties
<1>4. longer \in Queue /\ longer.inflight = Append(q.inflight, e)
  BY <1>3, Zenon DEF Queue
<1> HIDE DEF longer
<1>5. Run(Append(q.inflight, e), last + 1) /\ Run(Tail(Append(q.inflight, e)), last + 1)
  BY <1>1, <1>3, RunAppend
<1>6. r.inflight = longer.inflight \/ r.inflight = Tail(longer.inflight)
  BY <1>2, <1>4, CapKeepsInflight, Zenon
<1> QED BY <1>4, <1>5, <1>6, Zenon

-----------------------------------------------------------------------------
(* What holds of the numbers also when they no longer fit the wire.          *)

\* Frames are numbered by position, so record_frame marks a beginning of InFlight
\* as sent, whatever the numbers of the frames.
LEMMA SentAnyway ==
  ASSUME NEW s \in Seq(QueuedPoint), NEW last \in Nat, Orderly(s, last), NEW seqs \in Seq(Nat)
  PROVE  Orderly(SentThrough(s, seqs), last)
<1> DEFINE n == Len(s)
           Sent(i) == s[i].sent \/ \E k \in DOMAIN seqs : s[i].seq <= seqs[k]
           T == {i \in 1 .. n : ~Sent(i)}
           t == SentThrough(s, seqs)
<1>1. /\ n \in Nat /\ n <= last /\ \A i \in 1 .. n : s[i].seq = last - n + i
  BY DEF Orderly, Run
<1>2. PICK m \in 0 .. n : \A i \in 1 .. n : s[i].sent <=> i <= m
  BY Zenon DEF Orderly, SentUpTo
<1>3. /\ Len(t) = n
      /\ \A i \in 1 .. n : t[i].seq = s[i].seq /\ (t[i].sent <=> Sent(i))
  BY SentThroughParts, Zenon
<1>4. ASSUME NEW i \in 1 .. n, NEW j \in 1 .. n, i <= j, Sent(j) PROVE Sent(i)
  <2> HIDE DEF n
  <2>1. CASE s[j].sent
    <3>1. i <= m
      BY <1>1, <1>2, <1>4, <2>1
    <3> QED BY <1>2, <3>1
  <2>2. CASE ~s[j].sent
    <3>1. PICK k \in DOMAIN seqs : s[j].seq <= seqs[k]
      BY <1>4, <2>2
    <3>2. seqs[k] \in Nat
      OBVIOUS
    <3>3. s[i].seq <= seqs[k]
      BY <1>1, <1>4, <3>1, <3>2
    <3> QED BY <3>3
  <2> QED BY <2>1, <2>2
<1> HIDE DEF Sent, t, n
<1>5. \E e \in 0 .. n : \A i \in 1 .. n : Sent(i) <=> i <= e
  <2>1. CASE T = {}
    <3>1. \A i \in 1 .. n : Sent(i)
      BY <2>1
    <3>2. n \in 0 .. n /\ \A i \in 1 .. n : i <= n
      BY <1>1
    <3> QED BY <3>1, <3>2
  <2>2. CASE T # {}
    <3>1. T \in SUBSET Nat
      BY <1>1
    <3>2. PICK x \in T : \A k \in T : x <= k
      BY <2>2, <3>1, LeastElement
    <3>3. x \in 1 .. n /\ ~Sent(x) /\ x - 1 \in 0 .. n
      BY <1>1, <3>2
    <3>4. ASSUME NEW i \in 1 .. n PROVE Sent(i) <=> i <= x - 1
      <4>1. CASE i < x
        <5>1. Sent(i)
          <6>1. i \notin T
            BY <1>1, <3>2, <3>3, <4>1
          <6> QED BY <6>1
        <5> QED BY <1>1, <3>3, <4>1, <5>1
      <4>2. CASE ~(i < x)
        <5>1. x <= i
          BY <1>1, <3>3, <4>2
        <5>2. ~Sent(i)
          BY <1>4, <3>3, <5>1
        <5> QED BY <1>1, <3>3, <5>1, <5>2
      <4> QED BY <4>1, <4>2
    <3> QED BY <3>3, <3>4
  <2> QED BY <2>1, <2>2
<1>6. PICK e \in 0 .. n : \A i \in 1 .. n : Sent(i) <=> i <= e
  BY <1>5
<1>7. SentUpTo(t, e) /\ e \in 0 .. Len(t)
  BY <1>3, <1>6, Zenon DEF SentUpTo
<1>8. Run(t, last)
  <2>1. \A i \in 1 .. Len(t) : t[i].seq = last - Len(t) + i
    BY <1>1, <1>3, Zenon
  <2> QED BY <1>1, <1>3, <2>1 DEF Run
<1> QED BY <1>7, <1>8, Zenon DEF Orderly, t

\* A live point takes the next number and counts as sent.
LEMMA LiveOrderly ==
  ASSUME NEW q \in Queue, NEW last \in Nat, NEW n, n = last + 1, Run(q.inflight, last),
         NEW pt \in Points, NEW r \in Enqueue(q, n, pt), r \in Queue
  PROVE  /\ Orderly(RecordFrames(r, <<n>>).inflight, n)
         /\ Len(RecordFrames(r, <<n>>).inflight) <= Len(q.inflight) + 1
<1> DEFINE s == r.inflight
           t == SentThrough(s, <<n>>)
<1>1. n \in Nat /\ <<n>> \in Seq(Nat) /\ DOMAIN <<n>> = {1} /\ <<n>>[1] = n
  OBVIOUS
<1>2. Run(s, n) /\ s \in Seq(QueuedPoint) /\ Len(s) \in Nat
  BY EnqueueRun, QueueParts
<1>3. RecordFrames(r, <<n>>).inflight = t
  BY <1>1, RecordParts
<1> HIDE DEF s
<1>4. \A i \in 1 .. Len(s) : s[i].seq <= n /\ i <= Len(s) /\ ~(i > Len(s))
  <2>1. Len(s) <= n /\ \A i \in 1 .. Len(s) : s[i].seq = n - Len(s) + i
    BY <1>2, Zenon DEF Run
  <2> QED BY <1>1, <1>2, <2>1
<1>5. Len(s) \in 0 .. Len(s)
  BY <1>2
<1>6. /\ \A i \in 1 .. Len(s) : s[i].sent => i <= Len(s)
      /\ \A i \in 1 .. Len(s) : i <= Len(s) => \E k \in DOMAIN <<n>> : s[i].seq <= <<n>>[k]
      /\ \A i \in 1 .. Len(s) : i > Len(s) => ~\E k \in DOMAIN <<n>> : s[i].seq <= <<n>>[k]
  <2>1. 1 \in DOMAIN <<n>> /\ <<n>>[1] = n
    BY <1>1
  <2>2. \A i \in 1 .. Len(s) : s[i].seq <= <<n>>[1]
    BY <1>1, <1>4, Zenon
  <2> QED BY <1>4, <2>1, <2>2, Zenon
<1>7. Orderly(t, n)
  BY <1>1, <1>2, <1>5, <1>6, OrderlySent, ZenonT(40)
<1>8. Len(t) = Len(s)
  BY <1>2, SentThroughParts
<1>9. Len(s) <= Len(q.inflight) + 1
  <2> DEFINE e == [seq |-> n, pt |-> pt, sent |-> TRUE]
             longer == [q EXCEPT !.inflight = Append(q.inflight, e)]
  <2>1. e \in QueuedPoint
    BY <1>1 DEF QueuedPoint
  <2>2. r \in EnforceCap(longer)
    BY Zenon DEF Enqueue
  <2> HIDE DEF e
  <2>3. /\ q.inflight \in Seq(QueuedPoint) /\ Append(q.inflight, e) \in Seq(QueuedPoint)
        /\ Len(Append(q.inflight, e)) = Len(q.inflight) + 1 /\ Append(q.inflight, e) # <<>>
        /\ Len(q.inflight) \in Nat
    <3>1. q.inflight \in Seq(QueuedPoint) /\ Len(q.inflight) \in Nat
      BY QueueParts
    <3> QED BY <2>1, <3>1, AppendProperties
  <2>4. longer \in Queue /\ longer.inflight = Append(q.inflight, e)
    BY <2>3, Zenon DEF Queue
  <2> HIDE DEF longer
  <2>5. s = Append(q.inflight, e) \/ s = Tail(Append(q.inflight, e))
    BY <2>2, <2>4, CapKeepsInflight, Zenon DEF s
  <2>6. Len(Tail(Append(q.inflight, e))) = Len(Append(q.inflight, e)) - 1
    BY <2>3, HeadTailProperties
  <2> QED BY <2>3, <2>5, <2>6
<1> QED BY <1>3, <1>7, <1>8, <1>9, Zenon

\* No frame has a number ahead of the last point of its batch.
LEMMA EncodedBehind ==
  ASSUME NEW last \in Nat, NEW pts \in Seq(Points), Len(pts) <= last
  PROVE  /\ EncodeLocFrames(last, pts) \in Seq(Frame)
         /\ \A k \in DOMAIN EncodeLocFrames(last, pts) : EncodeLocFrames(last, pts)[k].seq <= last
<1> DEFINE n     == Len(pts)
           E     == FrameEnds(pts)
           count == Cardinality(E)
           to(k) == Position(E, k)
           frame(k) == [seq |-> (last - n + to(k)) % SeqSpace,
                        pts |-> SubSeq(pts, FrameFrom(E, k), to(k))]
           frames == EncodeLocFrames(last, pts)
<1>1. E \in SUBSET (1 .. n) /\ n \in Nat /\ frames \in Seq(Frame)
  BY EndsInRange, EncodeType
<1>2. frames = [k \in 1 .. count |-> frame(k)]
  BY Zenon DEF EncodeLocFrames
<1> HIDE DEF E
<1>3. ASSUME NEW k \in 1 .. count PROVE frame(k).seq <= last
  <2>1. to(k) \in 1 .. n
    BY <1>1, PositionInRange
  <2>2. frame(k).seq = (last - n + to(k)) % SeqSpace
    <3> HIDE DEF to
    <3> QED OBVIOUS
  <2> HIDE DEF frame, to, n
  <2>3. last - n + to(k) \in 0 .. last /\ SeqSpace \in Nat \ {0}
    BY <1>1, <2>1, QueueAssumption DEF QueueAssumption, n
  <2>4. \A x \in Nat : x % SeqSpace <= x
    <3> SUFFICES ASSUME NEW x \in Nat PROVE x % SeqSpace <= x
      OBVIOUS
    <3>1. x < SeqSpace => x % SeqSpace = x
      BY <2>3
    <3>2. x % SeqSpace \in 0 .. SeqSpace - 1
      BY <2>3
    <3> QED BY <2>3, <3>1, <3>2
  <2>5. (last - n + to(k)) % SeqSpace \in Nat
    BY <2>3
  <2>6. (last - n + to(k)) % SeqSpace <= last - n + to(k)
    BY <2>3, <2>4
  <2> QED BY <2>2, <2>3, <2>5, <2>6
<1> HIDE DEF frame, count
<1>4. \A k \in DOMAIN frames : frames[k].seq <= last
  BY <1>2, <1>3, Zenon
<1> QED BY <1>1, <1>4

\* So no frame of a round has a number ahead of those given out.
LEMMA RoundBehind ==
  ASSUME NEW q \in Queue, NEW last \in Nat, Orderly(q.inflight, last),
         NEW frames, frames = FlushEncode(q)
  PROVE  \A k \in DOMAIN frames : frames[k].seq <= last
<1> DEFINE batch == UnsentInflight(q)
           points == [i \in DOMAIN batch |-> batch[i].pt]
           encoded == EncodeLocFrames(last, points)
           w == IF Len(encoded) < WindowRemaining(q) THEN Len(encoded) ELSE WindowRemaining(q)
<1>1. CASE batch = <<>>
  <2>1. frames = <<>>
    BY <1>1, Zenon DEF FlushEncode
  <2> QED BY <2>1
<1>2. CASE batch # <<>>
  <2>1. PICK m \in 0 .. Len(q.inflight) : SentUpTo(q.inflight, m)
    BY DEF Orderly
  <2>2. Run(q.inflight, last)
    BY DEF Orderly
  <2>3. batch[Len(batch)].seq = last /\ points \in Seq(Points) /\ Len(points) = Len(q.inflight) - m
    <3> HIDE DEF batch
    <3>1. batch = UnsentInflight(q)
      BY DEF batch
    <3>2. points = [i \in DOMAIN batch |-> batch[i].pt]
      BY Zenon
    <3> HIDE DEF points
    <3> QED BY <1>2, <2>1, <2>2, <3>1, <3>2, BatchByPlace, SMTT(30)
  <2>4. frames = SubSeq(encoded, 1, w)
    <3>1. frames = LET b == UnsentInflight(q)
                       f == EncodeLocFrames(b[Len(b)].seq, [i \in DOMAIN b |-> b[i].pt])
                   IN SubSeq(f, 1, IF Len(f) < WindowRemaining(q) THEN Len(f) ELSE WindowRemaining(q))
      BY <1>2, Zenon DEF FlushEncode
    <3> QED BY <2>3, <3>1, Zenon
  <2> HIDE DEF batch, points
  <2>5. Len(points) <= last
    <3>1. Len(q.inflight) <= last /\ Len(q.inflight) \in Nat
      BY <2>2, QueueParts DEF Run
    <3> QED BY <2>3, <3>1
  <2>6. encoded \in Seq(Frame) /\ \A k \in DOMAIN encoded : encoded[k].seq <= last
    BY <2>3, <2>5, EncodedBehind
  <2> HIDE DEF encoded
  <2>7. w \in Nat /\ w <= Len(encoded) /\ Len(encoded) \in Nat /\ DOMAIN encoded = 1 .. Len(encoded)
    <3>1. Len(q.frames) \in Nat /\ Window \in Nat
      BY QueueParts, QueueAssumption DEF QueueAssumption
    <3>2. WindowRemaining(q) \in Nat
      BY <3>1 DEF WindowRemaining
    <3> QED BY <2>6, <3>2
  <2> HIDE DEF w
  <2>8. DOMAIN frames = 1 .. w /\ \A k \in 1 .. w : k \in DOMAIN encoded /\ frames[k] = encoded[k]
    <3>1. \A i \in 1 .. w : encoded[i] \in Frame
      BY <2>6, <2>7
    <3>2. Len(frames) = w /\ DOMAIN frames = 1 .. w /\ \A i \in 1 .. w : frames[i] = encoded[i]
      BY <2>4, <2>7, <3>1, SubSeqProperties
    <3> QED BY <2>7, <3>2
  <2> QED BY <2>6, <2>8, Zenon
<1> QED BY <1>1, <1>2

\* InFlight after AckThrough: none of it is acked.
LEMMA AckedOrderly ==
  ASSUME NEW q \in Queue, NEW last \in Nat, Orderly(q.inflight, last), NEW ack \in Nat, ack <= last
  PROVE  /\ Orderly(AckThrough(q, ack).inflight, last)
         /\ Len(AckThrough(q, ack).inflight) <= Len(q.inflight)
         /\ ack + Len(AckThrough(q, ack).inflight) <= last
<1> DEFINE s == q.inflight
           I == {i \in DOMAIN s : s[i].seq > ack}
           F == {i \in DOMAIN q.frames : q.frames[i] > ack}
<1>1. s \in Seq(QueuedPoint)
  BY QueueParts
<1>2. AckThrough(q, ack) = [q EXCEPT !.inflight = Retain(s, I), !.frames = Retain(q.frames, F)]
  BY Zenon DEF AckThrough
<1>3. q \in [staging : Seq(Points), inflight : Seq(QueuedPoint), frames : Seq(Nat)]
  BY Zenon DEF Queue
<1>4. Orderly(Retain(s, I), last) /\ Len(Retain(s, I)) <= Len(s) /\ ack + Len(Retain(s, I)) <= last
  BY <1>1, OrderlyAck
<1> HIDE DEF I, F
<1>5. AckThrough(q, ack).inflight = Retain(s, I)
  BY <1>2, <1>3, Zenon
<1> QED BY <1>4, <1>5, Zenon

\* InFlight after MarkUnsent.
LEMMA UnsentOrderly ==
  ASSUME NEW q \in Queue, NEW last \in Nat, Orderly(q.inflight, last)
  PROVE  Orderly(MarkUnsent(q).inflight, last) /\ Len(MarkUnsent(q).inflight) = Len(q.inflight)
<1> DEFINE s == q.inflight
           t == [i \in DOMAIN s |-> [s[i] EXCEPT !.sent = FALSE]]
<1>1. s \in Seq(QueuedPoint)
  BY QueueParts
<1>2. MarkUnsent(q) = [q EXCEPT !.inflight = t, !.frames = <<>>]
  BY Zenon DEF MarkUnsent
<1>3. q \in [staging : Seq(Points), inflight : Seq(QueuedPoint), frames : Seq(Nat)]
  BY Zenon DEF Queue
<1>4. Orderly(t, last)
  BY <1>1, OrderlyUnsent
<1>5. Len(t) = Len(s)
  BY <1>1
<1> HIDE DEF t
<1>6. MarkUnsent(q).inflight = t
  BY <1>2, <1>3, Zenon
<1> QED BY <1>4, <1>5, <1>6, Zenon
===============================================================================
