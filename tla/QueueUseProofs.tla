----------------------------- MODULE QueueUseProofs -----------------------------
(***************************************************************************)
(* The frames of a backlog carry its points under their own numbers, and   *)
(* are as full as they may be, for every window, frame size and geometry.  *)
(***************************************************************************)
EXTENDS QueueUse, OfflineQueueProofs

-----------------------------------------------------------------------------
(* Every reachable queue is orderly.                                         *)

QInv ==
  /\ queue \in Queue /\ Bounded(queue)
  /\ assigned \in Nat /\ assigned <= MaxSeq
  /\ Orderly(queue.inflight, assigned)

LEMMA QInvHoldsAtFirst == Init => QInv
<1> SUFFICES ASSUME Init PROVE QInv
  OBVIOUS
<1>1. queue = EmptyQueue /\ assigned = 0 /\ 0 <= MaxSeq
  BY UseAssumption DEF Init, UseAssumption
<1>2. queue \in Queue /\ Bounded(queue)
  BY <1>1, EmptyQueueBounded
<1>3. queue.inflight = <<>>
  BY <1>1 DEF EmptyQueue
<1>4. Run(<<>>, 0) /\ SentUpTo(<<>>, 0) /\ 0 \in 0 .. Len(<<>>)
  BY DEF Run, SentUpTo
<1>5. Orderly(<<>>, 0)
  BY <1>4, Zenon DEF Orderly
<1> QED BY <1>1, <1>2, <1>3, <1>5 DEF QInv

\* publish, live: the point takes the next number and counts as sent.
LEMMA LiveKeeps ==
  ASSUME QInv, Live PROVE QInv'
<1>1. PICK pt \in Points : \E q \in Enqueue(queue, assigned', pt) :
                             queue' = RecordFrames(q, <<assigned'>>)
  BY DEF Live
<1>2. PICK q \in Enqueue(queue, assigned', pt) : queue' = RecordFrames(q, <<assigned'>>)
  BY <1>1
<1> DEFINE last == assigned + 1
<1>3. /\ queue \in Queue /\ Bounded(queue) /\ assigned \in Nat /\ assigned <= MaxSeq
      /\ Run(queue.inflight, assigned)
  BY DEF QInv, Orderly
<1>4. assigned' = last /\ last \in Nat /\ last <= MaxSeq /\ Len(queue.frames) < Window
  <2>1. Len(queue.frames) \in Nat /\ Window \in Nat /\ MaxSeq \in Nat
    BY <1>3, QueueParts, QueueAssumption, UseAssumption DEF QueueAssumption, UseAssumption
  <2>2. ~(Len(queue.frames) >= Window) /\ assigned < MaxSeq /\ assigned' = last
    BY DEF Live, WindowFull
  <2> QED BY <1>3, <2>1, <2>2
<1>5. q \in Enqueue(queue, last, pt) /\ queue' = RecordFrames(q, <<last>>)
  BY <1>2, <1>4, Zenon
<1>6. q \in Queue /\ Size(q) <= MaxQueue /\ q.frames = queue.frames
  <2> HIDE DEF last
  <2> QED BY <1>3, <1>4, <1>5, EnqueueBounded
<1> HIDE DEF last
<1>9. <<last>> \in Seq(Nat) /\ Len(<<last>>) = 1 /\ DOMAIN <<last>> = {1} /\ <<last>>[1] = last
  BY <1>4
<1>10. /\ queue' \in Queue /\ Size(queue') = Size(q)
       /\ Len(queue'.frames) = Len(q.frames) + Len(<<last>>)
  BY <1>5, <1>6, <1>9, RecordFramesAdds, Zenon
<1>11. Bounded(queue')
  <2>1. Len(queue.frames) \in Nat /\ Window \in Nat
    BY <1>3, QueueParts, QueueAssumption DEF QueueAssumption
  <2>2. Len(queue'.frames) = Len(queue.frames) + 1
    BY <1>6, <1>9, <1>10, Zenon
  <2>3. Len(queue'.frames) <= Window
    BY <1>4, <2>1, <2>2
  <2> QED BY <1>6, <1>10, <2>3, Zenon DEF Bounded
<1>12. Orderly(queue'.inflight, last)
  <2>1. last = assigned + 1
    BY DEF last
  <2> HIDE DEF last
  <2>2. Orderly(RecordFrames(q, <<last>>).inflight, last)
    BY <1>3, <1>5, <1>6, <2>1, LiveOrderly
  <2> QED BY <1>5, <2>2, Zenon
<1> QED BY <1>4, <1>10, <1>11, <1>12, Zenon DEF QInv

\* One round of flush_queue: the frames are the points it newly counts as sent.
LEMMA RoundKeeps ==
  ASSUME QInv, FlushRound
  PROVE  QInv' /\ Numbered(out') = SentBy(queue') \ SentBy(queue)
<1> DEFINE a == FlushAssign(queue, assigned)
           frames == FlushEncode(a.queue)
<1>1. /\ frames # <<>> /\ a.assigned <= MaxSeq
      /\ queue' = FlushRecord(a.queue, frames) /\ assigned' = a.assigned /\ out' = frames
  BY Zenon DEF FlushRound
<1>2. queue \in Queue /\ Bounded(queue) /\ assigned \in Nat /\ Orderly(queue.inflight, assigned)
  BY DEF QInv
<1>3. /\ a.queue \in Queue /\ a.assigned \in Nat
      /\ Orderly(a.queue.inflight, a.assigned) /\ SentBy(a.queue) = SentBy(queue)
  BY <1>2, AssignOrderly, Zenon
<1>4. Bounded(a.queue)
  <2>1. Size(a.queue) = Size(queue) /\ a.queue.frames = queue.frames
    BY <1>2, FlushAssignMoves, Zenon
  <2> QED BY <1>2, <2>1, Zenon DEF Bounded
<1> HIDE DEF a
<1>5. frames \in Seq(Frame) /\ Len(a.queue.frames) + Len(frames) <= Window
  BY <1>3, <1>4, FlushEncodeFits, Zenon
<1>6. frames = FlushEncode(a.queue)
  OBVIOUS
<1> HIDE DEF frames
<1>7. queue' \in Queue /\ Bounded(queue')
  BY <1>1, <1>3, <1>4, <1>5, FlushRecordBounded, Zenon
<1>8. a.assigned < SeqSpace
  BY <1>1, <1>3, UseAssumption, QueueAssumption DEF UseAssumption, QueueAssumption
<1>9. Orderly(queue'.inflight, a.assigned) /\ Numbered(frames) = SentBy(queue') \ SentBy(a.queue)
  BY <1>1, <1>3, <1>5, <1>6, <1>7, <1>8, RoundOrderly, ZenonT(40)
<1> QED BY <1>1, <1>3, <1>7, <1>9, Zenon DEF QInv

LEMMA QInvKept == QInv /\ [Next]_vars => QInv'
<1> SUFFICES ASSUME QInv, [Next]_vars PROVE QInv'
  OBVIOUS
<1>1. /\ queue \in Queue /\ Bounded(queue) /\ assigned \in Nat /\ assigned <= MaxSeq
      /\ Orderly(queue.inflight, assigned)
  BY DEF QInv
<1>2. CASE Stage
  <2>1. PICK pt \in Points : \E q \in PushStaging(queue, pt) : queue' = q
    BY <1>2, Zenon DEF Stage
  <2>2. queue' \in PushStaging(queue, pt) /\ assigned' = assigned
    BY <1>2, <2>1, Zenon DEF Stage
  <2>3. queue' \in Queue /\ Bounded(queue') /\ queue'.inflight = queue.inflight
    BY <1>1, <2>2, PushStagingBounded, StageKeepsInflight, Zenon
  <2> QED BY <1>1, <2>2, <2>3, Zenon DEF QInv
<1>3. CASE Live
  BY <1>3, LiveKeeps
<1>4. CASE FlushRound
  BY <1>4, RoundKeeps
<1>5. CASE \E ack \in 1 .. assigned : Acked(ack)
  <2>1. PICK ack \in 1 .. assigned : Acked(ack)
    BY <1>5
  <2>2. queue' = AckThrough(queue, ack) /\ assigned' = assigned /\ ack \in Nat
    BY <1>1, <2>1 DEF Acked
  <2>3. queue' \in Queue /\ Bounded(queue')
    BY <1>1, <2>2, AckThroughBounded, Zenon
  <2>4. ack <= assigned
    BY <1>1
  <2>5. Orderly(queue'.inflight, assigned)
    BY <1>1, <2>2, <2>4, AckedOrderly
  <2> QED BY <1>1, <2>2, <2>3, <2>5, Zenon DEF QInv
<1>6. CASE Lost
  <2>1. queue' = MarkUnsent(queue) /\ assigned' = assigned
    BY <1>6, Zenon DEF Lost
  <2>2. queue' \in Queue /\ Bounded(queue')
    BY <1>1, <2>1, MarkUnsentBounded, Zenon
  <2>3. Orderly(queue'.inflight, assigned)
    BY <1>1, <2>1, UnsentOrderly
  <2> QED BY <1>1, <2>1, <2>2, <2>3, Zenon DEF QInv
<1>7. CASE UNCHANGED vars
  BY <1>1, <1>7, Zenon DEF vars, QInv
<1> QED BY <1>2, <1>3, <1>4, <1>5, <1>6, <1>7 DEF Next

LEMMA QInvHolds == Spec => []QInv
BY QInvHoldsAtFirst, QInvKept, PTL DEF Spec

\* InFlight stays in order, whatever was acked, dropped or lost before.
THEOREM StaysInOrder == Spec => []InflightInOrder
<1>1. QInv => InflightInOrder
  BY DEF QInv, InflightInOrder
<1> QED BY <1>1, QInvHolds, PTL

\* Whatever was acked, dropped or lost before, flush_queue marks exactly the
\* points it puts into frames, under the numbers the server will give them.
THEOREM NumbersKept == Spec => FlushKeepsNumbers
<1>1. QInv /\ [Next]_vars => [FlushRound => Numbered(out') = SentBy(queue') \ SentBy(queue)]_vars
  BY RoundKeeps
<1> QED BY <1>1, QInvHolds, PTL DEF Spec, FlushKeepsNumbers

-----------------------------------------------------------------------------
(* The cut of a backlog into frames.                                         *)

\* Point i goes behind point i - 1, whose frame begins at f[i - 1].
Joins(f, pts, i) ==
  i > 1 /\ i - f[i - 1] < FrameCap /\ <<pts[i - 1], pts[i]>> \in Fits

\* f gives the first point of the frame of each of the first n points.
IsFirst(f, pts, n) == f = [i \in 1 .. n |-> IF Joins(f, pts, i) THEN f[i - 1] ELSE i]

\* encode_loc_frames looks at one point after the other and only at the frame
\* it is filling, so that there always is such a function.
LEMMA FirstExists ==
  ASSUME NEW pts \in Seq(Points) PROVE \E f : IsFirst(f, pts, Len(pts))
<1> DEFINE T == {n \in 0 .. Len(pts) : ~\E f : IsFirst(f, pts, n)}
<1>1. Len(pts) \in Nat
  OBVIOUS
<1>2. ASSUME T # {} PROVE FALSE
  <2>1. T \in SUBSET Nat
    BY <1>1
  <2>2. PICK n \in T : \A k \in T : n <= k
    BY <1>2, <2>1, LeastElement, Zenon
  <2>3. n \in 0 .. Len(pts) /\ ~\E f : IsFirst(f, pts, n)
    BY <2>2, Zenon
  <2>4. CASE n = 0
    <3> DEFINE f == [i \in 1 .. 0 |-> 0]
    <3>1. f = [i \in 1 .. 0 |-> IF Joins(f, pts, i) THEN f[i - 1] ELSE i]
      <4>1. \A i \in 1 .. 0 : FALSE
        OBVIOUS
      <4> QED BY <4>1, Zenon
    <3> HIDE DEF f
    <3>2. IsFirst(f, pts, 0)
      BY <3>1, Zenon DEF IsFirst
    <3> QED BY <2>3, <2>4, <3>2, Zenon
  <2>5. CASE n # 0
    <3>1. n \in Nat /\ n - 1 \in 0 .. Len(pts) /\ ~(n <= n - 1)
      BY <1>1, <2>3, <2>5
    <3>2. PICK f : IsFirst(f, pts, n - 1)
      BY <2>2, <3>1, Zenon
    <3> DEFINE g == [i \in 1 .. n |-> IF i # n THEN f[i]
                                      ELSE IF Joins(f, pts, n) THEN f[n - 1] ELSE n]
    <3>3. \A i \in 1 .. n - 1 : f[i] = IF Joins(f, pts, i) THEN f[i - 1] ELSE i
      <4>1. f = [i \in 1 .. n - 1 |-> IF Joins(f, pts, i) THEN f[i - 1] ELSE i]
        BY <3>2, Zenon DEF IsFirst
      <4> QED BY <4>1, Zenon
    <3>4. /\ \A i \in 1 .. n : i # n => g[i] = f[i]
          /\ n \in 1 .. n /\ g[n] = IF Joins(f, pts, n) THEN f[n - 1] ELSE n
      <4>1. n \in 1 .. n
        BY <3>1, <2>5
      <4> QED BY <4>1, Zenon
    <3>5. DOMAIN g = 1 .. n /\ g = [i \in 1 .. n |-> g[i]]
      BY Zenon
    <3> HIDE DEF g
    <3>6. ASSUME NEW i \in 1 .. n PROVE Joins(g, pts, i) <=> Joins(f, pts, i)
      <4>1. CASE i = 1
        <5>1. ~(i > 1)
          BY <4>1
        <5> QED BY <5>1, Zenon DEF Joins
      <4>2. CASE i # 1
        <5>1. i - 1 \in 1 .. n /\ i - 1 # n
          BY <3>1, <4>2
        <5>2. g[i - 1] = f[i - 1]
          BY <3>4, <5>1, Zenon
        <5> QED BY <5>2, Zenon DEF Joins
      <4> QED BY <4>1, <4>2
    <3>7. ASSUME NEW i \in 1 .. n PROVE g[i] = IF Joins(g, pts, i) THEN g[i - 1] ELSE i
      <4>1. g[i] = IF Joins(f, pts, i) THEN f[i - 1] ELSE i
        <5>1. CASE i = n
          BY <3>4, <5>1, Zenon
        <5>2. CASE i # n
          <6>1. i \in 1 .. n - 1
            BY <3>1, <5>2
          <6> QED BY <3>3, <3>4, <5>2, <6>1, Zenon
        <5> QED BY <5>1, <5>2
      <4>2. CASE Joins(f, pts, i)
        <5>1. i > 1
          BY <4>2, Zenon DEF Joins
        <5>2. i - 1 \in 1 .. n /\ i - 1 # n
          BY <3>1, <5>1
        <5>3. g[i - 1] = f[i - 1]
          BY <3>4, <5>2, Zenon
        <5> QED BY <3>6, <4>1, <4>2, <5>3, Zenon
      <4>3. CASE ~Joins(f, pts, i)
        BY <3>6, <4>1, <4>3, Zenon
      <4> QED BY <4>2, <4>3
    <3>8. g = [i \in 1 .. n |-> IF Joins(g, pts, i) THEN g[i - 1] ELSE i]
      BY <3>5, <3>7, Zenon
    <3>9. IsFirst(g, pts, n)
      BY <3>8, Zenon DEF IsFirst
    <3> QED BY <2>3, <3>9, Zenon
  <2> QED BY <2>4, <2>5
<1>3. Len(pts) \in 0 .. Len(pts)
  BY <1>1
<1> QED BY <1>2, <1>3, Zenon

\* FrameEnds is the set of points behind which another frame begins.
LEMMA EndsByFirst ==
  ASSUME NEW pts \in Seq(Points)
  PROVE  \E f : /\ \A i \in 1 .. Len(pts) : f[i] = IF Joins(f, pts, i) THEN f[i - 1] ELSE i
                /\ FrameEnds(pts) = {i \in 1 .. Len(pts) : i = Len(pts) \/ f[i + 1] = i + 1}
<1> DEFINE first == CHOOSE f : f = [i \in DOMAIN pts |->
                      IF i > 1 /\ i - f[i - 1] < FrameCap /\ <<pts[i - 1], pts[i]>> \in Fits
                      THEN f[i - 1] ELSE i]
<1>1. DOMAIN pts = 1 .. Len(pts)
  OBVIOUS
<1>2. FrameEnds(pts) = {i \in 1 .. Len(pts) : i = Len(pts) \/ first[i + 1] = i + 1}
  BY Zenon DEF FrameEnds
<1>3. \E f : f = [i \in DOMAIN pts |->
               IF i > 1 /\ i - f[i - 1] < FrameCap /\ <<pts[i - 1], pts[i]>> \in Fits
               THEN f[i - 1] ELSE i]
  <2>1. PICK f : IsFirst(f, pts, Len(pts))
    BY FirstExists, Zenon
  <2>2. f = [i \in DOMAIN pts |->
               IF i > 1 /\ i - f[i - 1] < FrameCap /\ <<pts[i - 1], pts[i]>> \in Fits
               THEN f[i - 1] ELSE i]
    BY <1>1, <2>1, Zenon DEF IsFirst, Joins
  <2> QED BY <2>2, Zenon
<1>4. first = [i \in DOMAIN pts |->
                 IF i > 1 /\ i - first[i - 1] < FrameCap /\ <<pts[i - 1], pts[i]>> \in Fits
                 THEN first[i - 1] ELSE i]
  BY <1>3, Zenon
<1> HIDE DEF first
<1>5. \A i \in 1 .. Len(pts) : first[i] = IF Joins(first, pts, i) THEN first[i - 1] ELSE i
  BY <1>1, <1>4, Zenon DEF Joins
<1> QED BY <1>2, <1>5, Zenon

\* No frame holds more than MAX_LOC_POINTS, and it ends early only in front of a
\* point that does not fit.
FullPiece(pts, a, b) ==
  /\ b - a + 1 \in 1 .. FrameCap
  /\ \A i \in a + 1 .. b : <<pts[i - 1], pts[i]>> \in Fits
  /\ b < Len(pts) => b - a + 1 = FrameCap \/ <<pts[b], pts[b + 1]>> \notin Fits

LEMMA PieceFull ==
  ASSUME NEW pts \in Seq(Points), NEW E, E = FrameEnds(pts), NEW k \in 1 .. Cardinality(E)
  PROVE  FullPiece(pts, FrameFrom(E, k), Position(E, k))
<1> DEFINE n == Len(pts)
           a == FrameFrom(E, k)
           b == Position(E, k)
<1>1. n \in Nat /\ E \in SUBSET (1 .. n) /\ FrameCap \in Nat \ {0}
  BY EndsInRange, QueueAssumption DEF QueueAssumption
<1>2. PICK f : /\ \A i \in 1 .. n : f[i] = IF Joins(f, pts, i) THEN f[i - 1] ELSE i
               /\ E = {i \in 1 .. n : i = n \/ f[i + 1] = i + 1}
  BY EndsByFirst, Zenon
<1>3. b \in 1 .. n /\ a \in 1 .. b /\ Cardinality(E) \in Nat
  BY <1>1, PiecesFollow
<1>4. b \in E /\ a = IF k = 1 THEN 1 ELSE Position(E, k - 1) + 1
  BY <1>1, PositionRises, Zenon DEF FrameFrom
<1>5. \A i \in E : i < b => k > 1 /\ i <= Position(E, k - 1)
  BY <1>1, NoneBetween, Zenon
<1>6. ASSUME k # 1 PROVE Position(E, k - 1) \in E
  <2>1. k - 1 \in 1 .. Cardinality(E)
    BY <1>3, <1>6
  <2> QED BY <1>1, <2>1, PositionRises, Zenon
<1> HIDE DEF n, a, b
<1>7. \A i \in a .. b - 1 : i \in 1 .. n /\ i + 1 \in 1 .. n /\ i < b
  BY <1>1, <1>3
<1>8. ASSUME NEW i \in a .. b - 1 PROVE i \notin E
  <2>1. ASSUME i \in E PROVE FALSE
    <3>1. k > 1 /\ i <= Position(E, k - 1)
      BY <1>5, <1>7, <2>1, Zenon
    <3>2. k # 1
      BY <1>3, <3>1
    <3>3. Position(E, k - 1) \in Nat
      BY <1>1, <1>6, <3>2
    <3>4. a = Position(E, k - 1) + 1
      BY <1>4, <3>2, Zenon
    <3> QED BY <1>3, <3>1, <3>3, <3>4
  <2> QED BY <2>1
<1>9. ASSUME NEW i \in a .. b - 1 PROVE Joins(f, pts, i + 1) /\ f[i + 1] = f[i]
  <2>1. f[i + 1] # i + 1
    BY <1>2, <1>7, <1>8, Zenon
  <2>2. f[i + 1] = IF Joins(f, pts, i + 1) THEN f[(i + 1) - 1] ELSE i + 1
    BY <1>2, <1>7, Zenon
  <2>3. (i + 1) - 1 = i
    BY <1>3
  <2> QED BY <2>1, <2>2, <2>3, Zenon
<1>10. f[a] = a
  <2>1. 1 \in 1 .. n /\ ~(1 > 1)
    BY <1>1, <1>3
  <2>2. f[1] = 1
    BY <1>2, <2>1, Zenon DEF Joins
  <2>3. CASE k = 1
    BY <1>4, <2>2, <2>3, Zenon
  <2>4. CASE k # 1
    <3> DEFINE p == Position(E, k - 1)
    <3>1. a = p + 1 /\ p \in E
      BY <1>4, <1>6, <2>4, Zenon
    <3>2. p \in 1 .. n
      BY <1>1, <3>1
    <3> HIDE DEF p
    <3>3. p # n
      BY <1>1, <1>3, <3>1, <3>2
    <3> QED BY <1>2, <3>1, <3>3, Zenon
  <2> QED BY <2>3, <2>4
<1>11. \A i \in a .. b : f[i] = a
  <2> DEFINE T == {i \in a .. b : f[i] # a}
  <2>1. ASSUME T # {} PROVE FALSE
    <3>1. T \in SUBSET Nat
      BY <1>3
    <3>2. PICK i \in T : \A j \in T : i <= j
      BY <2>1, <3>1, LeastElement, Zenon
    <3>3. i \in a .. b /\ f[i] # a
      BY <3>2, Zenon
    <3>4. i # a
      BY <1>10, <3>3, Zenon
    <3>5. i - 1 \in a .. b - 1 /\ i - 1 \in a .. b /\ ~(i <= i - 1) /\ (i - 1) + 1 = i
      BY <1>3, <3>3, <3>4
    <3>6. f[i - 1] = a
      BY <3>2, <3>5, Zenon
    <3>7. f[(i - 1) + 1] = f[i - 1]
      BY <1>9, <3>5, Zenon
    <3> QED BY <3>3, <3>5, <3>6, <3>7, Zenon
  <2> QED BY <2>1, Zenon
<1>12. b - a + 1 \in 1 .. FrameCap
  <2>1. CASE a = b
    BY <1>1, <1>3, <2>1
  <2>2. CASE a # b
    <3>1. b - 1 \in a .. b - 1 /\ b - 1 \in a .. b /\ (b - 1) + 1 = b
      BY <1>3, <2>2
    <3>2. Joins(f, pts, b) /\ f[b - 1] = a
      BY <1>9, <1>11, <3>1, Zenon
    <3>3. b - a < FrameCap
      BY <3>2, Zenon DEF Joins
    <3> QED BY <1>1, <1>3, <3>3
  <2> QED BY <2>1, <2>2
<1>13. \A i \in a + 1 .. b : <<pts[i - 1], pts[i]>> \in Fits
  <2>1. ASSUME NEW i \in a + 1 .. b PROVE <<pts[i - 1], pts[i]>> \in Fits
    <3>1. i - 1 \in a .. b - 1 /\ (i - 1) + 1 = i
      BY <1>3
    <3>2. Joins(f, pts, i)
      BY <1>9, <3>1, Zenon
    <3> QED BY <3>2, Zenon DEF Joins
  <2> QED BY <2>1
<1>14. ASSUME b < n PROVE b - a + 1 = FrameCap \/ <<pts[b], pts[b + 1]>> \notin Fits
  <2>1. b # n /\ b + 1 \in 1 .. n /\ b \in a .. b /\ (b + 1) - 1 = b /\ b + 1 > 1 /\ a # b + 1
    BY <1>1, <1>3, <1>14
  <2>2. f[b + 1] = b + 1 /\ f[b] = a
    BY <1>2, <1>4, <1>11, <2>1, Zenon
  <2>3. f[b + 1] = IF Joins(f, pts, b + 1) THEN f[(b + 1) - 1] ELSE b + 1
    BY <1>2, <2>1, Zenon
  <2>4. ~Joins(f, pts, b + 1)
    BY <2>1, <2>2, <2>3, Zenon
  <2>5. ~((b + 1) - a < FrameCap) \/ <<pts[b], pts[b + 1]>> \notin Fits
    <3>1. f[(b + 1) - 1] = a /\ pts[(b + 1) - 1] = pts[b]
      BY <2>1, <2>2, Zenon
    <3>2. \/ ~(b + 1 > 1) \/ ~((b + 1) - f[(b + 1) - 1] < FrameCap)
          \/ <<pts[(b + 1) - 1], pts[b + 1]>> \notin Fits
      BY <2>4, Zenon DEF Joins
    <3> QED BY <2>1, <3>1, <3>2, Zenon
  <2>6. ~((b + 1) - a < FrameCap) => b - a + 1 = FrameCap
    BY <1>1, <1>3, <1>12
  <2> QED BY <2>5, <2>6, Zenon
<1> QED BY <1>12, <1>13, <1>14, Zenon DEF FullPiece, n, a, b

\* encode_loc_frames on any backlog that the queue can hold.
LEMMA CutIsFull == QInv => FramesAreFull
<1> SUFFICES ASSUME QInv PROVE FramesAreFull
  OBVIOUS
<1> DEFINE pts     == queue.staging
           frames  == EncodeLocFrames(Len(pts), pts)
           From(k) == IF k = 1 THEN 1 ELSE frames[k - 1].seq + 1
           To(k)   == frames[k].seq
           E       == FrameEnds(pts)
           c       == Cardinality(E)
<1>1. pts \in Seq(Points) /\ Len(pts) \in Nat /\ Len(pts) < SeqSpace
  <2>1. queue \in Queue /\ Size(queue) <= MaxQueue
    BY DEF QInv, Bounded
  <2>2. pts \in Seq(Points) /\ Len(pts) \in Nat
    BY <2>1, QueueParts
  <2>3. Staged(queue) \in Nat /\ Flying(queue) \in Nat /\ Size(queue) = Staged(queue) + Flying(queue)
    BY <2>1, SizeIsSum
  <2>4. Staged(queue) = Len(pts)
    BY DEF Staged
  <2>5. MaxQueue \in Nat /\ SeqSpace \in Nat /\ MaxQueue < SeqSpace
    BY QueueAssumption, UseAssumption DEF QueueAssumption, UseAssumption
  <2> HIDE DEF pts
  <2> QED BY <2>1, <2>2, <2>3, <2>4, <2>5
<1> HIDE DEF pts
<1>2. E = FrameEnds(pts) /\ Len(pts) <= Len(pts)
  BY <1>1
<1> HIDE DEF E
<1>3. E \in SUBSET (1 .. Len(pts))
  BY <1>2, EndsInRange, Zenon
<1>4. /\ frames \in Seq(Frame) /\ Len(frames) = c
      /\ \A k \in 1 .. c : FrameAt(frames[k], pts, Len(pts), FrameFrom(E, k), Position(E, k))
  BY <1>1, <1>2, FrameParts, ZenonT(40)
<1>5. frames = EncodeLocFrames(Len(pts), pts)
  OBVIOUS
<1> HIDE DEF frames
<1>6. /\ c \in Nat /\ DOMAIN frames = 1 .. c
      /\ \A k \in 1 .. c : Position(E, k) \in 1 .. Len(pts)
  <2>1. c \in Nat /\ \A k \in 1 .. c : Position(E, k) \in 1 .. Len(pts)
    BY <1>1, <1>3, PiecesFollow, Zenon
  <2> HIDE DEF c
  <2> QED BY <1>4, <2>1
<1>7. ASSUME NEW k \in 1 .. c
      PROVE  To(k) = Position(E, k) /\ frames[k].pts = SubSeq(pts, FrameFrom(E, k), Position(E, k))
  <2>1. /\ frames[k].seq = Len(pts) - Len(pts) + Position(E, k)
        /\ frames[k].pts = SubSeq(pts, FrameFrom(E, k), Position(E, k))
    BY <1>4, Zenon DEF FrameAt
  <2>2. Position(E, k) \in Nat
    BY <1>6
  <2>3. Len(pts) - Len(pts) + Position(E, k) = Position(E, k)
    BY <1>1, <2>2
  <2> QED BY <2>1, <2>3, Zenon
<1>8. ASSUME NEW k \in 1 .. c PROVE From(k) = FrameFrom(E, k)
  <2>1. CASE k = 1
    BY <2>1, Zenon DEF FrameFrom
  <2>2. CASE k # 1
    <3>1. k - 1 \in 1 .. c
      BY <1>6, <2>2
    <3>2. frames[k - 1].seq = Position(E, k - 1)
      BY <1>7, <3>1, Zenon
    <3> QED BY <2>2, <3>2, Zenon DEF FrameFrom
  <2> QED BY <2>1, <2>2
<1>9. IF pts = <<>> THEN frames = <<>> ELSE To(Len(frames)) = Len(pts)
  <2>1. CASE pts = <<>>
    <3>1. E = {}
      <4>1. Len(pts) = 0
        BY <2>1
      <4> QED BY <1>3, <4>1
    <3>2. c = 0
      BY <3>1, FS_EmptySet
    <3>3. Len(frames) = 0
      BY <1>4, <3>2, Zenon
    <3>4. frames = <<>>
      BY <1>4, <3>3, EmptySeq
    <3> QED BY <2>1, <3>4, Zenon
  <2>2. CASE pts # <<>>
    <3>1. Len(pts) \in 1 .. Len(pts)
      BY <1>1, <2>2, EmptySeq
    <3>2. Len(pts) \in E
      BY <1>2, <3>1, Zenon DEF FrameEnds
    <3>3. c >= 1 /\ Len(pts) <= Position(E, c)
      BY <1>1, <1>3, <3>2, NoneBetween, Zenon
    <3>4. c \in 1 .. c
      BY <1>6, <3>3
    <3>5. Position(E, c) = Len(pts)
      <4>1. Position(E, c) \in 1 .. Len(pts)
        BY <1>6, <3>4, Zenon
      <4> QED BY <1>1, <3>3, <4>1
    <3> QED BY <1>4, <1>7, <2>2, <3>4, <3>5, Zenon
  <2> QED BY <2>1, <2>2
<1>10. ASSUME NEW k \in DOMAIN frames
       PROVE  /\ frames[k].pts = SubSeq(pts, From(k), To(k))
              /\ To(k) - From(k) + 1 \in 1 .. FrameCap
              /\ \A i \in From(k) + 1 .. To(k) : <<pts[i - 1], pts[i]>> \in Fits
              /\ k < Len(frames) => \/ To(k) - From(k) + 1 = FrameCap
                                    \/ <<pts[To(k)], pts[To(k) + 1]>> \notin Fits
  <2>1. k \in 1 .. c
    BY <1>6, Zenon
  <2>2. From(k) = FrameFrom(E, k) /\ To(k) = Position(E, k)
    BY <1>7, <1>8, <2>1, Zenon
  <2>3. frames[k].pts = SubSeq(pts, From(k), To(k))
    BY <1>7, <2>1, <2>2, Zenon
  <2>4. FullPiece(pts, From(k), To(k))
    BY <1>1, <1>2, <2>1, <2>2, PieceFull, ZenonT(40)
  <2>5. ASSUME k < Len(frames) PROVE To(k) < Len(pts)
    <3>1. k + 1 \in 1 .. c /\ k < k + 1
      BY <1>4, <1>6, <2>1, <2>5
    <3>2. Position(E, k) < Position(E, k + 1)
      BY <1>1, <1>3, <2>1, <3>1, PositionRises, Zenon
    <3>3. Position(E, k) \in 1 .. Len(pts) /\ Position(E, k + 1) \in 1 .. Len(pts)
      BY <1>6, <2>1, <3>1, Zenon
    <3>4. Position(E, k) < Len(pts)
      BY <1>1, <3>2, <3>3
    <3> QED BY <2>2, <3>4, Zenon
  <2> QED BY <2>3, <2>4, <2>5, Zenon DEF FullPiece
<1> HIDE DEF From, To
<1>11. FramesAreFull
  BY <1>9, <1>10, Zenon DEF FramesAreFull, frames, pts, From, To
<1> QED BY <1>11

\* The frames of a backlog cut it into pieces one behind the other, as full as
\* MAX_LOC_POINTS and the geometry allow.
THEOREM FramesFull == Spec => []FramesAreFull
BY QInvHolds, CutIsFull, PTL
===============================================================================
