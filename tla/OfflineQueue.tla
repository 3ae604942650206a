----------------------------- MODULE OfflineQueue -----------------------------
(***************************************************************************)
(* The publish buffer of a tracking session (src/src/tracking/queue.rs):   *)
(* Staging holds filtered points without a sequence number, InFlight holds *)
(* numbered points that wait for an Ack, and sent_frame_seqs the last      *)
(* sequence number of every Loc frame sent and not yet acked.              *)
(*                                                                         *)
(* A point is an element of Points: of its coordinates the model keeps     *)
(* only which points fit behind one another in a frame.  Every method of   *)
(* the Rust type is an operator on a queue value; a method whose outcome   *)
(* depends on geometry (enforce_cap, which first tries to collapse a       *)
(* collinear staged point) yields the set of its possible results.         *)
(***************************************************************************)
EXTENDS Integers, Sequences, FiniteSets

CONSTANTS
  Points,     \* the GPS samples that may be published
  Fits,       \* micro_delta_fits: pairs of points close enough for one frame
  MaxQueue,   \* max_size: cap on Staging + InFlight
  Window,     \* MAX_UNACKED_FRAMES
  FrameCap,   \* MAX_LOC_POINTS: points per Loc frame
  SeqSpace      \* 2^32: the wire carries a sequence number as a u32

ASSUME QueueAssumption ==
  /\ Fits \subseteq Points \X Points
  /\ MaxQueue \in Nat \ {0}
  /\ Window \in Nat \ {0}
  /\ FrameCap \in Nat \ {0}
  /\ SeqSpace \in Nat \ {0}

QueuedPoint == [seq : Nat, pt : Points, sent : BOOLEAN]

Queue == [staging  : Seq(Points),
          inflight : Seq(QueuedPoint),
          frames   : Seq(Nat)]

EmptyQueue == [staging |-> <<>>, inflight |-> <<>>, frames |-> <<>>]

Frame == [seq : Nat, pts : Seq(Points)]

Size(q) == Len(q.staging) + Len(q.inflight)

-----------------------------------------------------------------------------
(* Vec::retain and Iterator::filter: the elements of s at the positions I,  *)
(* in order.  Written with ranks instead of SelectSeq, of which the prover  *)
(* knows nothing.                                                           *)

Rank(I, i) == Cardinality({k \in I : k <= i})

\* The position of rank j in I; some position of I whatever j is.
Position(I, j) ==
  CHOOSE i \in I : (\E k \in I : Rank(I, k) = j) => Rank(I, i) = j

Retain(s, I) == [j \in 1 .. Cardinality(I) |-> s[Position(I, j)]]

RemoveIndex(s, i) == SubSeq(s, 1, i - 1) \o SubSeq(s, i + 1, Len(s))

-----------------------------------------------------------------------------
\* Faulty variant: only staged points are ever dropped.
EnforceCapStagingOnly(q) ==
  IF Size(q) <= MaxQueue \/ q.staging = <<>> THEN {q}
  ELSE {[q EXCEPT !.staging = Tail(@)]}

(* enforce_cap, for a queue that exceeds the cap by at most one point: every *)
(* caller has just pushed one.  collapse_one_collinear drops an interior     *)
(* staged point, which one depends on the geometry; without a collinear      *)
(* point the oldest staged point goes, and the oldest in-flight point only   *)
(* when nothing is staged.                                                   *)
EnforceCap(q) ==
  IF Size(q) <= MaxQueue THEN {q}
  ELSE IF q.staging # <<>>
       THEN {[q EXCEPT !.staging = RemoveIndex(@, i)] :
                i \in {1} \cup 2 .. (Len(q.staging) - 1)}
       ELSE {[q EXCEPT !.inflight = Tail(@)]}

PushStaging(q, pt) == EnforceCap([q EXCEPT !.staging = Append(@, pt)])

Enqueue(q, seq, pt) ==
  EnforceCap([q EXCEPT !.inflight =
                 Append(@, [seq |-> seq, pt |-> pt, sent |-> TRUE])])

\* Faulty variant: the frames of the lost socket still fill the window.
MarkUnsentKeepsFrames(q) ==
  [q EXCEPT !.inflight = [i \in DOMAIN @ |-> [@[i] EXCEPT !.sent = FALSE]]]

MarkUnsent(q) ==
  [q EXCEPT !.inflight = [i \in DOMAIN @ |-> [@[i] EXCEPT !.sent = FALSE]],
            !.frames   = <<>>]

WindowRemaining(q) == IF Len(q.frames) < Window THEN Window - Len(q.frames) ELSE 0

WindowFull(q) == Len(q.frames) >= Window

\* The in-flight points s, those up to one of the frame numbers seqs now sent.
SentThrough(s, seqs) ==
  [i \in DOMAIN s |-> [s[i] EXCEPT !.sent = @ \/ \E k \in DOMAIN seqs : s[i].seq <= seqs[k]]]

\* record_frame for each frame number of seqs: every in-flight point up to one
\* of them counts as sent, also a point that is in none of the frames.
RecordFrames(q, seqs) ==
  [q EXCEPT !.frames = @ \o seqs, !.inflight = SentThrough(@, seqs)]

\* Faulty variant: the acked point itself stays.
AckBelow(q, ack) ==
  [q EXCEPT !.inflight = Retain(@, {i \in DOMAIN @ : @[i].seq >= ack}),
            !.frames   = Retain(@, {i \in DOMAIN @ : @[i] > ack})]

AckThrough(q, ack) ==
  [q EXCEPT !.inflight = Retain(@, {i \in DOMAIN @ : @[i].seq > ack}),
            !.frames   = Retain(@, {i \in DOMAIN @ : @[i] > ack})]

UnsentInflight(q) ==
  Retain(q.inflight, {i \in DOMAIN q.inflight : ~q.inflight[i].sent})

\* Faulty variant: the first assigned number repeats the last used one.
AssignFromStagingOffByOne(q, n, base) ==
  [q EXCEPT !.staging  = SubSeq(@, n + 1, Len(@)),
            !.inflight = @ \o [i \in 1 .. n |-> [seq  |-> base + i - 1,
                                                 pt   |-> q.staging[i],
                                                 sent |-> FALSE]]]

\* The next n staged points become in-flight points numbered after base.
AssignFromStaging(q, n, base) ==
  [q EXCEPT !.staging  = SubSeq(@, n + 1, Len(@)),
            !.inflight = @ \o [i \in 1 .. n |-> [seq  |-> base + i,
                                                 pt   |-> q.staging[i],
                                                 sent |-> FALSE]]]

-----------------------------------------------------------------------------
\* Faulty variant: a frame is never full.
FrameEndsUncapped(pts) ==
  {i \in 1 .. Len(pts) : i = Len(pts) \/ <<pts[i], pts[i + 1]>> \notin Fits}
\* The last points of the frames: a frame is full, or the next point is too far.
FrameEnds(pts) ==
  LET first[i \in DOMAIN pts] ==   \* the first point of the frame of point i
        IF i > 1 /\ i - first[i - 1] < FrameCap /\ <<pts[i - 1], pts[i]>> \in Fits
        THEN first[i - 1] ELSE i
  IN {i \in 1 .. Len(pts) : i = Len(pts) \/ first[i + 1] = i + 1}

FrameFrom(ends, k) == IF k = 1 THEN 1 ELSE Position(ends, k - 1) + 1

\* Faulty variant: every frame is numbered as if it were full.
EncodeFullFrames(last, pts) ==
  LET ends == FrameEnds(pts)
  IN [k \in 1 .. Cardinality(ends) |->
        [seq |-> (last - Len(pts) + k * FrameCap) % SeqSpace,
         pts |-> SubSeq(pts, FrameFrom(ends, k), Position(ends, k))]]

(* encode_loc_frames: each frame carries the number of its last point.  The  *)
(* numbers come from the POSITION of a point, counted back from `last`,      *)
(* never from the point's own seq.                                           *)
EncodeLocFrames(last, pts) ==
  LET ends == FrameEnds(pts)
  IN [k \in 1 .. Cardinality(ends) |->
        [seq |-> (last - Len(pts) + Position(ends, k)) % SeqSpace,
         pts |-> SubSeq(pts, FrameFrom(ends, k), Position(ends, k))]]

(* The critical section of flush_queue, in three parts.  Unsent in-flight     *)
(* points go first; without any, staged points are numbered, as many as the  *)
(* window could take in full frames.                                         *)
FlushAssign(q, lastAssigned) ==
  LET room == FrameCap * WindowRemaining(q)
      take == IF Len(q.staging) < room THEN Len(q.staging) ELSE room
  IN IF UnsentInflight(q) # <<>>
     THEN [queue |-> q, assigned |-> lastAssigned]
     ELSE [queue    |-> AssignFromStaging(q, take, lastAssigned),
           assigned |-> lastAssigned + take]

\* As many frames of the unsent points as the window takes.
FlushEncode(q) ==
  LET batch   == UnsentInflight(q)
      encoded == EncodeLocFrames(batch[Len(batch)].seq, [i \in DOMAIN batch |-> batch[i].pt])
  IN IF batch = <<>> THEN <<>>
     ELSE SubSeq(encoded, 1, IF Len(encoded) < WindowRemaining(q)
                             THEN Len(encoded) ELSE WindowRemaining(q))

FlushRecord(q, out) == RecordFrames(q, [i \in DOMAIN out |-> out[i].seq])

-----------------------------------------------------------------------------
(* What the properties say of a queue and of the frames of a round.          *)

\* The numbers of s follow one another up to last, and of s just the first m
\* points were sent.
Run(s, last)     == Len(s) <= last /\ \A i \in 1 .. Len(s) : s[i].seq = last - Len(s) + i
SentUpTo(s, m)   == \A i \in 1 .. Len(s) : s[i].sent <=> i <= m
Orderly(s, last) == Run(s, last) /\ \E m \in 0 .. Len(s) : SentUpTo(s, m)

\* The points of a round with the numbers the server gives them, and the points
\* the round has marked as sent with their own numbers.
Numbered(frames) ==
  UNION {{<<f.seq - Len(f.pts) + i, f.pts[i]>> : i \in DOMAIN f.pts} :
           f \in {frames[k] : k \in DOMAIN frames}}
SentBy(q) ==
  LET sent == {i \in DOMAIN q.inflight : q.inflight[i].sent}
  IN {<<q.inflight[i].seq, q.inflight[i].pt>> : i \in sent}
=============================================================================
