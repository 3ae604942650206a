------------------------------- MODULE QueueUse -------------------------------
(***************************************************************************)
(* The queue of OfflineQueue under every order of its callers' critical    *)
(* sections: publish stages or sends a point, flush_queue runs one round,  *)
(* an Ack of any number arrives, the socket is lost.  Without the rest of  *)
(* the client the queue can be larger than a window and a window larger    *)
(* than a frame, which is where the encoding of a backlog has its edges.   *)
(***************************************************************************)
EXTENDS OfflineQueue

CONSTANT MaxSeq  \* bound on the assigned sequence numbers

\* A number, and the length of a backlog, are u32 on the wire.
ASSUME UseAssumption == MaxSeq \in Nat /\ MaxSeq < SeqSpace /\ MaxQueue < SeqSpace

VARIABLES queue, assigned, out
vars == <<queue, assigned, out>>

Init == queue = EmptyQueue /\ assigned = 0 /\ out = <<>>

\* publish, without a bound socket or with a full window.
Stage ==
  /\ \E pt \in Points : \E q \in PushStaging(queue, pt) : queue' = q
  /\ UNCHANGED <<assigned, out>>

\* publish, live.
Live ==
  /\ ~WindowFull(queue) /\ assigned < MaxSeq
  /\ assigned' = assigned + 1
  /\ \E pt \in Points : \E q \in Enqueue(queue, assigned', pt) :
       queue' = RecordFrames(q, <<assigned'>>)
  /\ UNCHANGED out

\* One round of flush_queue, on any thread that reaches it.
FlushRound ==
  \E a \in {FlushAssign(queue, assigned)} : \E frames \in {FlushEncode(a.queue)} :
    /\ frames # <<>> /\ a.assigned <= MaxSeq
    /\ queue' = FlushRecord(a.queue, frames) /\ assigned' = a.assigned /\ out' = frames

\* Ack and ResumeOk, also a late one and one that covers part of a frame.
Acked(ack) ==
  /\ queue' = AckThrough(queue, ack)
  /\ UNCHANGED <<assigned, out>>

\* on_socket_closed.
Lost == queue' = MarkUnsent(queue) /\ UNCHANGED <<assigned, out>>

Next == Stage \/ Live \/ FlushRound \/ (\E ack \in 1 .. assigned : Acked(ack)) \/ Lost

Spec == Init /\ [][Next]_vars

-----------------------------------------------------------------------------
(* Properties.                                                               *)

\* Whatever publish, assign_from_staging, ack_through, mark_unsent and enforce_cap
\* do in turn, InFlight ends at the last number assigned, without a gap, and no
\* unsent point stands before a sent one.  encode_loc_frames counts on both: it
\* numbers the unsent points back from the last of them.
InflightInOrder == Orderly(queue.inflight, assigned)

\* A backlog larger than the window, whatever was acked, dropped or lost before:
\* a round of flush_queue marks exactly the points it puts into frames, under
\* their own numbers, although encode_loc_frames never sees those numbers.
FlushKeepsNumbers ==
  [][FlushRound => Numbered(out') = SentBy(queue') \ SentBy(queue)]_vars

\* encode_loc_frames on whatever backlog has been staged: the frames cut it into
\* pieces one behind the other and carry the number of their last point, no frame
\* holds more than MAX_LOC_POINTS, and a frame ends early only in front of a
\* point that does not fit.
FramesAreFull ==
  LET pts     == queue.staging
      frames  == EncodeLocFrames(Len(pts), pts)
      From(k) == IF k = 1 THEN 1 ELSE frames[k - 1].seq + 1
      To(k)   == frames[k].seq
  IN /\ IF pts = <<>> THEN frames = <<>> ELSE To(Len(frames)) = Len(pts)
     /\ \A k \in DOMAIN frames :
          /\ frames[k].pts = SubSeq(pts, From(k), To(k))
          /\ To(k) - From(k) + 1 \in 1 .. FrameCap
          /\ \A i \in From(k) + 1 .. To(k) : <<pts[i - 1], pts[i]>> \in Fits
          /\ k < Len(frames) => \/ To(k) - From(k) + 1 = FrameCap
                                \/ <<pts[To(k)], pts[To(k) + 1]>> \notin Fits
===============================================================================
