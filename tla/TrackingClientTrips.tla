-------------------------- MODULE TrackingClientTrips --------------------------
(***************************************************************************)
(* One trip: the application publishes, nobody ends the track.  However    *)
(* often the connection breaks or moves, whoever reconnects and in what    *)
(* order answers arrive, the points in flight keep their numbers, what is  *)
(* acked is done, the server sees one track only, and it stores no two     *)
(* points under one number.                                                *)
(***************************************************************************)
EXTENDS TrackingClientProofs

(* Where the only start stands: nothing asked, asked for (by a call, or by a  *)
(* TrackStart on its way, or by one that was lost), given by the server, and  *)
(* known to the client.  The last two hold for good once they are reached.    *)
PhaseOf(uid, starting, next) ==
  IF uid # None THEN "on" ELSE IF next # 1 THEN "given"
  ELSE IF starting THEN "asked" ELSE "none"
Phase == PhaseOf(g.track_uid, g.starting, srv.next)

\* What may be on its way in a phase.  No number is ahead of those given out.
UpOK(m, ph, last) ==
  \/ m.type = "Event"
  \/ m.type = "TrackStart" /\ ph = "asked"
  \/ m.type = "Resume" /\ ph = "on" /\ m.uid = 1
  \/ m.type = "Loc" /\ ph = "on" /\ m.seq <= last
DownOK(m, ph, last) ==
  \/ m.type \in {"Relocate", "TryAgain", "RateLimited"}
  \/ m.type = "TrackStarted" /\ ph = "given" /\ m.uid = 1
  \/ m.type = "ResumeOk" /\ ph = "on" /\ m.uid = 1 /\ m.seq <= last
  \/ m.type = "Ack" /\ ph = "on" /\ m.seq <= last
UpsOK(q, ph, last)   == \A k \in DOMAIN q : UpOK(q[k], ph, last)
DownsOK(q, ph, last) == \A k \in DOMAIN q : DownOK(q[k], ph, last)
LineOK(v, ph, last)  == /\ UpsOK(v.c2s, ph, last) /\ DownsOK(v.s2c, ph, last)
                        /\ v.bound \in {None, 1}
                        /\ v.bound = 1 => ph \in {"given", "on"}

\* What the tasks may be doing in a phase.
Starters == {"pubStart", "pubStartFailed"}
TripPc   == {"idle", "pub", "pubSend", "eventSend"} \cup Starters
PublisherOK(c, ph, last) == /\ c.pc \in TripPc
                            /\ c.pc \in Starters => ph = "asked"
                            /\ c.pc = "pubSend" => ph = "on" /\ c.seq <= last
DialerOK(v, ph)          == /\ v.pc # "auth"
                            /\ v.pc = "sendResume" => ph = "on" /\ v.uid = 1
FlusherOK(v, ph, last)   == v.pc = "send" => /\ ph = "on"
                                             /\ \A k \in DOMAIN v.out : v.out[k].seq <= last

PublishersOK(c, ph, last) == \A p \in Procs : PublisherOK(c[p], ph, last)
DialersOK(f, ph)          == \A d \in Drivers : DialerOK(f[d], ph)
FlushersOK(r, ph, last)   == \A s \in Gens : FlusherOK(r[s], ph, last)
LinesOK(w, ph, last)      == \A s \in Gens : LineOK(w[s], ph, last)

\* The session: numbers only in flight on a track it knows.
SessionOK(i, next) ==
  /\ i.start_wait = NoOne /\ i.track_uid \in {None, 1}
  /\ i.track_uid = 1 => ~i.starting /\ next # 1
  /\ i.track_uid = None => /\ ~i.session_ready /\ i.last_assigned_seq = 0
                           /\ i.queue.inflight = <<>>
  /\ i.track_uid = None /\ next # 1 => i.starting
Acked(i)   == i.last_acked_seq + Len(i.queue.inflight) <= i.last_assigned_seq
Ordered(i) == Orderly(i.queue.inflight, i.last_assigned_seq) /\ Acked(i)
HostOK(r, last) == r.next \in {1, 2} /\ r.live = r.next - 1 /\ r.acked <= last

\* At most one start is under way.
Has(q, t)  == \E k \in DOMAIN q : q[k].type = t
Solo(q, t) == \A k, l \in DOMAIN q : q[k].type = t /\ q[l].type = t => k = l
Starting(c) == {p \in Procs : c[p].pc \in Starters}
Asked(w)    == {s \in Gens : Has(w[s].c2s, "TrackStart")}
Given(w)    == {s \in Gens : Has(w[s].s2c, "TrackStarted")}
AtMostOne(S) == \A x, y \in S : x = y
OneMsg(w)   == /\ AtMostOne(Asked(w)) /\ AtMostOne(Given(w))
               /\ \A s \in Gens : Solo(w[s].c2s, "TrackStart") /\ Solo(w[s].s2c, "TrackStarted")
OneStart(c, w) == AtMostOne(Starting(c)) /\ OneMsg(w) /\ (Starting(c) # {} => Asked(w) = {})

Trip == /\ SessionOK(g, srv.next) /\ Ordered(g) /\ HostOK(srv, g.last_assigned_seq)
        /\ PublishersOK(call, Phase, g.last_assigned_seq)
        /\ DialersOK(driver, Phase)
        /\ FlushersOK(reader, Phase, g.last_assigned_seq)
        /\ LinesOK(wire, Phase, g.last_assigned_seq)
        /\ OneStart(call, wire)
TripInv == IInv /\ Within(left) /\ (OneTrip => Trip)

-----------------------------------------------------------------------------
(* Queues of messages.                                                       *)

\* A message is added behind the others.
LEMMA Added ==
  ASSUME NEW q \in Seq(Msg), NEW m \in Msg, NEW ph, NEW last
  PROVE  /\ UpsOK(q, ph, last) /\ UpOK(m, ph, last) => UpsOK(Append(q, m), ph, last)
         /\ DownsOK(q, ph, last) /\ DownOK(m, ph, last) => DownsOK(Append(q, m), ph, last)
         /\ \A t : /\ Has(Append(q, m), t) => Has(q, t) \/ m.type = t
                   /\ Solo(q, t) /\ (m.type = t => ~Has(q, t)) => Solo(Append(q, m), t)
<1> DEFINE r == Append(q, m)
<1>1. /\ Len(q) \in Nat /\ DOMAIN q = 1 .. Len(q) /\ DOMAIN r = 1 .. Len(q) + 1
      /\ \A k \in 1 .. Len(q) : r[k] = q[k]
      /\ r[Len(q) + 1] = m
  OBVIOUS
<1> HIDE DEF r
<1>2. UpsOK(q, ph, last) /\ UpOK(m, ph, last) => UpsOK(r, ph, last)
  BY <1>1 DEF UpsOK
<1>3. DownsOK(q, ph, last) /\ DownOK(m, ph, last) => DownsOK(r, ph, last)
  BY <1>1 DEF DownsOK
<1>4. ASSUME NEW t PROVE Has(r, t) => Has(q, t) \/ m.type = t
  BY <1>1 DEF Has
<1>5. ASSUME NEW t PROVE Solo(q, t) /\ (m.type = t => ~Has(q, t)) => Solo(r, t)
  BY <1>1 DEF Has, Solo
<1> QED BY <1>2, <1>3, <1>4, <1>5 DEF r

\* The first message is taken.
LEMMA Taken ==
  ASSUME NEW q \in Seq(Msg), q # <<>>, NEW ph, NEW last
  PROVE  /\ Tail(q) \in Seq(Msg) /\ Head(q) \in Msg
         /\ UpsOK(q, ph, last) => UpsOK(Tail(q), ph, last) /\ UpOK(Head(q), ph, last)
         /\ DownsOK(q, ph, last) => DownsOK(Tail(q), ph, last) /\ DownOK(Head(q), ph, last)
         /\ \A t : /\ Has(Tail(q), t) => Has(q, t)
                   /\ Solo(q, t) => Solo(Tail(q), t)
                   /\ Head(q).type = t => Has(q, t)
                   /\ Solo(q, t) /\ Head(q).type = t => ~Has(Tail(q), t)
<1> DEFINE r == Tail(q)
<1>1. /\ r \in Seq(Msg) /\ Head(q) \in Msg /\ Head(q) = q[1]
      /\ Len(q) \in Nat \ {0} /\ DOMAIN q = 1 .. Len(q) /\ DOMAIN r = 1 .. (Len(q) - 1)
      /\ \A k \in 1 .. (Len(q) - 1) : r[k] = q[k + 1]
  OBVIOUS
<1> HIDE DEF r
<1>2. UpsOK(q, ph, last) => UpsOK(r, ph, last) /\ UpOK(Head(q), ph, last)
  BY <1>1 DEF UpsOK
<1>3. DownsOK(q, ph, last) => DownsOK(r, ph, last) /\ DownOK(Head(q), ph, last)
  BY <1>1 DEF DownsOK
<1>4. ASSUME NEW t PROVE (Has(r, t) => Has(q, t)) /\ (Head(q).type = t => Has(q, t))
  <2>1. ASSUME NEW k \in DOMAIN r, r[k].type = t PROVE Has(q, t)
    <3>1. k + 1 \in DOMAIN q /\ q[k + 1].type = t
      BY <1>1, <2>1
    <3> QED BY <3>1 DEF Has
  <2>2. ASSUME Head(q).type = t PROVE Has(q, t)
    BY <1>1, <2>2 DEF Has
  <2> QED BY <2>1, <2>2 DEF Has
<1>5. ASSUME NEW t PROVE Solo(q, t) => Solo(r, t)
  BY <1>1 DEF Solo
<1>6. ASSUME NEW t, Solo(q, t), Head(q).type = t PROVE ~Has(r, t)
  BY <1>1, <1>6 DEF Has, Solo
<1> QED BY <1>1, <1>2, <1>3, <1>4, <1>5, <1>6 DEF r

\* No message.
LEMMA Nothing ==
  ASSUME NEW ph, NEW last
  PROVE  /\ UpsOK(<<>>, ph, last) /\ DownsOK(<<>>, ph, last)
         /\ \A t : ~Has(<<>>, t) /\ Solo(<<>>, t)
BY DEF UpsOK, DownsOK, Has, Solo

-----------------------------------------------------------------------------
(* Sockets.                                                                  *)

\* One socket has changed.
LEMMA LinePut ==
  ASSUME NEW w, WiresOK(w), NEW s, NEW v, NEW ph, NEW last,
         LinesOK(w, ph, last), s \in Gens => LineOK(v, ph, last)
  PROVE  LinesOK([w EXCEPT ![s] = v], ph, last)
<1> DEFINE h == [w EXCEPT ![s] = v]
<1>1. \A r \in Gens : h[r] = IF r = s THEN v ELSE w[r]
  BY DEF WiresOK
<1> HIDE DEF h
<1>2. \A r \in Gens : LineOK(h[r], ph, last)
  BY <1>1, Zenon DEF LinesOK
<1>3. LinesOK(h, ph, last)
  BY <1>2, Zenon DEF LinesOK
<1> QED BY <1>3 DEF h

\* No start is added, unless none was under way.
StartsLike(v, u, w) ==
  /\ Solo(v.c2s, "TrackStart") /\ Solo(v.s2c, "TrackStarted")
  /\ Has(v.c2s, "TrackStart") => Has(u.c2s, "TrackStart") \/ Asked(w) = {}
  /\ Has(v.s2c, "TrackStarted") => Has(u.s2c, "TrackStarted") \/ Given(w) = {}

LEMMA OneMsgPut ==
  ASSUME NEW w, WiresOK(w), OneMsg(w), NEW s, NEW v, s \in Gens => StartsLike(v, w[s], w)
  PROVE  /\ OneMsg([w EXCEPT ![s] = v])
         /\ Asked([w EXCEPT ![s] = v]) \subseteq Asked(w) \cup {s}
         /\ Given([w EXCEPT ![s] = v]) \subseteq Given(w) \cup {s}
         /\ ~Has(v.c2s, "TrackStart") => Asked([w EXCEPT ![s] = v]) \subseteq Asked(w) \ {s}
         /\ ~Has(v.s2c, "TrackStarted") => Given([w EXCEPT ![s] = v]) \subseteq Given(w) \ {s}
<1> DEFINE h == [w EXCEPT ![s] = v]
<1>1. \A r \in Gens : h[r] = IF r = s THEN v ELSE w[r]
  BY DEF WiresOK
<1> HIDE DEF h
<1>2. /\ \A r \in Asked(h) : r \in Gens /\ Has(h[r].c2s, "TrackStart")
      /\ \A r \in Gens : Has(w[r].c2s, "TrackStart") => r \in Asked(w)
      /\ \A r \in Given(h) : r \in Gens /\ Has(h[r].s2c, "TrackStarted")
      /\ \A r \in Gens : Has(w[r].s2c, "TrackStarted") => r \in Given(w)
  BY Zenon DEF Asked, Given
<1>3. /\ \A r \in Asked(h) : r # s => r \in Asked(w)
      /\ \A r \in Given(h) : r # s => r \in Given(w)
      /\ s \in Asked(h) => s \in Asked(w) \/ Asked(w) = {}
      /\ s \in Given(h) => s \in Given(w) \/ Given(w) = {}
      /\ ~Has(v.c2s, "TrackStart") => s \notin Asked(h)
      /\ ~Has(v.s2c, "TrackStarted") => s \notin Given(h)
  BY <1>1, <1>2, Zenon DEF StartsLike
<1>4. AtMostOne(Asked(h)) /\ AtMostOne(Given(h))
  BY <1>3 DEF AtMostOne, OneMsg
<1>5. \A r \in Gens : Solo(h[r].c2s, "TrackStart") /\ Solo(h[r].s2c, "TrackStarted")
  BY <1>1, Zenon DEF OneMsg, StartsLike
<1>6. /\ Asked(h) \subseteq Asked(w) \cup {s} /\ Given(h) \subseteq Given(w) \cup {s}
      /\ ~Has(v.c2s, "TrackStart") => Asked(h) \subseteq Asked(w) \ {s}
      /\ ~Has(v.s2c, "TrackStarted") => Given(h) \subseteq Given(w) \ {s}
  BY <1>3
<1>7. OneMsg(h)
  BY <1>4, <1>5, Zenon DEF OneMsg
<1> QED BY <1>6, <1>7 DEF h


\* No start is added, and nothing that the phase forbids.
LinesKept(u, w, ph, last) == LinesOK(u, ph, last) /\ OneMsg(u) /\ Asked(u) \subseteq Asked(w)
LineKept(v, u, ph, last) ==
  /\ LineOK(v, ph, last) /\ Solo(v.c2s, "TrackStart") /\ Solo(v.s2c, "TrackStarted")
  /\ Has(v.c2s, "TrackStart") => Has(u.c2s, "TrackStart")
  /\ Has(v.s2c, "TrackStarted") => Has(u.s2c, "TrackStarted")

LEMMA LinesKeptPut ==
  ASSUME NEW w, WiresOK(w), NEW ph, NEW last, LinesOK(w, ph, last), OneMsg(w),
         NEW s, NEW v, s \in Gens => LineKept(v, w[s], ph, last)
  PROVE  LinesKept([w EXCEPT ![s] = v], w, ph, last)
<1> DEFINE h == [w EXCEPT ![s] = v]
<1>1. \A r \in Gens : h[r] = IF r = s THEN v ELSE w[r]
  BY DEF WiresOK
<1>2. s \in Gens => LineOK(v, ph, last) /\ StartsLike(v, w[s], w)
  BY Zenon DEF LineKept, StartsLike
<1>3. LinesOK(h, ph, last) /\ OneMsg(h)
  BY <1>2, LinePut, OneMsgPut
<1> HIDE DEF h
<1>4. \A r \in Gens : Has(h[r].c2s, "TrackStart") => Has(w[r].c2s, "TrackStart")
  BY <1>1, Zenon DEF LineKept
<1>5. Asked(h) \subseteq Asked(w)
  BY <1>4 DEF Asked
<1>6. LinesKept(h, w, ph, last)
  BY <1>3, <1>5, Zenon DEF LinesKept
<1> QED BY <1>6 DEF h

\* A socket of the session, and what it carries.
LEMMA LineParts ==
  ASSUME NEW w, WiresOK(w), NEW ph, NEW last, LinesOK(w, ph, last), OneMsg(w), NEW s \in Gens
  PROVE  /\ LineOK(w[s], ph, last) /\ UpsOK(w[s].c2s, ph, last) /\ DownsOK(w[s].s2c, ph, last)
         /\ Solo(w[s].c2s, "TrackStart") /\ Solo(w[s].s2c, "TrackStarted")
         /\ w[s].c2s \in Seq(Msg) /\ w[s].s2c \in Seq(Msg) /\ w[s] \in Wire
         /\ w[s].bound \in {None, 1} /\ (w[s].bound = 1 => ph \in {"given", "on"})
         /\ LineKept(w[s], w[s], ph, last)
<1>1. /\ LineOK(w[s], ph, last) /\ Solo(w[s].c2s, "TrackStart") /\ Solo(w[s].s2c, "TrackStarted")
      /\ w[s].c2s \in Seq(Msg) /\ w[s].s2c \in Seq(Msg) /\ w[s] \in Wire
  BY WireParts, Zenon DEF LinesOK, OneMsg
<1> QED BY <1>1, Zenon DEF LineOK, LineKept

\* The client sends on its current socket.
LEMMA LinesPush ==
  ASSUME WiresOK(wire), NEW ph, NEW last, LinesOK(wire, ph, last), OneMsg(wire),
         NEW m \in Msg, UpOK(m, ph, last), m.type = "TrackStart" => Asked(wire) = {}, NEW s
  PROVE  /\ LinesOK(Push(s, m), ph, last) /\ OneMsg(Push(s, m))
         /\ m.type # "TrackStart" => LinesKept(Push(s, m), wire, ph, last)
<1> DEFINE out == IF wire[s].up THEN Append(wire[s].c2s, m) ELSE wire[s].c2s
           v   == [wire[s] EXCEPT !.c2s = out]
<1>1. Push(s, m) = [wire EXCEPT ![s] = v]
  BY Zenon DEF Push
<1>2. ASSUME s \in Gens
      PROVE  /\ UpsOK(out, ph, last) /\ Solo(out, "TrackStart")
             /\ Has(out, "TrackStart") => Has(wire[s].c2s, "TrackStart") \/ m.type = "TrackStart"
             /\ v.c2s = out /\ v.s2c = wire[s].s2c /\ v.bound = wire[s].bound
  <2>1. /\ UpsOK(wire[s].c2s, ph, last) /\ Solo(wire[s].c2s, "TrackStart")
        /\ wire[s].c2s \in Seq(Msg) /\ wire[s] \in Wire
    BY <1>2, LineParts
  <2>2. m.type = "TrackStart" => ~Has(wire[s].c2s, "TrackStart")
    BY <1>2, Zenon DEF Asked
  <2>3. /\ UpsOK(Append(wire[s].c2s, m), ph, last) /\ Solo(Append(wire[s].c2s, m), "TrackStart")
        /\ Has(Append(wire[s].c2s, m), "TrackStart") =>
             Has(wire[s].c2s, "TrackStart") \/ m.type = "TrackStart"
    BY <2>1, <2>2, Added, Zenon
  <2>4. v.c2s = out /\ v.s2c = wire[s].s2c /\ v.bound = wire[s].bound
    <3> HIDE DEF out
    <3> QED BY <2>1, Zenon DEF Wire
  <2> QED BY <2>1, <2>3, <2>4, Zenon
<1> HIDE DEF v, out
<1>3. ASSUME s \in Gens
      PROVE  /\ LineOK(v, ph, last) /\ Solo(v.s2c, "TrackStarted")
             /\ Has(v.s2c, "TrackStarted") => Has(wire[s].s2c, "TrackStarted")
  <2>1. LineOK(wire[s], ph, last) /\ Solo(wire[s].s2c, "TrackStarted")
    BY <1>3, LineParts
  <2> QED BY <1>2, <1>3, <2>1, Zenon DEF LineOK
<1>4. LinesOK([wire EXCEPT ![s] = v], ph, last) /\ OneMsg([wire EXCEPT ![s] = v])
  <2>1. s \in Gens => StartsLike(v, wire[s], wire)
    BY <1>2, <1>3, Zenon DEF StartsLike
  <2> QED BY <1>3, <2>1, LinePut, OneMsgPut
<1>5. ASSUME m.type # "TrackStart" PROVE LinesKept([wire EXCEPT ![s] = v], wire, ph, last)
  <2>1. s \in Gens => LineKept(v, wire[s], ph, last)
    BY <1>2, <1>3, <1>5, Zenon DEF LineKept
  <2> QED BY <2>1, LinesKeptPut
<1> QED BY <1>1, <1>4, <1>5, Zenon

\* The first message of the client is taken by the server, with an answer or not.
LEMMA LinesTake ==
  ASSUME WiresOK(wire), NEW ph, NEW last, LinesOK(wire, ph, last), OneMsg(wire),
         NEW s \in Gens, NEW t, Receiving(s, t)
  PROVE  /\ Head(wire[s].c2s) \in Msg /\ Head(wire[s].c2s).type = t
         /\ UpOK(Head(wire[s].c2s), ph, last)
         /\ LinesKept(NoReply(s), wire, ph, last)
         /\ \A m \in Msg : DownOK(m, ph, last) /\ m.type # "TrackStarted" =>
              /\ LinesKept(Reply(s, m), wire, ph, last)
              /\ ph \in {"given", "on"} =>
                   LinesKept([Reply(s, m) EXCEPT ![s].bound = 1], wire, ph, last)
<1> DEFINE a == Tail(wire[s].c2s)
<1>1. /\ LineOK(wire[s], ph, last) /\ UpsOK(wire[s].c2s, ph, last) /\ DownsOK(wire[s].s2c, ph, last)
      /\ Solo(wire[s].c2s, "TrackStart") /\ Solo(wire[s].s2c, "TrackStarted")
      /\ wire[s].c2s \in Seq(Msg) /\ wire[s].s2c \in Seq(Msg) /\ wire[s] \in Wire
      /\ wire[s].bound \in {None, 1} /\ (wire[s].bound = 1 => ph \in {"given", "on"})
  BY LineParts
<1>2. /\ UpsOK(a, ph, last) /\ UpOK(Head(wire[s].c2s), ph, last) /\ Solo(a, "TrackStart")
      /\ Has(a, "TrackStart") => Has(wire[s].c2s, "TrackStart")
      /\ Head(wire[s].c2s) \in Msg /\ Head(wire[s].c2s).type = t
  BY <1>1, Taken, Zenon DEF Receiving
<1> HIDE DEF a
<1>3. LinesKept(NoReply(s), wire, ph, last)
  <2> DEFINE v == [wire[s] EXCEPT !.c2s = a]
  <2>1. v.c2s = a /\ v.s2c = wire[s].s2c /\ v.bound = wire[s].bound
    BY <1>1, Zenon DEF Wire
  <2>2. NoReply(s) = [wire EXCEPT ![s] = v]
    BY Zenon DEF NoReply, a
  <2> HIDE DEF v
  <2>3. LineKept(v, wire[s], ph, last)
    BY <1>1, <1>2, <2>1, Zenon DEF LineKept, LineOK
  <2>4. LinesKept([wire EXCEPT ![s] = v], wire, ph, last)
    BY <2>3, LinesKeptPut
  <2> QED BY <2>2, <2>4, Zenon
<1>4. ASSUME NEW m \in Msg, DownOK(m, ph, last), m.type # "TrackStarted"
      PROVE  /\ LinesKept(Reply(s, m), wire, ph, last)
             /\ ph \in {"given", "on"} =>
                  LinesKept([Reply(s, m) EXCEPT ![s].bound = 1], wire, ph, last)
  <2> DEFINE b == Append(wire[s].s2c, m)
             v == [wire[s] EXCEPT !.c2s = a, !.s2c = b]
             u == [v EXCEPT !.bound = 1]
  <2>1. /\ DownsOK(b, ph, last) /\ Solo(b, "TrackStarted")
        /\ Has(b, "TrackStarted") => Has(wire[s].s2c, "TrackStarted")
    BY <1>1, <1>4, Added, Zenon
  <2>2. Reply(s, m) = [wire EXCEPT ![s] = v]
    BY Zenon DEF Reply, a
  <2> HIDE DEF b
  <2>3. /\ v.c2s = a /\ v.s2c = b /\ v.bound = wire[s].bound
        /\ u.c2s = a /\ u.s2c = b /\ u.bound = 1
    BY <1>1, Zenon DEF Wire
  <2>4. [[wire EXCEPT ![s] = v] EXCEPT ![s].bound = 1] = [wire EXCEPT ![s] = u]
    BY Zenon DEF WiresOK
  <2> HIDE DEF v, u
  <2>5. LineKept(v, wire[s], ph, last)
    BY <1>1, <1>2, <2>1, <2>3, Zenon DEF LineKept, LineOK
  <2>6. ph \in {"given", "on"} => LineKept(u, wire[s], ph, last)
    <3>1. 1 \in {None, 1}
      OBVIOUS
    <3> QED BY <1>1, <1>2, <2>1, <2>3, <3>1, Zenon DEF LineKept, LineOK
  <2>7. /\ LinesKept([wire EXCEPT ![s] = v], wire, ph, last)
        /\ ph \in {"given", "on"} => LinesKept([wire EXCEPT ![s] = u], wire, ph, last)
    BY <2>5, <2>6, LinesKeptPut
  <2>8. [Reply(s, m) EXCEPT ![s].bound = 1] = [wire EXCEPT ![s] = u]
    BY <2>2, <2>4
  <2> QED BY <2>2, <2>7, <2>8, Zenon
<1> QED BY <1>2, <1>3, <1>4

\* The client takes the first message of a socket.
LEMMA LinesGot ==
  ASSUME WiresOK(wire), NEW ph, NEW last, LinesOK(wire, ph, last), OneMsg(wire),
         NEW s \in Gens, NEW t, Receives(s, t), Consume(s)
  PROVE  /\ Got(s) \in Msg /\ Got(s).type = t /\ DownOK(Got(s), ph, last)
         /\ LinesKept(wire', wire, ph, last)
         /\ t = "TrackStarted" => Given(wire') = {}
<1> DEFINE b == Tail(wire[s].s2c)
           v == [wire[s] EXCEPT !.s2c = b]
<1>1. /\ LineOK(wire[s], ph, last) /\ UpsOK(wire[s].c2s, ph, last) /\ DownsOK(wire[s].s2c, ph, last)
      /\ Solo(wire[s].c2s, "TrackStart") /\ Solo(wire[s].s2c, "TrackStarted")
      /\ wire[s].c2s \in Seq(Msg) /\ wire[s].s2c \in Seq(Msg) /\ wire[s] \in Wire
      /\ wire[s].bound \in {None, 1} /\ (wire[s].bound = 1 => ph \in {"given", "on"})
  BY LineParts
<1>2. /\ DownsOK(b, ph, last) /\ DownOK(Got(s), ph, last) /\ Solo(b, "TrackStarted")
      /\ Has(b, "TrackStarted") => Has(wire[s].s2c, "TrackStarted")
      /\ Got(s) \in Msg /\ Got(s).type = t
      /\ t = "TrackStarted" => Has(wire[s].s2c, t) /\ ~Has(b, t)
  BY <1>1, Taken, Zenon DEF Receives, Got
<1>3. wire' = [wire EXCEPT ![s] = v]
  BY Zenon DEF Consume
<1> HIDE DEF b
<1>4. v.c2s = wire[s].c2s /\ v.s2c = b /\ v.bound = wire[s].bound
  BY <1>1, Zenon DEF Wire
<1> HIDE DEF v
<1>5. LineKept(v, wire[s], ph, last)
  BY <1>1, <1>2, <1>4, Zenon DEF LineKept, LineOK
<1>6. LinesKept([wire EXCEPT ![s] = v], wire, ph, last)
  BY <1>5, LinesKeptPut
<1>7. LinesKept(wire', wire, ph, last)
  BY <1>3, <1>6, Zenon
<1>8. ASSUME t = "TrackStarted" PROVE Given(wire') = {}
  <2>1. \A r \in Gens : wire'[r] = IF r = s THEN v ELSE wire[r]
    BY <1>3 DEF WiresOK
  <2>2. \A r \in Given(wire) : r = s
    BY <1>2, <1>8 DEF OneMsg, AtMostOne, Given
  <2>3. ASSUME NEW r \in Gens PROVE ~Has(wire'[r].s2c, "TrackStarted")
    <3>1. CASE r = s
      BY <1>2, <1>4, <1>8, <2>1, <3>1
    <3>2. CASE r # s
      BY <2>1, <2>2, <3>2 DEF Given
    <3> QED BY <3>1, <3>2
  <2> QED BY <2>3 DEF Given
<1> QED BY <1>2, <1>7, <1>8

-----------------------------------------------------------------------------
(* What a step leaves alone.                                                 *)

\* Numbers only grow, so what was not ahead of them is not ahead of them now.
LEMMA Later ==
  ASSUME NEW ph, NEW a \in Nat, NEW b \in Nat, a <= b
  PROVE  /\ \A c : CallsOK(c) /\ PublishersOK(c, ph, a) => PublishersOK(c, ph, b)
         /\ \A r : ReadersOK(r) /\ FlushersOK(r, ph, a) => FlushersOK(r, ph, b)
         /\ \A w : WiresOK(w) /\ LinesOK(w, ph, a) => LinesOK(w, ph, b)
<1>1. ASSUME NEW c, CallsOK(c), PublishersOK(c, ph, a), NEW p \in Procs
      PROVE  PublisherOK(c[p], ph, b)
  <2>1. c[p].seq \in Nat /\ PublisherOK(c[p], ph, a)
    BY <1>1, CallParts DEF PublishersOK
  <2>2. c[p].seq <= a => c[p].seq <= b
    BY <2>1
  <2> QED BY <2>1, <2>2, Zenon DEF PublisherOK
<1>2. ASSUME NEW r, ReadersOK(r), FlushersOK(r, ph, a), NEW s \in Gens
      PROVE  FlusherOK(r[s], ph, b)
  <2>1. r[s].out \in Seq(Frame) /\ FlusherOK(r[s], ph, a)
    BY <1>2, ReaderParts DEF FlushersOK
  <2>2. \A k \in DOMAIN r[s].out : r[s].out[k].seq \in Nat
    <3>1. \A k \in DOMAIN r[s].out : r[s].out[k] \in Frame
      BY <2>1
    <3> QED BY <3>1 DEF Frame
  <2>3. \A n \in Nat : n <= a => n <= b
    OBVIOUS
  <2> QED BY <2>1, <2>2, <2>3, Zenon DEF FlusherOK
<1>3. ASSUME NEW w, WiresOK(w), LinesOK(w, ph, a), NEW s \in Gens
      PROVE  LineOK(w[s], ph, b)
  <2>1. w[s].c2s \in Seq(Msg) /\ w[s].s2c \in Seq(Msg) /\ LineOK(w[s], ph, a)
    BY <1>3, WireParts, Zenon DEF LinesOK
  <2>2. \A m \in Msg : /\ UpOK(m, ph, a) => UpOK(m, ph, b)
                       /\ DownOK(m, ph, a) => DownOK(m, ph, b)
    <3>1. \A m \in Msg : m.seq \in Nat /\ (m.seq <= a => m.seq <= b)
      BY DEF Msg
    <3> QED BY <3>1, Zenon DEF UpOK, DownOK
  <2>3. /\ \A k \in DOMAIN w[s].c2s : w[s].c2s[k] \in Msg
        /\ \A k \in DOMAIN w[s].s2c : w[s].s2c[k] \in Msg
    BY <2>1
  <2> QED BY <2>1, <2>2, <2>3, Zenon DEF LineOK, UpsOK, DownsOK
<1> QED BY <1>1, <1>2, <1>3, Zenon DEF PublishersOK, FlushersOK, LinesOK

(* The step keeps the phase, and what it touches is as it should be.  Each    *)
(* variable either stays, or is right for the numbers after the step.        *)
LastOf(i) == i.last_assigned_seq
CallsKept   == PublishersOK(call', Phase, LastOf(g')) /\ Starting(call') \subseteq Starting(call)
DriversKept == DialersOK(driver', Phase)
ReadersKept == FlushersOK(reader', Phase, LastOf(g'))
WiresKept   == LinesKept(wire', wire, Phase, LastOf(g'))
LEMMA TripFrame ==
  ASSUME IInv, IInv', Trip, Phase' = Phase, LastOf(g) <= LastOf(g'),
         SessionOK(g', srv'.next), Ordered(g'), HostOK(srv', LastOf(g')),
         UNCHANGED call \/ CallsKept, UNCHANGED driver \/ DriversKept,
         UNCHANGED reader \/ ReadersKept, UNCHANGED wire \/ WiresKept
  PROVE  Trip'
<1>1. /\ LastOf(g) \in Nat /\ LastOf(g') \in Nat /\ CallsOK(call) /\ ReadersOK(reader) /\ WiresOK(wire)
  BY InnerParts DEF IInv, LastOf
<1>2. /\ PublishersOK(call, Phase, LastOf(g)) /\ DialersOK(driver, Phase)
      /\ FlushersOK(reader, Phase, LastOf(g)) /\ LinesOK(wire, Phase, LastOf(g))
      /\ OneStart(call, wire)
  BY Zenon DEF Trip, LastOf
<1>3. /\ PublishersOK(call', Phase, LastOf(g')) /\ DialersOK(driver', Phase)
      /\ FlushersOK(reader', Phase, LastOf(g')) /\ LinesOK(wire', Phase, LastOf(g'))
  BY <1>1, <1>2, Later, Zenon DEF CallsKept, DriversKept, ReadersKept, WiresKept, LinesKept
<1>4. /\ Starting(call') \subseteq Starting(call) /\ Asked(wire') \subseteq Asked(wire)
      /\ OneMsg(wire')
  BY <1>2, Zenon DEF CallsKept, WiresKept, LinesKept, OneStart
<1>5. OneStart(call', wire')
  BY <1>2, <1>4 DEF OneStart, AtMostOne
<1> QED BY <1>3, <1>5, Zenon DEF Trip, LastOf

\* The session's numbers and the points in flight stay.
SameTrip(i, j) ==
  /\ j.track_uid = i.track_uid /\ j.starting = i.starting
  /\ LastOf(j) = LastOf(i) /\ j.last_acked_seq = i.last_acked_seq
  /\ j.start_wait \in {i.start_wait, NoOne} /\ (j.session_ready => i.session_ready)
  /\ j.queue.inflight = i.queue.inflight

LEMMA TripStays ==
  ASSUME IInv, IInv', Trip, SameTrip(g, g'), UNCHANGED srv,
         UNCHANGED call \/ CallsKept, UNCHANGED driver \/ DriversKept,
         UNCHANGED reader \/ ReadersKept, UNCHANGED wire \/ WiresKept
  PROVE  Trip'
<1>1. Phase' = Phase
  BY DEF Phase, SameTrip
<1>2. SessionOK(g', srv'.next)
  BY DEF Trip, SessionOK, SameTrip, LastOf
<1>3. Ordered(g')
  BY DEF Trip, Ordered, Acked, SameTrip, LastOf
<1>4. HostOK(srv', LastOf(g'))
  BY DEF Trip, SameTrip, LastOf
<1>5. LastOf(g) <= LastOf(g')
  BY InnerParts DEF IInv, SameTrip, LastOf
<1> QED BY <1>1, <1>2, <1>3, <1>4, <1>5, TripFrame

-----------------------------------------------------------------------------
(* Phases.                                                                   *)

\* The parts of the invariant.
LEMMA TripParts ==
  ASSUME IInv, Trip
  PROVE  /\ InnerOK(g) /\ g \in Inner /\ DriversOK(driver) /\ CallsOK(call) /\ ReadersOK(reader)
         /\ WiresOK(wire) /\ srv \in Server /\ LeftOK(left) /\ LastOf(g) \in Nat
         /\ PublishersOK(call, Phase, LastOf(g)) /\ DialersOK(driver, Phase)
         /\ FlushersOK(reader, Phase, LastOf(g)) /\ LinesOK(wire, Phase, LastOf(g))
         /\ OneStart(call, wire) /\ OneMsg(wire) /\ HostOK(srv, LastOf(g))
         /\ SessionOK(g, srv.next) /\ Ordered(g) /\ g.start_wait = NoOne
<1>1. /\ InnerOK(g) /\ g \in Inner /\ LastOf(g) \in Nat
      /\ srv \in Server
  BY InnerParts DEF IInv, LastOf, ServerOK
<1> QED BY <1>1, Zenon DEF IInv, Trip, LastOf, OneStart, SessionOK

\* What a phase says of the session and of the server.
LEMMA Phases ==
  ASSUME IInv, Trip
  PROVE  /\ Phase \in {"none", "asked", "given", "on"}
         /\ g.track_uid # None <=> Phase = "on"
         /\ Phase = "on" => g.track_uid = 1 /\ ~g.starting /\ srv.next = 2 /\ srv.live = 1
         /\ Phase = "given" => g.starting /\ srv.next = 2
         /\ Phase = "asked" => g.starting /\ srv.next = 1 /\ srv.live = None
         /\ Phase = "none" => ~g.starting /\ srv.next = 1
         /\ Phase # "on" => /\ g.track_uid = None /\ ~g.session_ready
                            /\ LastOf(g) = 0 /\ g.queue.inflight = <<>>
<1>1. SessionOK(g, srv.next) /\ HostOK(srv, LastOf(g)) /\ g.starting \in BOOLEAN
  BY TripParts, InnerParts
<1> QED BY <1>1 DEF SessionOK, HostOK, Phase, PhaseOf, None, LastOf

\* Before the track is on nothing carries a number, so only starts and their
\* answers tell one phase from another.
LEMMA Moves ==
  ASSUME NEW ph, ph # "on", NEW qh, NEW a, NEW b
  PROVE  /\ \A c : PublishersOK(c, ph, a) /\ (qh = "asked" \/ Starting(c) = {})
                  => PublishersOK(c, qh, b)
         /\ \A f : DialersOK(f, ph) => DialersOK(f, qh)
         /\ \A r : FlushersOK(r, ph, a) => FlushersOK(r, qh, b)
         /\ \A w : /\ LinesOK(w, ph, a) /\ (qh = "asked" \/ Asked(w) = {})
                   /\ qh = "given" \/ Given(w) = {}
                   /\ ph \in {"none", "asked"} \/ qh \in {"given", "on"}
                   => LinesOK(w, qh, b)
<1>1. ASSUME NEW c, PublishersOK(c, ph, a), qh = "asked" \/ Starting(c) = {}, NEW p \in Procs
      PROVE  PublisherOK(c[p], qh, b)
  BY <1>1, Zenon DEF PublishersOK, PublisherOK, Starting
<1>2. \A f : DialersOK(f, ph) => DialersOK(f, qh)
  BY DEF DialersOK, DialerOK
<1>3. \A r : FlushersOK(r, ph, a) => FlushersOK(r, qh, b)
  BY DEF FlushersOK, FlusherOK
<1>4. ASSUME NEW w, LinesOK(w, ph, a), qh = "asked" \/ Asked(w) = {},
             qh = "given" \/ Given(w) = {}, ph \in {"none", "asked"} \/ qh \in {"given", "on"},
             NEW s \in Gens
      PROVE  LineOK(w[s], qh, b)
  <2>1. LineOK(w[s], ph, a)
    BY <1>4, Zenon DEF LinesOK
  <2>2. ASSUME NEW k \in DOMAIN w[s].c2s PROVE UpOK(w[s].c2s[k], qh, b)
    <3>1. UpOK(w[s].c2s[k], ph, a)
      BY <2>1, Zenon DEF LineOK, UpsOK
    <3>2. w[s].c2s[k].type = "TrackStart" => qh = "asked"
      BY <1>4, Zenon DEF Asked, Has
    <3> QED BY <3>1, <3>2 DEF UpOK
  <2>3. ASSUME NEW k \in DOMAIN w[s].s2c PROVE DownOK(w[s].s2c[k], qh, b)
    <3>1. DownOK(w[s].s2c[k], ph, a)
      BY <2>1, Zenon DEF LineOK, DownsOK
    <3>2. w[s].s2c[k].type = "TrackStarted" => qh = "given"
      BY <1>4, Zenon DEF Given, Has
    <3> QED BY <3>1, <3>2 DEF DownOK
  <2>4. w[s].bound \in {None, 1} /\ (w[s].bound = 1 => qh \in {"given", "on"})
    BY <1>4, <2>1 DEF LineOK
  <2> QED BY <2>2, <2>3, <2>4, Zenon DEF LineOK, UpsOK, DownsOK
<1>5. ASSUME NEW c, PublishersOK(c, ph, a), qh = "asked" \/ Starting(c) = {}
      PROVE  PublishersOK(c, qh, b)
  BY <1>1, <1>5, Zenon DEF PublishersOK
<1>6. ASSUME NEW w, LinesOK(w, ph, a), qh = "asked" \/ Asked(w) = {},
             qh = "given" \/ Given(w) = {}, ph \in {"none", "asked"} \/ qh \in {"given", "on"}
      PROVE  LinesOK(w, qh, b)
  BY <1>4, <1>6, Zenon DEF LinesOK
<1>7. \A c : PublishersOK(c, ph, a) /\ (qh = "asked" \/ Starting(c) = {}) => PublishersOK(c, qh, b)
  BY <1>5, Zenon
<1>8. \A w : /\ LinesOK(w, ph, a) /\ (qh = "asked" \/ Asked(w) = {})
             /\ qh = "given" \/ Given(w) = {}
             /\ ph \in {"none", "asked"} \/ qh \in {"given", "on"}
             => LinesOK(w, qh, b)
  BY <1>6, Zenon
<1> QED BY <1>2, <1>3, <1>7, <1>8, Zenon

\* Nothing is under way that its phase does not allow.
LEMMA NoneUnderWay ==
  ASSUME NEW ph, NEW last
  PROVE  /\ \A c : PublishersOK(c, ph, last) /\ ph # "asked" => Starting(c) = {}
         /\ \A w : LinesOK(w, ph, last) => /\ ph # "asked" => Asked(w) = {}
                                           /\ ph # "given" => Given(w) = {}
<1>1. ASSUME NEW c, PublishersOK(c, ph, last), ph # "asked" PROVE Starting(c) = {}
  BY <1>1 DEF PublishersOK, PublisherOK, Starting
<1>2. ASSUME NEW w, LinesOK(w, ph, last), NEW s \in Gens
      PROVE  /\ Has(w[s].c2s, "TrackStart") => ph = "asked"
             /\ Has(w[s].s2c, "TrackStarted") => ph = "given"
  <2>1. UpsOK(w[s].c2s, ph, last) /\ DownsOK(w[s].s2c, ph, last)
    BY <1>2, Zenon DEF LinesOK, LineOK
  <2>2. \A m : /\ UpOK(m, ph, last) /\ m.type = "TrackStart" => ph = "asked"
               /\ DownOK(m, ph, last) /\ m.type = "TrackStarted" => ph = "given"
    BY DEF UpOK, DownOK
  <2> QED BY <2>1, <2>2, Zenon DEF UpsOK, DownsOK, Has
<1> QED BY <1>1, <1>2 DEF Asked, Given

-----------------------------------------------------------------------------
(* Tasks.                                                                    *)

\* The record of one call is replaced.
LEMMA PublisherPut ==
  ASSUME CallsOK(call), PublishersOK(call, Phase, LastOf(g')), NEW p \in Procs, NEW v,
         PublisherOK(v, Phase, LastOf(g')), v.pc \in Starters => call[p].pc \in Starters,
         call' = [call EXCEPT ![p] = v]
  PROVE  CallsKept
<1>1. \A q \in Procs : call'[q] = IF q = p THEN v ELSE call[q]
  BY DEF CallsOK
<1>2. PublishersOK(call', Phase, LastOf(g'))
  BY <1>1, Zenon DEF PublishersOK
<1>3. \A q \in Procs : call'[q].pc \in Starters => call[q].pc \in Starters
  BY <1>1, Zenon
<1>4. Starting(call') \subseteq Starting(call)
  BY <1>3 DEF Starting
<1> QED BY <1>2, <1>4 DEF CallsKept

\* A call that ends or moves on, but not to a start.
LEMMA PublisherMoves ==
  ASSUME CallsOK(call), PublishersOK(call, Phase, LastOf(g')), NEW p \in Procs,
         \/ Return(p)
         \/ Goto(p, "pubStartFailed") /\ call[p].pc \in Starters
  PROVE  CallsKept
<1>1. CASE Return(p)
  <2>1. IdleCall.pc = "idle" /\ PublisherOK(IdleCall, Phase, LastOf(g')) /\ IdleCall.pc \notin Starters
    BY DEF IdleCall, PublisherOK, TripPc, Starters
  <2>2. call' = [call EXCEPT ![p] = IdleCall]
    BY <1>1 DEF Return
  <2> QED BY <2>1, <2>2, PublisherPut
<1>2. CASE Goto(p, "pubStartFailed") /\ call[p].pc \in Starters
  <2> DEFINE v == [call[p] EXCEPT !.pc = "pubStartFailed"]
  <2>1. v.pc = "pubStartFailed"
    BY CallParts, Zenon DEF Call
  <2>2. call' = [call EXCEPT ![p] = v]
    BY <1>2, Zenon DEF Goto
  <2>3. Phase = "asked"
    BY <1>2, Zenon DEF PublishersOK, PublisherOK
  <2> HIDE DEF v
  <2>4. PublisherOK(v, Phase, LastOf(g'))
    BY <2>1, <2>3 DEF PublisherOK, TripPc, Starters
  <2> QED BY <1>2, <2>2, <2>4, PublisherPut
<1> QED BY <1>1, <1>2

\* Nobody waits for an answer.
LEMMA NobodyWaits ==
  ASSUME NEW ph, NEW last, PublishersOK(call, ph, last)
  PROVE  /\ \A p, r : TellCall(call, p, r) = call
         /\ \A r : AnsweredCalls(r) = call
<1>1. \A p \in Procs : call[p].pc \notin Awaiting
  BY DEF PublishersOK, PublisherOK, TripPc, Starters, Awaiting
<1>2. \A p, r : TellCall(call, p, r) = call
  BY <1>1, Zenon DEF TellCall
<1> QED BY <1>2, Zenon DEF AnsweredCalls

\* The record of one dialing task is replaced.
LEMMA DialerPut ==
  ASSUME NEW f, DriversOK(f), NEW ph, DialersOK(f, ph), NEW d, NEW v, DialerOK(v, ph)
  PROVE  DialersOK([f EXCEPT ![d] = v], ph)
<1> DEFINE h == [f EXCEPT ![d] = v]
<1>1. \A e \in Drivers : h[e] = IF e = d THEN v ELSE f[e]
  BY DEF DriversOK
<1> HIDE DEF h
<1>2. DialersOK(h, ph)
  BY <1>1, Zenon DEF DialersOK
<1> QED BY <1>2 DEF h

\* A task takes another step than to send a Resume.
LEMMA DialerMoves ==
  ASSUME DriversOK(driver), DialersOK(driver, Phase), NEW d \in Drivers,
         \/ \E x \in DriverPc \ {"auth", "sendResume"} : Step(d, x)
         \/ Finish(d) \/ DialErr(d)
         \/ \E v \in Driver : /\ v.pc \notin {"auth", "sendResume"}
                             /\ driver' = [driver EXCEPT ![d] = v]
  PROVE  DriversKept
<1>1. ASSUME NEW v, v.pc \notin {"auth", "sendResume"}, driver' = [driver EXCEPT ![d] = v]
      PROVE  DriversKept
  <2>1. DialerOK(v, Phase)
    BY <1>1 DEF DialerOK
  <2>2. DialersOK([driver EXCEPT ![d] = v], Phase)
    BY <2>1, DialerPut
  <2> QED BY <1>1, <2>2, Zenon DEF DriversKept
<1>2. ASSUME NEW x \in DriverPc \ {"auth", "sendResume"}, Step(d, x) PROVE DriversKept
  <2> DEFINE v == [driver[d] EXCEPT !.pc = x]
  <2>0. driver[d] \in Driver
    BY DriverParts
  <2>1. v.pc = x
    BY <2>0, Zenon DEF Driver
  <2>2. driver' = [driver EXCEPT ![d] = v]
    BY <1>2, Zenon DEF Step
  <2>3. v.pc \notin {"auth", "sendResume"}
    BY <2>1
  <2> HIDE DEF v
  <2> QED BY <1>1, <2>2, <2>3
<1>3. ASSUME Finish(d) PROVE DriversKept
  <2>1. IdleDriver.pc = "idle"
    BY DEF IdleDriver
  <2> QED BY <1>1, <1>3, <2>1 DEF Finish
<1>4. ASSUME DialErr(d) PROVE DriversKept
  <2>1. Finish(d) \/ Step(d, "gone") \/ Step(d, "failed")
    BY <1>4, Zenon DEF DialErr
  <2>2. {"gone", "failed"} \subseteq DriverPc \ {"auth", "sendResume"}
    BY DEF DriverPc
  <2> QED BY <1>2, <1>3, <2>1, <2>2
<1> QED BY <1>1, <1>2, <1>3, <1>4

\* An answer to the task that waits for one.
LEMMA DialerTold ==
  ASSUME NEW f, DriversOK(f), NEW ph, DialersOK(f, ph), NEW d, NEW r
  PROVE  DialersOK(TellDriver(f, d, r), ph)
<1>1. CASE ~(d \in Drivers /\ f[d].pc \in {"sendResume", "waitResume"})
  BY <1>1, Zenon DEF TellDriver
<1>2. CASE d \in Drivers /\ f[d].pc \in {"sendResume", "waitResume"}
  <2> DEFINE v == [f[d] EXCEPT !.res = r]
  <2>1. v.pc = f[d].pc /\ v.uid = f[d].uid
    BY <1>2, DriverParts, Zenon DEF Driver
  <2>2. TellDriver(f, d, r) = [f EXCEPT ![d] = v]
    BY <1>2, Zenon DEF TellDriver
  <2> HIDE DEF v
  <2>3. DialerOK(v, ph)
    BY <1>2, <2>1 DEF DialerOK, DialersOK
  <2>4. DialersOK([f EXCEPT ![d] = v], ph)
    BY <2>3, DialerPut
  <2> QED BY <2>2, <2>4, Zenon
<1> QED BY <1>1, <1>2

\* A new dialing task.
LEMMA DialerSpawned ==
  ASSUME NEW f, DriversOK(f), NEW ph, DialersOK(f, ph), NEW v, DialerOK(v, ph), SpawnIn(f, v)
  PROVE  DialersOK(driver', ph)
<1>1. PICK d \in Drivers : driver' = [f EXCEPT ![d] = v]
  BY Zenon DEF SpawnIn
<1>2. DialersOK([f EXCEPT ![d] = v], ph)
  BY DialerPut
<1> QED BY <1>1, <1>2, Zenon

\* A read loop is replaced.
LEMMA FlusherPut ==
  ASSUME NEW r, ReadersOK(r), NEW ph, NEW last, FlushersOK(r, ph, last), NEW s, NEW v,
         FlusherOK(v, ph, last)
  PROVE  FlushersOK([r EXCEPT ![s] = v], ph, last)
<1> DEFINE h == [r EXCEPT ![s] = v]
<1>1. \A t \in Gens : h[t] = IF t = s THEN v ELSE r[t]
  BY DEF ReadersOK
<1> HIDE DEF h
<1>2. FlushersOK(h, ph, last)
  BY <1>1, Zenon DEF FlushersOK
<1> QED BY <1>2 DEF h

\* A waiter whose receiver is dropped.
LEMMA FlusherUnheard ==
  ASSUME ReadersOK(reader), NEW ph, NEW last, FlushersOK(reader, ph, last), NEW w, Unheard(w)
  PROVE  FlushersOK(reader', ph, last)
<1> DEFINE v(s) == [reader[s] EXCEPT !.wake = NoOne]
           h(s) == IF reader[s].wake = w THEN v(s) ELSE reader[s]
<1>1. reader' = [s \in Gens |-> h(s)]
  BY Zenon DEF Unheard
<1>2. ASSUME NEW s \in Gens PROVE FlusherOK(h(s), ph, last)
  <2>1. v(s).pc = reader[s].pc /\ v(s).out = reader[s].out
    BY ReaderParts, Zenon DEF Reader
  <2>2. FlusherOK(reader[s], ph, last)
    BY DEF FlushersOK
  <2> HIDE DEF v
  <2> QED BY <2>1, <2>2 DEF FlusherOK
<1> HIDE DEF h
<1> QED BY <1>1, <1>2 DEF FlushersOK

-----------------------------------------------------------------------------
(* Application calls.                                                        *)

\* None of the acts that are left out is taken.
Steadily == \A act \in Steady : ~Spend(act)

\* What the messages carry.
LEMMA MsgFields ==
  ASSUME NEW t, NEW uid, NEW seq, NEW pts
  PROVE  /\ M(t).type = t
         /\ Resume(uid).type = "Resume" /\ Resume(uid).uid = uid
         /\ Loc(seq, pts).type = "Loc" /\ Loc(seq, pts).seq = seq /\ Loc(seq, pts).pts = pts
         /\ TrackStarted(uid).type = "TrackStarted" /\ TrackStarted(uid).uid = uid
         /\ ResumeOk(uid, seq).type = "ResumeOk" /\ ResumeOk(uid, seq).uid = uid
         /\ ResumeOk(uid, seq).seq = seq
         /\ Ack(seq).type = "Ack" /\ Ack(seq).seq = seq
<1>1. \A x : /\ M(x).type = x
             /\ [M(x) EXCEPT !.uid = uid].type = x /\ [M(x) EXCEPT !.uid = uid].uid = uid
             /\ [M(x) EXCEPT !.seq = seq].type = x /\ [M(x) EXCEPT !.seq = seq].seq = seq
             /\ [M(x) EXCEPT !.seq = seq, !.pts = pts].type = x
             /\ [M(x) EXCEPT !.seq = seq, !.pts = pts].seq = seq
             /\ [M(x) EXCEPT !.seq = seq, !.pts = pts].pts = pts
             /\ [M(x) EXCEPT !.uid = uid, !.seq = seq].type = x
             /\ [M(x) EXCEPT !.uid = uid, !.seq = seq].uid = uid
             /\ [M(x) EXCEPT !.uid = uid, !.seq = seq].seq = seq
  BY DEF M
<1> QED BY <1>1, Zenon DEF Resume, Loc, TrackStarted, ResumeOk, Ack

\* A call begins.
LEMMA PublisherBegins ==
  ASSUME CallsOK(call), NEW p \in Procs, NEW act, NEW pc, Begin(p, act, pc)
  PROVE  /\ Spend(act) /\ \E v : v.pc = pc /\ call' = [call EXCEPT ![p] = v]
<1> DEFINE pt == IF act = "publish" THEN left.publish ELSE 0
           v == [call[p] EXCEPT !.pc = pc, !.pt = pt]
<1>1. call' = [call EXCEPT ![p] = v] /\ Spend(act)
  BY Zenon DEF Begin
<1> HIDE DEF pt
<1>2. v.pc = pc
  BY CallParts, Zenon DEF Call
<1> QED BY <1>1, <1>2

\* A new call publishes or sends an event.
LEMMA NewCallTrip ==
  ASSUME IInv, IInv', Trip, Steadily, NEW p \in Procs, NewCall(p)
  PROVE  Trip'
<1>0. /\ InnerOK(g) /\ g \in Inner /\ CallsOK(call) /\ WiresOK(wire) /\ LastOf(g) \in Nat
      /\ PublishersOK(call, Phase, LastOf(g)) /\ DialersOK(driver, Phase)
      /\ FlushersOK(reader, Phase, LastOf(g)) /\ LinesOK(wire, Phase, LastOf(g))
      /\ OneMsg(wire) /\ SessionOK(g, srv.next) /\ HostOK(srv, LastOf(g))
  BY TripParts
<1>1. CASE PublishBegin(p) /\ NeedsStart
  <2>1. Begin(p, "publish", "pubStart") /\ g' = FreshTrack(g) /\ UNCHANGED <<driver, reader, wire, srv>>
    BY <1>1, Zenon DEF PublishBegin
  <2>2. Phase = "none" /\ srv.next = 1 /\ LastOf(g) = 0
    BY <1>1, Phases DEF NeedsStart
  <2>3. /\ g'.track_uid = None /\ g'.starting /\ ~g'.session_ready /\ LastOf(g') = 0
        /\ g'.last_acked_seq = 0 /\ g'.queue = EmptyQueue /\ g'.start_wait = NoOne
    <3>1. /\ g'.track_uid = g.track_uid /\ g'.starting /\ ~g'.session_ready
          /\ g'.last_assigned_seq = 0 /\ g'.last_acked_seq = 0 /\ g'.queue = EmptyQueue
          /\ g'.start_wait = g.start_wait
      BY <1>0, <2>1, Zenon DEF FreshTrack, Inner
    <3> QED BY <1>0, <1>1, <3>1 DEF NeedsStart, SessionOK, LastOf
  <2>4. Phase' = "asked"
    BY <2>1, <2>2, <2>3 DEF Phase, PhaseOf
  <2>5. g'.queue.inflight = <<>>
    BY <2>3 DEF EmptyQueue
  <2>6. SessionOK(g', srv'.next)
    BY <2>3, <2>5 DEF SessionOK, LastOf, None
  <2>7. Ordered(g')
    BY <2>3, <2>5 DEF Ordered, Acked, Orderly, Run, SentUpTo, LastOf
  <2>8. HostOK(srv', LastOf(g'))
    BY <1>0, <2>1, <2>2, <2>3
  <2>9. PICK v : v.pc = "pubStart" /\ call' = [call EXCEPT ![p] = v]
    BY <1>0, <2>1, PublisherBegins
  <2>10. \A q \in Procs : call'[q] = IF q = p THEN v ELSE call[q]
    BY <1>0, <2>9 DEF CallsOK
  <2>11. Starting(call) = {} /\ Asked(wire) = {}
    BY <1>0, <2>2, NoneUnderWay
  <2>12. PublishersOK(call', "asked", LastOf(g'))
    <3>1. PublishersOK(call, "asked", LastOf(g'))
      BY <1>0, <2>2, Moves
    <3>2. PublisherOK(v, "asked", LastOf(g'))
      BY <2>9 DEF PublisherOK, TripPc, Starters
    <3> QED BY <2>10, <3>1, <3>2, Zenon DEF PublishersOK
  <2>13. /\ DialersOK(driver, "asked") /\ FlushersOK(reader, "asked", LastOf(g'))
         /\ LinesOK(wire, "asked", LastOf(g'))
    BY <1>0, <2>2, <2>11, Moves, NoneUnderWay
  <2>14. OneStart(call', wire')
    <3>1. \A q \in Starting(call') : q = p
      BY <2>10, <2>11 DEF Starting
    <3> QED BY <1>0, <2>1, <2>11, <3>1 DEF OneStart, AtMostOne
  <2> QED BY <2>1, <2>4, <2>6, <2>7, <2>8, <2>12, <2>13, <2>14, Zenon DEF Trip, LastOf
<1>2. ASSUME NEW act, NEW pc \in {"pub", "eventSend"}, Begin(p, act, pc),
             UNCHANGED <<g, driver, reader, wire, srv>>
      PROVE  Trip'
  <2>1. PICK v : v.pc = pc /\ call' = [call EXCEPT ![p] = v]
    BY <1>0, <1>2, PublisherBegins
  <2>2. PublisherOK(v, Phase, LastOf(g')) /\ v.pc \notin Starters
    BY <2>1 DEF PublisherOK, TripPc, Starters
  <2>3. CallsKept
    BY <1>0, <1>2, <2>1, <2>2, PublisherPut
  <2>4. SameTrip(g, g') /\ UNCHANGED srv
    BY <1>2 DEF SameTrip
  <2> QED BY <1>2, <2>3, <2>4, TripStays
<1>3. CASE PublishBegin(p) /\ ~NeedsStart
  BY <1>2, <1>3 DEF PublishBegin
<1>4. CASE SendEvent(p)
  BY <1>2, <1>4 DEF SendEvent
<1>5. ~(StartTrack(p) \/ StopTrack(p) \/ ManualResume(p) \/ CloseBegin(p))
  BY Zenon DEF Steadily, Steady, StartTrack, StopTrack, ManualResume, CloseBegin, Begin
<1> QED BY <1>1, <1>3, <1>4, <1>5 DEF NewCall

\* A TrackStart is sent, or not: no other start is under way.
LEMMA PublishStartTrip ==
  ASSUME IInv, IInv', Trip, NEW p \in Procs, PublishStart(p)
  PROVE  Trip'
<1>0. /\ CallsOK(call) /\ WiresOK(wire) /\ PublishersOK(call, Phase, LastOf(g))
      /\ DialersOK(driver, Phase) /\ FlushersOK(reader, Phase, LastOf(g))
      /\ LinesOK(wire, Phase, LastOf(g)) /\ OneMsg(wire) /\ OneStart(call, wire)
  BY TripParts
<1>1. call[p].pc = "pubStart" /\ UNCHANGED <<g, driver, reader, srv>>
  BY DEF PublishStart
<1>2. Phase = "asked" /\ p \in Starting(call) /\ LastOf(g') = LastOf(g) /\ Phase' = Phase
  BY <1>0, <1>1 DEF PublishersOK, PublisherOK, Starters, Starting, LastOf, Phase
<1>3. Asked(wire) = {} /\ \A q \in Starting(call) : q = p
  BY <1>0, <1>2 DEF OneStart, AtMostOne
<1>4. SameTrip(g, g') /\ UNCHANGED srv
  BY <1>1 DEF SameTrip
<1>5. CASE SendFails /\ Goto(p, "pubStartFailed")
  <2>1. call[p].pc \in Starters /\ UNCHANGED wire
    BY <1>1, <1>5 DEF Starters, SendFails
  <2>2. CallsKept
    BY <1>0, <1>2, <1>5, <2>1, PublisherMoves
  <2> QED BY <1>1, <1>4, <2>1, <2>2, TripStays
<1>6. CASE Sent(M("TrackStart")) /\ Return(p)
  <2>1. CallsKept
    BY <1>0, <1>2, <1>6, PublisherMoves
  <2>2. Starting(call') = {}
    <3>1. call'[p] = IdleCall
      BY <1>0, <1>6 DEF Return, CallsOK
    <3>2. p \notin Starting(call')
      BY <3>1 DEF Starting, Starters, IdleCall
    <3> QED BY <1>3, <2>1, <3>2 DEF CallsKept
  <2>3. M("TrackStart") \in Msg /\ UpOK(M("TrackStart"), Phase, LastOf(g))
    <3>1. "TrackStart" \in MsgType /\ 0 \in Nat /\ <<>> \in Seq(Points)
      BY DEF MsgType
    <3>2. M("TrackStart").type = "TrackStart"
      BY DEF M
    <3>3. M("TrackStart") \in Msg
      BY <3>1, Messages
    <3> QED BY <1>2, <3>2, <3>3, Zenon DEF UpOK
  <2>4. LinesOK(wire', Phase, LastOf(g)) /\ OneMsg(wire')
    <3>1. wire' = Push(g.out_tx, M("TrackStart"))
      BY <1>6, Zenon DEF Sent
    <3>2. /\ LinesOK(Push(g.out_tx, M("TrackStart")), Phase, LastOf(g))
          /\ OneMsg(Push(g.out_tx, M("TrackStart")))
      BY <1>0, <1>3, <2>3, LinesPush
    <3> QED BY <3>1, <3>2, Zenon
  <2>5. OneStart(call', wire')
    BY <2>2, <2>4 DEF OneStart, AtMostOne
  <2> QED BY <1>0, <1>1, <1>2, <2>1, <2>4, <2>5, Zenon DEF Trip, CallsKept, LastOf
<1> QED BY <1>5, <1>6 DEF PublishStart

\* A start that could not be sent: nothing is asked for any more.
LEMMA PublishStartFailedTrip ==
  ASSUME IInv, IInv', Trip, NEW p \in Procs, PublishStartFailed(p)
  PROVE  Trip'
<1>0. /\ CallsOK(call) /\ PublishersOK(call, Phase, LastOf(g)) /\ DialersOK(driver, Phase)
      /\ FlushersOK(reader, Phase, LastOf(g)) /\ LinesOK(wire, Phase, LastOf(g))
      /\ OneMsg(wire) /\ OneStart(call, wire) /\ g \in Inner /\ SessionOK(g, srv.next)
      /\ Ordered(g) /\ HostOK(srv, LastOf(g))
  BY TripParts
<1>1. /\ call[p].pc = "pubStartFailed" /\ g' = [g EXCEPT !.starting = FALSE] /\ Return(p)
      /\ UNCHANGED <<driver, reader, wire, srv>>
  BY DEF PublishStartFailed
<1>2. Phase = "asked" /\ p \in Starting(call)
  BY <1>0, <1>1 DEF PublishersOK, PublisherOK, Starters, Starting
<1>3. Asked(wire) = {} /\ (\A q \in Starting(call) : q = p) /\ Given(wire) = {}
  BY <1>0, <1>2, NoneUnderWay DEF OneStart, AtMostOne
<1>4. /\ g'.track_uid = g.track_uid /\ ~g'.starting /\ LastOf(g') = LastOf(g)
      /\ g'.last_acked_seq = g.last_acked_seq /\ g'.start_wait = g.start_wait
      /\ g'.session_ready = g.session_ready /\ g'.queue = g.queue
  BY <1>0, <1>1, Zenon DEF Inner, LastOf
<1>5. g.track_uid = None /\ srv.next = 1
  BY <1>2, Phases
<1>6. Phase' = "none"
  BY <1>1, <1>4, <1>5 DEF Phase, PhaseOf
<1>7. SessionOK(g', srv'.next) /\ Ordered(g')
  BY <1>0, <1>1, <1>4, <1>5 DEF SessionOK, Ordered, Acked, LastOf, None
<1>8. PublishersOK(call', Phase, LastOf(g')) /\ Starting(call') = {}
  <2>1. CallsKept
    BY <1>0, <1>1, <1>4, PublisherMoves
  <2>2. call'[p] = IdleCall
    BY <1>0, <1>1 DEF Return, CallsOK
  <2>3. p \notin Starting(call')
    BY <2>2 DEF Starting, Starters, IdleCall
  <2> QED BY <1>3, <2>1, <2>3 DEF CallsKept
<1>9. /\ PublishersOK(call', "none", LastOf(g')) /\ DialersOK(driver, "none")
      /\ FlushersOK(reader, "none", LastOf(g')) /\ LinesOK(wire, "none", LastOf(g'))
  BY <1>0, <1>2, <1>3, <1>8, Moves
<1>10. OneStart(call', wire')
  BY <1>0, <1>1, <1>8 DEF OneStart, AtMostOne
<1> QED BY <1>0, <1>1, <1>4, <1>6, <1>7, <1>9, <1>10, Zenon DEF Trip, LastOf

\* A message on the current socket that is not a start, or none.
LEMMA SentTrip ==
  ASSUME IInv, Trip, NEW m \in Msg, UpOK(m, Phase, LastOf(g)), m.type # "TrackStart",
         Sent(m) \/ SendFails, LastOf(g') = LastOf(g)
  PROVE  UNCHANGED wire \/ WiresKept
<1>1. WiresOK(wire) /\ LinesOK(wire, Phase, LastOf(g)) /\ OneMsg(wire)
  BY TripParts
<1>2. LinesKept(Push(g.out_tx, m), wire, Phase, LastOf(g))
  BY <1>1, LinesPush
<1>3. Sent(m) => wire' = Push(g.out_tx, m)
  BY Zenon DEF Sent
<1>4. SendFails => UNCHANGED wire
  BY DEF SendFails
<1> QED BY <1>2, <1>3, <1>4, Zenon DEF WiresKept

\* A number on the wire is not ahead of the number it stands for.
LEMMA WrapsBehind == \A n \in Nat : n % SeqSpace \in Nat /\ n % SeqSpace <= n
<1> SUFFICES ASSUME NEW n \in Nat PROVE n % SeqSpace \in Nat /\ n % SeqSpace <= n
  OBVIOUS
<1>0. SeqSpace \in Nat \ {0}
  BY QueueAssumption DEF QueueAssumption
<1>1. n < SeqSpace => n % SeqSpace = n
  BY <1>0
<1>2. n % SeqSpace \in 0 .. SeqSpace - 1
  BY <1>0
<1> QED BY <1>0, <1>1, <1>2

\* publish while the session cannot send: the point is staged.
LEMMA PublishStageTrip ==
  ASSUME IInv, IInv', Trip, NEW p \in Procs, PublishStage(p)
  PROVE  Trip'
<1>0. /\ CallsOK(call) /\ PublishersOK(call, Phase, LastOf(g)) /\ InnerOK(g) /\ g \in Inner
  BY TripParts
<1>1. call[p].pc = "pub" /\ Return(p) /\ UNCHANGED <<driver, reader, wire, srv>>
  BY DEF PublishStage
<1>2. g.queue \in Queue /\ call[p].pt \in Points
  <2>1. g.queue \in Queue
    BY <1>0, InnerParts
  <2> QED BY <1>0, <1>1, <2>1 DEF CallsOK
<1>3. PICK q \in PushStaging(g.queue, call[p].pt) : g' = [g EXCEPT !.queue = q]
  BY Zenon DEF PublishStage
<1>4. q.inflight = g.queue.inflight
  BY <1>2, StageKeepsInflight
<1>5. /\ g'.track_uid = g.track_uid /\ g'.starting = g.starting /\ LastOf(g') = LastOf(g)
      /\ g'.last_acked_seq = g.last_acked_seq /\ g'.start_wait = g.start_wait
      /\ g'.session_ready = g.session_ready /\ g'.queue = q
  BY <1>0, <1>3, Zenon DEF Inner, LastOf
<1>6. SameTrip(g, g')
  BY <1>4, <1>5 DEF SameTrip
<1>7. CallsKept
  BY <1>0, <1>1, <1>5, PublisherMoves
<1> QED BY <1>1, <1>6, <1>7, TripStays

\* publish while the session is ready: the point gets the next number.
LEMMA PublishLiveTrip ==
  ASSUME IInv, IInv', Trip, NEW p \in Procs, PublishLive(p)
  PROVE  Trip'
<1> DEFINE seq == g.last_assigned_seq + 1
           v   == [call[p] EXCEPT !.pc = "pubSend", !.seq = seq]
<1>0. /\ CallsOK(call) /\ PublishersOK(call, Phase, LastOf(g)) /\ InnerOK(g) /\ g \in Inner
      /\ SessionOK(g, srv.next) /\ Ordered(g) /\ HostOK(srv, LastOf(g)) /\ srv \in Server
  BY TripParts
<1>1. /\ call[p].pc = "pub" /\ g.session_ready /\ UNCHANGED <<driver, reader, wire, srv>>
      /\ call' = [call EXCEPT ![p] = v]
  BY DEF PublishLive, Ready
<1>2. PICK q \in Enqueue(g.queue, seq, call[p].pt) :
             g' = [g EXCEPT !.last_assigned_seq = seq, !.queue = RecordFrames(q, <<seq>>)]
  BY Zenon DEF PublishLive
<1>3. /\ g.queue \in Queue /\ Bounded(g.queue) /\ g.last_assigned_seq \in Nat /\ seq \in Nat
      /\ g.last_acked_seq \in Nat /\ call[p].pt \in Points
  <2>1. /\ g.queue \in Queue /\ Bounded(g.queue) /\ g.last_assigned_seq \in Nat
        /\ g.last_acked_seq \in Nat
    BY <1>0, InnerParts
  <2> QED BY <1>0, <1>1, <2>1 DEF CallsOK
<1>4. q \in Queue
  BY <1>3, EnqueueBounded
<1> DEFINE r == RecordFrames(q, <<seq>>)
<1>5. Orderly(r.inflight, seq) /\ Len(r.inflight) <= Len(g.queue.inflight) + 1
  <2>1. Run(g.queue.inflight, g.last_assigned_seq)
    BY <1>0 DEF Ordered, Orderly
  <2> QED BY <1>3, <1>4, <2>1, LiveOrderly
<1>a. g' = [g EXCEPT !.last_assigned_seq = seq, !.queue = r]
  BY <1>2
<1> HIDE DEF r, seq
<1>6. /\ g'.track_uid = g.track_uid /\ g'.starting = g.starting /\ LastOf(g') = seq
      /\ g'.last_acked_seq = g.last_acked_seq /\ g'.start_wait = g.start_wait
      /\ g'.session_ready = g.session_ready /\ g'.queue = r /\ g'.last_assigned_seq = seq
  BY <1>0, <1>a, Zenon DEF Inner, LastOf
<1>7. Phase = "on" /\ Phase' = Phase /\ g.track_uid # None
  <2>1. Phase = "on" /\ g.track_uid # None
    BY <1>1, Phases
  <2> QED BY <1>1, <1>6, <2>1 DEF Phase, PhaseOf
<1>8. LastOf(g) \in Nat /\ LastOf(g) <= seq /\ seq = g.last_assigned_seq + 1
  BY <1>3 DEF LastOf, seq
<1>9. SessionOK(g', srv'.next)
  BY <1>0, <1>1, <1>6, <1>7 DEF SessionOK
<1>10. Ordered(g')
  <2>1. Len(g.queue.inflight) \in Nat /\ Len(r.inflight) \in Nat
    <3>1. g'.queue \in Queue
      BY InnerParts DEF IInv
    <3> QED BY <1>3, <1>6, <3>1, QueueParts
  <2>2. g.last_acked_seq + Len(g.queue.inflight) <= g.last_assigned_seq
    BY <1>0 DEF Ordered, Acked
  <2>3. g.last_acked_seq + Len(r.inflight) <= seq
    <3>1. \A a, b, c, d \in Nat : a + b <= d /\ c <= b + 1 => a + c <= d + 1
      OBVIOUS
    <3> QED BY <1>3, <1>5, <1>8, <2>1, <2>2, <3>1
  <2>4. Acked(g')
    BY <1>6, <2>3 DEF Acked
  <2> QED BY <1>5, <1>6, <2>4 DEF Ordered
<1>11. HostOK(srv', LastOf(g'))
  <2>1. srv.acked \in Nat
    BY <1>0 DEF Server
  <2> QED BY <1>0, <1>1, <1>3, <1>6, <1>8, <2>1 DEF HostOK
<1>12. CallsKept
  <2>1. PublishersOK(call, Phase, LastOf(g'))
    BY <1>0, <1>3, <1>6, <1>8, Later
  <2>2. v.pc = "pubSend" /\ v.seq = seq
    BY <1>0, CallParts, Zenon DEF Call
  <2> HIDE DEF v
  <2>3. PublisherOK(v, Phase, LastOf(g')) /\ v.pc \notin Starters
    BY <1>3, <1>6, <1>7, <2>2 DEF PublisherOK, TripPc, Starters
  <2> QED BY <1>0, <1>1, <2>1, <2>3, PublisherPut
<1> QED BY <1>1, <1>6, <1>7, <1>8, <1>9, <1>10, <1>11, <1>12, TripFrame

\* A call in progress takes its next step.
LEMMA CallStepTrip ==
  ASSUME IInv, IInv', Trip, NEW p \in Procs, CallStep(p)
  PROVE  Trip'
<1>0. CallsOK(call) /\ PublishersOK(call, Phase, LastOf(g))
  BY TripParts
<1>1. CASE PublishSend(p)
  <2> DEFINE seq == call[p].seq % SeqSpace
             m   == Loc(seq, <<call[p].pt>>)
  <2>1. /\ call[p].pc = "pubSend" /\ Return(p) /\ UNCHANGED <<g, driver, reader, srv>>
        /\ Sent(m) \/ SendFails
    BY <1>1 DEF PublishSend
  <2>2. /\ Phase = "on" /\ call[p].seq <= LastOf(g) /\ call[p].seq \in Nat /\ LastOf(g) \in Nat
        /\ <<call[p].pt>> \in Seq(Points)
    <3>1. call[p].pt \in Points
      BY <1>0, <2>1 DEF CallsOK
    <3> QED BY <1>0, <2>1, <3>1, TripParts, CallParts DEF PublishersOK, PublisherOK
  <2>3. seq \in Nat /\ seq <= LastOf(g)
    <3>1. seq \in Nat /\ seq <= call[p].seq
      BY <2>2, WrapsBehind
    <3> QED BY <2>2, <3>1
  <2> HIDE DEF seq
  <2>4. m \in Msg
    <3>1. "Loc" \in MsgType /\ 0 \in Nat
      BY DEF MsgType
    <3> QED BY <2>2, <2>3, <3>1, Messages
  <2>5. m.type = "Loc" /\ m.seq = seq
    BY MsgFields
  <2> HIDE DEF m
  <2>6. UpOK(m, Phase, LastOf(g)) /\ m.type # "TrackStart"
    BY <2>2, <2>3, <2>5 DEF UpOK
  <2>7. SameTrip(g, g') /\ LastOf(g') = LastOf(g)
    BY <2>1 DEF SameTrip
  <2>8. UNCHANGED wire \/ WiresKept
    BY <2>1, <2>4, <2>6, <2>7, SentTrip
  <2>9. CallsKept
    BY <1>0, <2>1, <2>7, PublisherMoves
  <2> QED BY <2>1, <2>7, <2>8, <2>9, TripStays
<1>2. CASE EventSend(p)
  <2>1. Return(p) /\ UNCHANGED <<g, driver, reader, srv>> /\ (Sent(M("Event")) \/ SendFails)
    BY <1>2 DEF EventSend
  <2>2. M("Event") \in Msg /\ M("Event").type = "Event"
    BY Messages, EmptySeq, ConstantFacts DEF MsgType, M
  <2>3. UpOK(M("Event"), Phase, LastOf(g)) /\ M("Event").type # "TrackStart"
    <3>1. "Event" # "TrackStart"
      OBVIOUS
    <3> QED BY <2>2, <3>1, Zenon DEF UpOK
  <2>4. SameTrip(g, g') /\ LastOf(g') = LastOf(g)
    BY <2>1 DEF SameTrip
  <2>5. UNCHANGED wire \/ WiresKept
    BY <2>1, <2>2, <2>3, <2>4, SentTrip
  <2>6. CallsKept
    BY <1>0, <2>1, <2>4, PublisherMoves
  <2> QED BY <2>1, <2>4, <2>5, <2>6, TripStays
<1>3. call[p].pc \in TripPc
  BY <1>0 DEF PublishersOK, PublisherOK
<1>4. ~(\/ StartSend(p) \/ StartFailed(p) \/ StopRegister(p) \/ StopSend(p) \/ StopFailed(p)
        \/ CallReturns(p) \/ ManualRegister(p) \/ ManualSend(p) \/ ManualFailed(p)
        \/ ManualReturns(p) \/ CloseSend(p) \/ Close(p))
  BY <1>3 DEF TripPc, Starters, StartSend, StartFailed, StopRegister, StopSend, StopFailed,
     CallReturns, ManualRegister, ManualSend, ManualFailed, ManualReturns, CloseSend, Close
<1> QED BY <1>1, <1>2, <1>4, PublishStartTrip, PublishStartFailedTrip, PublishStageTrip,
           PublishLiveTrip DEF CallStep


-----------------------------------------------------------------------------
(* Dialing tasks.                                                            *)

\* A task goes on with something else than a Resume.
LEMMA DialerGoes ==
  ASSUME DriversOK(driver), DialersOK(driver, Phase), NEW d \in Drivers, NEW v,
         v.pc \notin {"auth", "sendResume"}, driver' = [driver EXCEPT ![d] = v]
  PROVE  DriversKept
<1>1. DialerOK(v, Phase)
  BY DEF DialerOK
<1>2. DialersOK([driver EXCEPT ![d] = v], Phase)
  BY <1>1, DialerPut
<1> QED BY <1>2, Zenon DEF DriversKept

\* on_socket_closed: what was sent on the lost socket counts as unsent.
LEMMA SocketClosedTrip ==
  ASSUME IInv, IInv', Trip, NEW d \in Drivers, SocketClosed(d)
  PROVE  Trip'
<1> DEFINE lost == [g EXCEPT !.out_tx = None, !.session_ready = FALSE,
                             !.queue = MarkUnsent(g.queue)]
           q == MarkUnsent(g.queue)
<1>0. /\ DriversOK(driver) /\ DialersOK(driver, Phase) /\ InnerOK(g) /\ g \in Inner
      /\ PublishersOK(call, Phase, LastOf(g)) /\ SessionOK(g, srv.next) /\ Ordered(g)
      /\ HostOK(srv, LastOf(g))
  BY TripParts
<1>1. UNCHANGED <<reader, wire, srv>>
  BY DEF SocketClosed
<1>2. \A r : AnsweredCalls(r) = call
  BY <1>0, NobodyWaits
<1>3. CASE driver[d].gen # g.dial_gen
  <2>1. Finish(d) /\ UNCHANGED <<g, call>>
    BY <1>3 DEF SocketClosed
  <2>2. DriversKept /\ SameTrip(g, g')
    BY <1>0, <2>1, DialerMoves DEF SameTrip
  <2> QED BY <1>1, <2>1, <2>2, TripStays
<1>4. CASE driver[d].gen = g.dial_gen
  <2>1. \/ /\ g' = [lost EXCEPT !.state = "Closed"]
           /\ Finish(d) /\ UNCHANGED call
        \/ /\ g' = [RejectPending(lost) EXCEPT !.state = "Closed"]
           /\ call' = RejectedCalls
           /\ driver' = [RejectedDrivers EXCEPT ![d] = IdleDriver]
        \/ /\ g' = [lost EXCEPT !.state = "Reconnecting",
                                !.attempt = IF MaxAttempts > 0 THEN g.attempt + 1 ELSE g.attempt]
           /\ driver' = [driver EXCEPT ![d] = [driver[d] EXCEPT !.pc = "sleep",
                                                     !.resume = ResumeNeeded]]
           /\ UNCHANGED call
    BY <1>4, Zenon DEF SocketClosed
  <2>2. UNCHANGED call
    BY <1>2, <2>1 DEF RejectedCalls
  <2>3. /\ g'.track_uid = g.track_uid /\ g'.starting = g.starting
        /\ g'.last_assigned_seq = g.last_assigned_seq /\ g'.last_acked_seq = g.last_acked_seq
        /\ g'.session_ready = FALSE /\ g'.start_wait \in {g.start_wait, NoOne}
        /\ g'.queue = q
    <3> HIDE DEF q
    <3>1. /\ lost.track_uid = g.track_uid /\ lost.starting = g.starting
          /\ lost.last_assigned_seq = g.last_assigned_seq
          /\ lost.last_acked_seq = g.last_acked_seq
          /\ lost.session_ready = FALSE /\ lost.start_wait = g.start_wait
          /\ lost.queue = q /\ DOMAIN lost = DOMAIN g
      BY <1>0, Zenon DEF Inner, q
    <3>2. DOMAIN g = {"state", "track_uid", "last_assigned_seq", "last_acked_seq", "queue",
                      "session_ready", "starting", "intentional", "dial_gen", "out_tx",
                      "start_wait", "stop_wait", "resume_wait", "attempt"}
      BY <1>0 DEF Inner
    <3> HIDE DEF lost
    <3> QED BY <2>1, <3>1, <3>2 DEF RejectPending
  <2>4. Orderly(q.inflight, g.last_assigned_seq) /\ Len(q.inflight) = Len(g.queue.inflight)
    <3>1. g.queue \in Queue /\ g.last_assigned_seq \in Nat
      BY <1>0, InnerParts
    <3> QED BY <1>0, <3>1, UnsentOrderly DEF Ordered
  <2> HIDE DEF q
  <2>5. Ordered(g')
    BY <1>0, <2>3, <2>4 DEF Ordered, Acked
  <2>6. g.track_uid = None => q.inflight = <<>>
    <3>1. g'.queue \in Queue /\ g.queue \in Queue
      BY <1>0, InnerParts DEF IInv
    <3>2. q.inflight \in Seq(QueuedPoint) /\ g.queue.inflight \in Seq(QueuedPoint)
      BY <2>3, <3>1, QueueParts
    <3>3. g.track_uid = None => Len(g.queue.inflight) = 0
      BY <1>0 DEF SessionOK
    <3> QED BY <2>4, <3>2, <3>3
  <2>7. SessionOK(g', srv'.next)
    BY <1>0, <1>1, <2>3, <2>6 DEF SessionOK
  <2>8. Phase' = Phase /\ LastOf(g) <= LastOf(g') /\ HostOK(srv', LastOf(g'))
    <3>1. LastOf(g) \in Nat
      BY TripParts
    <3> QED BY <1>0, <1>1, <2>3, <3>1 DEF Phase, LastOf
  <2>9. DriversKept
    <3>1. CASE Finish(d)
      BY <1>0, <3>1, DialerMoves
    <3>2. CASE driver' = [RejectedDrivers EXCEPT ![d] = IdleDriver]
      <4>1. DriversOK(RejectedDrivers) /\ DialersOK(RejectedDrivers, Phase)
        BY <1>0, DialerTold, TellDriverType DEF RejectedDrivers, Result
      <4>2. DialerOK(IdleDriver, Phase)
        BY DEF DialerOK, IdleDriver
      <4>3. DialersOK([RejectedDrivers EXCEPT ![d] = IdleDriver], Phase)
        BY <4>1, <4>2, DialerPut
      <4> QED BY <3>2, <4>3, Zenon DEF DriversKept
    <3>3. CASE driver' = [driver EXCEPT ![d] = [driver[d] EXCEPT !.pc = "sleep",
                                                       !.resume = ResumeNeeded]]
      <4> DEFINE v == [driver[d] EXCEPT !.pc = "sleep", !.resume = ResumeNeeded]
      <4>1. v.pc = "sleep"
        BY <1>0, DriverParts, Zenon DEF Driver
      <4> HIDE DEF v
      <4>2. v.pc \notin {"auth", "sendResume"}
        BY <4>1
      <4> QED BY <1>0, <3>3, <4>2, DialerGoes DEF v
    <3> QED BY <2>1, <3>1, <3>2, <3>3
  <2> QED BY <1>1, <2>2, <2>5, <2>7, <2>8, <2>9, TripFrame
<1> QED BY <1>3, <1>4

\* Sockets come and go without a start.
LEMMA LinesDialed ==
  ASSUME IInv, Trip, LastOf(g') = LastOf(g), NEW s,
         wire' = [wire EXCEPT ![s].up = TRUE] \/ wire' = [wire EXCEPT ![s] = ClosedWire]
  PROVE  WiresKept
<1>0. WiresOK(wire) /\ LinesOK(wire, Phase, LastOf(g)) /\ OneMsg(wire)
  BY TripParts
<1>1. CASE wire' = [wire EXCEPT ![s].up = TRUE]
  <2> DEFINE v == [wire[s] EXCEPT !.up = TRUE]
  <2>1. ASSUME s \in Gens PROVE LineKept(v, wire[s], Phase, LastOf(g))
    <3>1. wire[s] \in Wire /\ LineKept(wire[s], wire[s], Phase, LastOf(g))
      BY <1>0, <2>1, LineParts
    <3>2. v.c2s = wire[s].c2s /\ v.s2c = wire[s].s2c /\ v.bound = wire[s].bound
      BY <3>1, Zenon DEF Wire
    <3> HIDE DEF v
    <3> QED BY <3>1, <3>2, Zenon DEF LineKept, LineOK
  <2>2. wire' = [wire EXCEPT ![s] = v]
    BY <1>1, Zenon
  <2> HIDE DEF v
  <2>3. LinesKept([wire EXCEPT ![s] = v], wire, Phase, LastOf(g))
    BY <1>0, <2>1, LinesKeptPut
  <2> QED BY <2>2, <2>3, Zenon DEF WiresKept
<1>2. CASE wire' = [wire EXCEPT ![s] = ClosedWire]
  <2>1. ClosedWire.c2s = <<>> /\ ClosedWire.s2c = <<>> /\ ClosedWire.bound = None
    BY DEF ClosedWire
  <2>2. None \in {None, 1} /\ None # 1
    BY DEF None
  <2>3. s \in Gens => LineKept(ClosedWire, wire[s], Phase, LastOf(g))
    BY <2>1, <2>2, Nothing, Zenon DEF LineKept, LineOK
  <2>4. LinesKept([wire EXCEPT ![s] = ClosedWire], wire, Phase, LastOf(g))
    BY <1>0, <2>3, LinesKeptPut
  <2> QED BY <1>2, <2>4, Zenon DEF WiresKept
<1> QED BY <1>1, <1>2

\* A dial that succeeded: its socket is installed, or dropped.
LEMMA InstallTrip ==
  ASSUME IInv, IInv', Trip, NEW d \in Drivers, Install(d)
  PROVE  Trip'
<1> DEFINE s == driver[d].gen
           v == [reader[s] EXCEPT !.pc = "read"]
<1>0. /\ DriversOK(driver) /\ DialersOK(driver, Phase) /\ ReadersOK(reader) /\ g \in Inner
      /\ FlushersOK(reader, Phase, LastOf(g))
  BY TripParts
<1>1. UNCHANGED <<call, srv>>
  BY DEF Install
<1>2. CASE /\ DialErr(d) /\ wire' = [wire EXCEPT ![s] = ClosedWire]
           /\ UNCHANGED <<g, reader>>
  <2>1. DriversKept /\ SameTrip(g, g') /\ LastOf(g') = LastOf(g)
    BY <1>0, <1>2, DialerMoves DEF SameTrip
  <2>2. WiresKept
    BY <1>2, <2>1, LinesDialed
  <2> QED BY <1>1, <1>2, <2>1, <2>2, TripStays
<1>3. CASE /\ g' = [g EXCEPT !.out_tx = s, !.state = "Open", !.attempt = 0]
           /\ reader' = [reader EXCEPT ![s].pc = "read"]
           /\ Step(d, "resume") \/ Finish(d)
           /\ UNCHANGED wire
  <2>1. DriversKept
    <3>1. "resume" \in DriverPc \ {"auth", "sendResume"}
      BY DEF DriverPc
    <3> QED BY <1>0, <1>3, <3>1, DialerMoves
  <2>2. SameTrip(g, g') /\ LastOf(g') = LastOf(g)
    <3>1. /\ g'.track_uid = g.track_uid /\ g'.starting = g.starting
          /\ g'.last_assigned_seq = g.last_assigned_seq
          /\ g'.last_acked_seq = g.last_acked_seq /\ g'.start_wait = g.start_wait
          /\ g'.session_ready = g.session_ready /\ g'.queue = g.queue
      BY <1>0, <1>3, Zenon DEF Inner
    <3> QED BY <3>1 DEF SameTrip, LastOf
  <2>3. ReadersKept
    <3>1. reader' = [reader EXCEPT ![s] = v]
      BY <1>3, Zenon
    <3>2. s \in Gens => v.pc = "read"
      BY <1>0, ReaderParts, Zenon DEF Reader
    <3> HIDE DEF v
    <3>3. CASE s \in Gens
      <4>1. FlusherOK(v, Phase, LastOf(g))
        BY <3>2, <3>3 DEF FlusherOK
      <4>2. FlushersOK([reader EXCEPT ![s] = v], Phase, LastOf(g))
        BY <1>0, <4>1, FlusherPut
      <4> QED BY <2>2, <3>1, <4>2, Zenon DEF ReadersKept
    <3>4. CASE s \notin Gens
      <4>1. \A r \in Gens : reader'[r] = reader[r]
        BY <1>0, <3>1, <3>4 DEF ReadersOK
      <4> QED BY <1>0, <2>2, <4>1, Zenon DEF ReadersKept, FlushersOK
    <3> QED BY <3>3, <3>4
  <2> QED BY <1>1, <1>3, <2>1, <2>2, <2>3, TripStays
<1> QED BY <1>2, <1>3, Zenon DEF Install

\* send_resume_and_wait takes the waiter slot.
LEMMA ResumeRegisterTrip ==
  ASSUME IInv, IInv', Trip, NEW d \in Drivers, ResumeRegister(d)
  PROVE  Trip'
<1> DEFINE told == TellDriver(driver, g.resume_wait, "err")
           v == [driver[d] EXCEPT !.pc = "sendResume", !.uid = g.track_uid, !.res = "pending"]
<1>0. /\ DriversOK(driver) /\ DialersOK(driver, Phase) /\ g \in Inner
      /\ PublishersOK(call, Phase, LastOf(g))
  BY TripParts
<1>1. UNCHANGED <<reader, wire, srv>>
  BY DEF ResumeRegister
<1>2. CASE g.track_uid = None
  <2>1. Finish(d) /\ UNCHANGED <<g, call>>
    BY <1>2 DEF ResumeRegister
  <2>2. DriversKept /\ SameTrip(g, g')
    BY <1>0, <2>1, DialerMoves DEF SameTrip
  <2> QED BY <1>1, <2>1, <2>2, TripStays
<1>3. CASE g.track_uid # None
  <2>1. /\ g' = [g EXCEPT !.resume_wait = d] /\ driver' = [told EXCEPT ![d] = v]
        /\ call' = TellCall(call, g.resume_wait, "err")
    BY <1>3, Zenon DEF ResumeRegister
  <2>2. UNCHANGED call
    BY <1>0, <2>1, NobodyWaits
  <2>3. SameTrip(g, g')
    <3>1. /\ g'.track_uid = g.track_uid /\ g'.starting = g.starting
          /\ g'.last_assigned_seq = g.last_assigned_seq
          /\ g'.last_acked_seq = g.last_acked_seq /\ g'.start_wait = g.start_wait
          /\ g'.session_ready = g.session_ready /\ g'.queue = g.queue
      BY <1>0, <2>1, Zenon DEF Inner
    <3> QED BY <3>1 DEF SameTrip, LastOf
  <2>4. v.pc = "sendResume" /\ v.uid = g.track_uid
    BY <1>0, DriverParts, Zenon DEF Driver
  <2> HIDE DEF v
  <2>5. DialerOK(v, Phase)
    <3>1. Phase = "on" /\ g.track_uid = 1
      BY <1>3, Phases
    <3> QED BY <2>4, <3>1 DEF DialerOK
  <2>6. DriversOK(told) /\ DialersOK(told, Phase)
    BY <1>0, DialerTold, TellDriverType DEF Result
  <2>7. DialersOK([told EXCEPT ![d] = v], Phase)
    BY <2>5, <2>6, DialerPut
  <2>8. DriversKept
    BY <2>1, <2>7, Zenon DEF DriversKept
  <2> QED BY <1>1, <2>2, <2>3, <2>8, TripStays
<1> QED BY <1>2, <1>3

\* A Resume for the track that is on, or a failed one.
LEMMA ResumeSendTrip ==
  ASSUME IInv, IInv', Trip, NEW d \in Drivers, ResumeSend(d)
  PROVE  Trip'
<1> DEFINE m == Resume(driver[d].uid)
<1>0. /\ DriversOK(driver) /\ DialersOK(driver, Phase) /\ ReadersOK(reader)
      /\ FlushersOK(reader, Phase, LastOf(g))
  BY TripParts
<1>1. driver[d].pc = "sendResume" /\ UNCHANGED <<g, call, srv>>
  BY DEF ResumeSend
<1>2. SameTrip(g, g') /\ LastOf(g') = LastOf(g)
  BY <1>1 DEF SameTrip
<1>3. Phase = "on" /\ driver[d].uid = 1
  BY <1>0, <1>1 DEF DialersOK, DialerOK
<1>4. m \in Msg /\ UpOK(m, Phase, LastOf(g)) /\ m.type # "TrackStart"
  <2>1. m.type = "Resume" /\ m.uid = 1
    BY <1>3, MsgFields
  <2>2. m \in Msg
    <3>1. 1 \in Nat /\ "Resume" \in MsgType
      BY DEF MsgType
    <3> QED BY <1>3, <3>1, Messages, EmptySeq, ConstantFacts
  <2> HIDE DEF m
  <2>3. "Resume" # "TrackStart"
    OBVIOUS
  <2> QED BY <1>3, <2>1, <2>2, <2>3, Zenon DEF UpOK
<1> HIDE DEF m
<1>5. CASE Sent(m) /\ Step(d, "waitResume") /\ UNCHANGED reader
  <2>1. UNCHANGED wire \/ WiresKept
    BY <1>2, <1>4, <1>5, SentTrip
  <2>2. DriversKept
    <3>1. "waitResume" \in DriverPc \ {"auth", "sendResume"}
      BY DEF DriverPc
    <3> QED BY <1>0, <1>5, <3>1, DialerMoves
  <2> QED BY <1>1, <1>2, <1>5, <2>1, <2>2, TripStays
<1>6. CASE SendFails /\ DialErr(d) /\ Unheard(d)
  <2>1. UNCHANGED wire
    BY <1>6 DEF SendFails
  <2>2. DriversKept
    BY <1>0, <1>6, DialerMoves
  <2>3. ReadersKept
    BY <1>0, <1>2, <1>6, FlusherUnheard DEF ReadersKept
  <2> QED BY <1>1, <1>2, <2>1, <2>2, <2>3, TripStays
<1> QED BY <1>5, <1>6, Zenon DEF ResumeSend, m

\* Every step of a dialing task.
LEMMA DriverStepTrip ==
  ASSUME IInv, IInv', Trip, NEW d \in Drivers, DriverStep(d)
  PROVE  Trip'
<1>0. DriversOK(driver) /\ DialersOK(driver, Phase) /\ g \in Inner /\ driver[d] \in Driver
  BY TripParts, DriverParts
<1>1. \A x \in {"gone", "dial", "resume", "relocate", "install", "connecting", "closed",
                "retrySleep", "failed"} : x \in DriverPc \ {"auth", "sendResume"}
  BY DEF DriverPc
<1>2. ASSUME UNCHANGED g PROVE SameTrip(g, g') /\ LastOf(g') = LastOf(g)
  BY <1>2 DEF SameTrip
<1>3. ASSUME UNCHANGED <<g, call, reader, wire, srv>>,
             \/ \E x \in DriverPc \ {"auth", "sendResume"} : Step(d, x)
             \/ Finish(d) \/ DialErr(d)
      PROVE  Trip'
  <2>1. DriversKept
    BY <1>0, <1>3, DialerMoves
  <2> QED BY <1>2, <1>3, <2>1, TripStays
<1>4. CASE Wake(d) \/ DialRelocated(d) \/ DialFails(d) \/ ResumeReturns(d) \/ ResumeRetry(d)
  <2>1. UNCHANGED <<g, call, reader, wire, srv>>
    BY <1>4 DEF Wake, DialRelocated, DialFails, ResumeReturns, ResumeRetry
  <2>2. \/ Step(d, "dial") \/ Step(d, "relocate") \/ Step(d, "retrySleep") \/ Step(d, "resume")
        \/ Finish(d) \/ DialErr(d)
    BY <1>4, Zenon DEF Wake, DialRelocated, DialFails, ResumeReturns, ResumeRetry
  <2> QED BY <1>1, <1>3, <2>1, <2>2
<1>5. CASE HandleRelocate(d)
  <2>1. UNCHANGED <<g, call, reader, wire, srv>>
    BY <1>5 DEF HandleRelocate
  <2>2. CASE DialErr(d)
    BY <1>3, <2>1, <2>2
  <2>3. CASE driver' = [driver EXCEPT ![d] = [driver[d] EXCEPT !.pc = "dial",
                                       !.resume = driver[d].resume \/ ResumeNeeded]]
    <3> DEFINE v == [driver[d] EXCEPT !.pc = "dial", !.resume = driver[d].resume \/ ResumeNeeded]
    <3>1. v.pc = "dial"
      BY <1>0, Zenon DEF Driver
    <3> HIDE DEF v
    <3>2. v.pc \notin {"auth", "sendResume"}
      BY <3>1
    <3>3. DriversKept
      BY <1>0, <2>3, <3>2, DialerGoes DEF v
    <3> QED BY <1>2, <2>1, <3>3, TripStays
  <2> QED BY <1>5, <2>2, <2>3, Zenon DEF HandleRelocate
<1>6. CASE Dial(d)
  <2> DEFINE v == [driver[d] EXCEPT !.pc = "connecting", !.gen = g.dial_gen + 1]
  <2>1. /\ UNCHANGED <<call, reader, wire, srv>> /\ driver' = [driver EXCEPT ![d] = v]
        /\ g' = [g EXCEPT !.dial_gen = g.dial_gen + 1, !.session_ready = FALSE,
                          !.state = IF g.state \in {"Open", "Reconnecting"}
                                    THEN "Reconnecting" ELSE "Connecting"]
    BY <1>6, Zenon DEF Dial
  <2>2. v.pc = "connecting"
    BY <1>0, Zenon DEF Driver
  <2> HIDE DEF v
  <2>3. v.pc \notin {"auth", "sendResume"}
    BY <2>2
  <2>4. DriversKept
    BY <1>0, <2>1, <2>3, DialerGoes
  <2>5. SameTrip(g, g')
    <3>1. /\ g'.track_uid = g.track_uid /\ g'.starting = g.starting
          /\ g'.last_assigned_seq = g.last_assigned_seq
          /\ g'.last_acked_seq = g.last_acked_seq /\ g'.start_wait = g.start_wait
          /\ g'.session_ready = FALSE /\ g'.queue = g.queue
      BY <1>0, <2>1, Zenon DEF Inner
    <3> QED BY <3>1 DEF SameTrip, LastOf
  <2> QED BY <2>1, <2>4, <2>5, TripStays
<1>7. CASE DialHello(d)
  <2>1. /\ UNCHANGED <<g, call, reader, srv>> /\ Step(d, "install")
        /\ wire' = [wire EXCEPT ![driver[d].gen].up = TRUE]
    BY <1>7 DEF DialHello
  <2>2. WiresKept
    BY <1>2, <2>1, LinesDialed
  <2>3. DriversKept
    BY <1>0, <1>1, <2>1, DialerMoves
  <2> QED BY <1>2, <2>1, <2>2, <2>3, TripStays
<1>8. CASE ReconnectFailed(d)
  <2> DEFINE v == [driver[d] EXCEPT !.pc = "closed", !.gen = g.dial_gen, !.origin = "reconnect"]
  <2>1. UNCHANGED <<g, call, reader, wire, srv>> /\ driver' = [driver EXCEPT ![d] = v]
    BY <1>8, Zenon DEF ReconnectFailed
  <2>2. v.pc = "closed"
    BY <1>0, Zenon DEF Driver
  <2> HIDE DEF v
  <2>3. v.pc \notin {"auth", "sendResume"}
    BY <2>2
  <2>4. DriversKept
    BY <1>0, <2>1, <2>3, DialerGoes
  <2> QED BY <1>2, <2>1, <2>4, TripStays
<1>9. ~(GiveUpAuth(d) \/ RefreshOk(d) \/ RefreshErr(d))
  BY <1>0 DEF DialersOK, DialerOK, GiveUpAuth, RefreshOk, RefreshErr
<1> QED BY <1>4, <1>5, <1>6, <1>7, <1>8, <1>9, SocketClosedTrip, InstallTrip,
           ResumeRegisterTrip, ResumeSendTrip DEF DriverStep


-----------------------------------------------------------------------------
(* Read loops.                                                               *)

\* A read loop that turns to flush_queue sends nothing yet.
LEMMA FlusherTurns ==
  ASSUME IInv, Trip, NEW s \in Gens, NEW w, FlushThen(s, w)
  PROVE  \A ph, last : FlushersOK(reader, ph, last) => FlushersOK(reader', ph, last)
<1> DEFINE v == [reader[s] EXCEPT !.pc = "flush", !.wake = w]
<1>0. ReadersOK(reader)
  BY TripParts
<1>1. v.pc = "flush"
  BY <1>0, ReaderParts, Zenon DEF Reader
<1>2. reader' = [reader EXCEPT ![s] = v]
  BY Zenon DEF FlushThen
<1> HIDE DEF v
<1>3. ASSUME NEW ph, NEW last, FlushersOK(reader, ph, last) PROVE FlushersOK(reader', ph, last)
  <2>1. FlusherOK(v, ph, last)
    BY <1>1 DEF FlusherOK
  <2>2. FlushersOK([reader EXCEPT ![s] = v], ph, last)
    BY <1>0, <1>3, <2>1, FlusherPut
  <2> QED BY <1>2, <2>2, Zenon
<1> QED BY <1>3, Zenon

\* dispatch of ResumeOk and Ack: what they confirm is not in flight any more.
LEMMA AckStepTrip ==
  ASSUME IInv, IInv', Trip, NEW s \in Gens, OnResumeOk(s) \/ OnAck(s)
  PROVE  Trip'
<1> DEFINE seq == Got(s).seq
           q   == AckThrough(g.queue, seq)
<1>0. /\ InnerOK(g) /\ g \in Inner /\ WiresOK(wire) /\ LinesOK(wire, Phase, LastOf(g))
      /\ OneMsg(wire) /\ FlushersOK(reader, Phase, LastOf(g)) /\ SessionOK(g, srv.next)
      /\ Ordered(g) /\ HostOK(srv, LastOf(g)) /\ LastOf(g) \in Nat
  BY TripParts
<1>1. UNCHANGED <<driver, call, srv>>
  BY DEF OnResumeOk, OnAck
<1>2. PICK t \in {"ResumeOk", "Ack"} : Receives(s, t) /\ (t = "Ack" <=> OnAck(s)) /\ Consume(s)
  <2>1. ASSUME OnAck(s) PROVE Receives(s, "Ack") /\ Consume(s)
    BY <2>1 DEF OnAck
  <2>2. ASSUME OnResumeOk(s) PROVE Receives(s, "ResumeOk") /\ Consume(s)
    BY <2>2 DEF OnResumeOk
  <2>3. CASE OnAck(s)
    BY <2>1, <2>3
  <2>4. CASE ~OnAck(s)
    BY <2>2, <2>4
  <2> QED BY <2>3, <2>4
<1>3. /\ Got(s) \in Msg /\ Got(s).type = t /\ DownOK(Got(s), Phase, LastOf(g))
      /\ LinesKept(wire', wire, Phase, LastOf(g))
  BY <1>0, <1>2, LinesGot
<1>4. /\ Phase = "on" /\ seq <= LastOf(g) /\ seq \in Nat
      /\ t = "ResumeOk" => Got(s).uid = 1
  <2>1. seq \in Nat
    BY <1>3, MsgParts
  <2> QED BY <1>3, <2>1 DEF DownOK
<1>5. /\ g.track_uid = 1 /\ ~g.starting /\ g.last_acked_seq \in Nat /\ g.queue \in Queue
      /\ g.last_assigned_seq \in Nat /\ LastOf(g) = g.last_assigned_seq
      /\ g.queue.inflight \in Seq(QueuedPoint)
  <2>1. g.last_acked_seq \in Nat /\ g.queue \in Queue /\ g.last_assigned_seq \in Nat
    BY <1>0, InnerParts
  <2> QED BY <1>4, <2>1, Phases, QueueParts DEF LastOf
<1>6. /\ Orderly(q.inflight, LastOf(g)) /\ Len(q.inflight) <= Len(g.queue.inflight)
      /\ seq + Len(q.inflight) <= LastOf(g)
  BY <1>0, <1>4, <1>5, AckedOrderly DEF Ordered
<1>7. /\ g'.track_uid = 1 /\ g'.starting = g.starting /\ g'.start_wait = g.start_wait
      /\ g'.last_assigned_seq = LastOf(g) /\ g'.queue = q
      /\ g'.last_acked_seq \in {seq, g.last_acked_seq}
  <2>1. CASE OnResumeOk(s) /\ t = "ResumeOk"
    <3> DEFINE uid == IF Got(s).uid # None THEN Got(s).uid ELSE g.track_uid
               last == IF g.last_assigned_seq < seq THEN seq ELSE g.last_assigned_seq
    <3>1. g' = [g EXCEPT !.track_uid = uid, !.last_acked_seq = seq, !.last_assigned_seq = last,
                         !.queue = q, !.session_ready = TRUE, !.resume_wait = NoOne]
      BY <2>1, Zenon DEF OnResumeOk
    <3>2. uid = 1 /\ last = LastOf(g)
      BY <1>4, <1>5, <2>1 DEF None
    <3> HIDE DEF uid, last, q, seq
    <3>3. /\ g'.track_uid = uid /\ g'.starting = g.starting /\ g'.start_wait = g.start_wait
          /\ g'.last_assigned_seq = last /\ g'.queue = q /\ g'.last_acked_seq = seq
      BY <1>0, <3>1, Zenon DEF Inner
    <3> QED BY <3>2, <3>3
  <2>2. CASE OnAck(s)
    <3> DEFINE acked == IF seq > g.last_acked_seq THEN seq ELSE g.last_acked_seq
    <3>1. g' = [g EXCEPT !.last_acked_seq = acked, !.queue = q]
      BY <2>2, Zenon DEF OnAck
    <3>2. acked \in {seq, g.last_acked_seq}
      OBVIOUS
    <3> HIDE DEF acked, q, seq
    <3>3. /\ g'.track_uid = g.track_uid /\ g'.starting = g.starting
          /\ g'.start_wait = g.start_wait /\ g'.last_assigned_seq = g.last_assigned_seq
          /\ g'.queue = q /\ g'.last_acked_seq = acked
      BY <1>0, <3>1, Zenon DEF Inner
    <3> QED BY <1>5, <3>2, <3>3
  <2> QED BY <1>2, <2>1, <2>2
<1> HIDE DEF q
<1>8. Ordered(g')
  <2>1. Len(q.inflight) \in Nat /\ Len(g.queue.inflight) \in Nat
    <3>1. g'.queue \in Queue
      BY InnerParts DEF IInv
    <3>2. q.inflight \in Seq(QueuedPoint)
      BY <1>7, <3>1, QueueParts
    <3> QED BY <1>5, <3>2
  <2>2. g.last_acked_seq + Len(g.queue.inflight) <= LastOf(g)
    BY <1>0 DEF Ordered, Acked, LastOf
  <2> HIDE DEF seq
  <2>3. g.last_acked_seq + Len(q.inflight) <= LastOf(g)
    <3>1. \A a, b, c, d \in Nat : a + b <= d /\ c <= b => a + c <= d
      OBVIOUS
    <3> QED BY <1>0, <1>5, <1>6, <2>1, <2>2, <3>1
  <2>4. g'.last_acked_seq + Len(q.inflight) <= LastOf(g)
    BY <1>6, <1>7, <2>3
  <2> QED BY <1>6, <1>7, <2>4 DEF Ordered, Acked
<1>9. Phase' = Phase /\ LastOf(g') = LastOf(g)
  BY <1>1, <1>5, <1>7 DEF Phase, PhaseOf, LastOf, None
<1>10. SessionOK(g', srv'.next)
  BY <1>0, <1>1, <1>5, <1>7 DEF SessionOK, None
<1>11. ReadersKept
  <2>1. \E w : FlushThen(s, w)
    BY DEF OnResumeOk, OnAck
  <2> QED BY <1>0, <1>9, <2>1, FlusherTurns, Zenon DEF ReadersKept
<1>12. WiresKept
  BY <1>3, <1>9, Zenon DEF WiresKept
<1> QED BY <1>0, <1>1, <1>8, <1>9, <1>10, <1>11, <1>12, TripFrame

\* dispatch of TrackStarted: the only start has its answer, the track is on.
LEMMA TrackStartedTrip ==
  ASSUME IInv, IInv', Trip, NEW s \in Gens, OnTrackStarted(s)
  PROVE  Trip'
<1>0. /\ g \in Inner /\ WiresOK(wire) /\ LinesOK(wire, Phase, LastOf(g)) /\ OneMsg(wire)
      /\ PublishersOK(call, Phase, LastOf(g)) /\ DialersOK(driver, Phase)
      /\ FlushersOK(reader, Phase, LastOf(g)) /\ SessionOK(g, srv.next)
      /\ HostOK(srv, LastOf(g)) /\ srv \in Server
  BY TripParts
<1>1. /\ Receives(s, "TrackStarted") /\ Consume(s) /\ FlushThen(s, g.start_wait)
      /\ UNCHANGED <<driver, call, srv>>
      /\ g' = [g EXCEPT !.track_uid = Got(s).uid, !.last_assigned_seq = 0,
                        !.last_acked_seq = 0, !.session_ready = TRUE,
                        !.starting = FALSE, !.start_wait = NoOne]
  BY Zenon DEF OnTrackStarted
<1>2. /\ Got(s).type = "TrackStarted" /\ DownOK(Got(s), Phase, LastOf(g))
      /\ LinesKept(wire', wire, Phase, LastOf(g)) /\ Given(wire') = {}
  BY <1>0, <1>1, LinesGot
<1>3. Phase = "given" /\ Got(s).uid = 1
  BY <1>2 DEF DownOK
<1>4. /\ g'.track_uid = 1 /\ ~g'.starting /\ g'.start_wait = NoOne
      /\ g'.last_assigned_seq = 0 /\ g'.last_acked_seq = 0 /\ g'.queue = g.queue
  <2> DEFINE uid == Got(s).uid
  <2> HIDE DEF uid
  <2>1. g' = [g EXCEPT !.track_uid = uid, !.last_assigned_seq = 0, !.last_acked_seq = 0,
                       !.session_ready = TRUE, !.starting = FALSE, !.start_wait = NoOne]
    BY <1>1 DEF uid
  <2>2. /\ g'.track_uid = uid /\ g'.starting = FALSE /\ g'.start_wait = NoOne
        /\ g'.last_assigned_seq = 0 /\ g'.last_acked_seq = 0 /\ g'.queue = g.queue
    BY <1>0, <2>1, Zenon DEF Inner
  <2> QED BY <1>3, <2>2 DEF uid
<1>5. srv.next = 2 /\ LastOf(g) = 0 /\ LastOf(g') = 0 /\ g'.queue.inflight = <<>>
  BY <1>3, <1>4, Phases DEF LastOf
<1>6. SessionOK(g', srv'.next) /\ HostOK(srv', LastOf(g'))
  BY <1>0, <1>1, <1>4, <1>5 DEF SessionOK, None
<1>7. Ordered(g')
  BY <1>4, <1>5 DEF Ordered, Acked, Orderly, Run, SentUpTo
<1>8. Phase' = "on"
  BY <1>4 DEF Phase, PhaseOf, None
<1>9. Starting(call) = {} /\ Asked(wire') = {}
  <2>1. Starting(call) = {} /\ Asked(wire) = {}
    BY <1>0, <1>3, NoneUnderWay
  <2> QED BY <1>2, <2>1 DEF LinesKept
<1>10. LinesOK(wire', Phase, LastOf(g)) /\ OneMsg(wire')
  BY <1>2, Zenon DEF LinesKept
<1>11. FlushersOK(reader', Phase, LastOf(g))
  BY <1>0, <1>1, FlusherTurns
<1>12. /\ PublishersOK(call, "on", LastOf(g')) /\ DialersOK(driver, "on")
       /\ FlushersOK(reader', "on", LastOf(g')) /\ LinesOK(wire', "on", LastOf(g'))
  BY <1>0, <1>2, <1>3, <1>9, <1>10, <1>11, Moves
<1>13. OneStart(call', wire')
  BY <1>1, <1>9, <1>10 DEF OneStart, AtMostOne
<1> QED BY <1>1, <1>6, <1>7, <1>8, <1>12, <1>13, Zenon DEF Trip, LastOf

\* dispatch of an Error event that does not concern the track: whoever waits is told,
\* and a start under way stays so.
LEMMA ErrorTrip ==
  ASSUME IInv, IInv', Trip, NEW s \in Gens, NEW code \in ErrorCodes, OnError(s, code)
  PROVE  Trip'
<1> DEFINE res == IF code = "TryAgain" THEN "retry" ELSE "err"
           told == TellDriver(driver, g.resume_wait, res)
           still == RejectPending(g).starting /\ g.start_wait = NoOne /\ code # "TrackNotFound"
<1>0. /\ g \in Inner /\ WiresOK(wire) /\ LinesOK(wire, Phase, LastOf(g)) /\ OneMsg(wire)
      /\ PublishersOK(call, Phase, LastOf(g)) /\ DialersOK(driver, Phase) /\ DriversOK(driver)
      /\ g.start_wait = NoOne /\ g.starting \in BOOLEAN
  BY TripParts, InnerParts
<1>1. Receives(s, code) /\ Consume(s) /\ UNCHANGED <<reader, srv>> /\ call' = AnsweredCalls(res)
  BY Zenon DEF OnError
<1>2. /\ Got(s).type = code /\ DownOK(Got(s), Phase, LastOf(g))
      /\ LinesKept(wire', wire, Phase, LastOf(g))
  BY <1>0, <1>1, LinesGot
<1>3. code \in {"TryAgain", "RateLimited"}
  BY <1>2 DEF DownOK, ErrorCodes
<1>4. code \notin FatalResume /\ code # "TrackNotFound" /\ code \notin AuthErrors
  BY <1>3 DEF FatalResume, AuthErrors
<1>5. g' = [RejectPending(g) EXCEPT !.starting = still] /\ driver' = told
  BY <1>4, Zenon DEF OnError
<1>6. UNCHANGED call
  BY <1>0, <1>1, NobodyWaits
<1>7. SameTrip(g, g') /\ LastOf(g') = LastOf(g)
  <2>1. still = g.starting
    <3>1. RejectPending(g).starting = g.starting
      BY <1>0, Zenon DEF RejectPending, Inner
    <3> QED BY <1>0, <1>4, <3>1
  <2> HIDE DEF still
  <2>2. /\ g'.track_uid = g.track_uid /\ g'.starting = still
        /\ g'.last_assigned_seq = g.last_assigned_seq
        /\ g'.last_acked_seq = g.last_acked_seq /\ g'.start_wait = NoOne
        /\ g'.session_ready = g.session_ready /\ g'.queue = g.queue
    BY <1>0, <1>5, Zenon DEF RejectPending, Inner
  <2> QED BY <2>1, <2>2 DEF SameTrip, LastOf
<1>8. DriversKept
  BY <1>0, <1>5, DialerTold DEF DriversKept
<1>9. WiresKept
  BY <1>2, <1>7, Zenon DEF WiresKept
<1> QED BY <1>1, <1>6, <1>7, <1>8, <1>9, TripStays

\* The oneshot after the flush: only a dialing task waits for it.
LEMMA WakeupTrip ==
  ASSUME IInv, IInv', Trip, NEW s \in Gens, Wakeup(s), UNCHANGED <<g, wire, srv>>
  PROVE  Trip'
<1> DEFINE v == [pc |-> "read", out |-> <<>>, wake |-> NoOne]
<1>0. /\ PublishersOK(call, Phase, LastOf(g)) /\ DialersOK(driver, Phase) /\ DriversOK(driver)
      /\ ReadersOK(reader) /\ FlushersOK(reader, Phase, LastOf(g))
  BY TripParts
<1>1. /\ reader' = [reader EXCEPT ![s] = v]
      /\ driver' = TellDriver(driver, reader[s].wake, "ok")
      /\ call' = TellCall(call, reader[s].wake, "ok")
  BY Zenon DEF Wakeup
<1>2. UNCHANGED call
  BY <1>0, <1>1, NobodyWaits
<1>3. DriversKept
  BY <1>0, <1>1, DialerTold DEF DriversKept
<1>4. v.pc = "read"
  OBVIOUS
<1> HIDE DEF v
<1>5. FlusherOK(v, Phase, LastOf(g))
  BY <1>4 DEF FlusherOK
<1>6. FlushersOK([reader EXCEPT ![s] = v], Phase, LastOf(g))
  BY <1>0, <1>5, FlusherPut
<1>7. SameTrip(g, g') /\ LastOf(g') = LastOf(g)
  BY DEF SameTrip
<1>8. ReadersKept
  BY <1>1, <1>6, <1>7, Zenon DEF ReadersKept
<1> QED BY <1>2, <1>3, <1>7, <1>8, TripStays

\* A round of flush_queue: staged points get the next numbers, and no frame is
\* ahead of them.
LEMMA FlushQueueTrip ==
  ASSUME IInv, IInv', Trip, NEW s \in Gens, FlushQueue(s)
  PROVE  Trip'
<1> DEFINE a    == FlushAssign(g.queue, g.last_assigned_seq)
           out  == FlushEncode(a.queue)
           seqs == [i \in DOMAIN out |-> out[i].seq]
           q    == RecordFrames(a.queue, seqs)
           v    == [reader[s] EXCEPT !.pc = "send", !.out = out]
<1>0. /\ InnerOK(g) /\ g \in Inner /\ ReadersOK(reader) /\ FlushersOK(reader, Phase, LastOf(g))
      /\ SessionOK(g, srv.next) /\ Ordered(g) /\ HostOK(srv, LastOf(g)) /\ srv \in Server
  BY TripParts
<1>1. UNCHANGED <<wire, srv>>
  BY Zenon DEF FlushQueue
<1>2. \/ /\ g' = [g EXCEPT !.queue = q, !.last_assigned_seq = a.assigned]
         /\ reader' = [reader EXCEPT ![s] = v] /\ UNCHANGED <<driver, call>>
         /\ Ready
      \/ Wakeup(s) /\ UNCHANGED g
  BY Zenon DEF FlushQueue, FlushRecord
<1>3. /\ g.queue \in Queue /\ Bounded(g.queue) /\ g.last_assigned_seq \in Nat
      /\ g.last_acked_seq \in Nat /\ g.queue.inflight \in Seq(QueuedPoint)
  BY <1>0, InnerParts, QueueParts
<1>4. /\ a.queue \in Queue /\ a.assigned \in Nat /\ Orderly(a.queue.inflight, a.assigned)
      /\ g.last_assigned_seq <= a.assigned
      /\ Len(a.queue.inflight) = Len(g.queue.inflight) + (a.assigned - g.last_assigned_seq)
  BY <1>0, <1>3, AssignOrderly DEF Ordered
<1>5. Bounded(a.queue)
  <2>1. Size(a.queue) = Size(g.queue) /\ a.queue.frames = g.queue.frames
    BY <1>3, FlushAssignMoves
  <2> HIDE DEF a
  <2> QED BY <1>3, <1>4, <2>1 DEF Bounded
<1> HIDE DEF a
<1>6. out \in Seq(Frame) /\ \A k \in DOMAIN out : out[k].seq <= a.assigned
  <2>1. out \in Seq(Frame)
    BY <1>4, <1>5, FlushEncodeFits
  <2> QED BY <1>4, <2>1, RoundBehind
<1> HIDE DEF out
<1>7. seqs \in Seq(Nat)
  <2>1. \A i \in DOMAIN out : out[i] \in Frame
    BY <1>6
  <2>2. \A i \in DOMAIN out : out[i].seq \in Nat
    BY <2>1, Zenon DEF Frame
  <2> QED BY <1>6, <2>2
<1> HIDE DEF seqs
<1>8. Orderly(q.inflight, a.assigned) /\ Len(q.inflight) = Len(a.queue.inflight)
  <2>1. a.queue.inflight \in Seq(QueuedPoint)
    BY <1>4, QueueParts
  <2>2. q.inflight = SentThrough(a.queue.inflight, seqs)
    BY <1>4, <1>7, RecordParts
  <2> QED BY <1>4, <1>7, <2>1, <2>2, SentAnyway, SentThroughParts
<1> HIDE DEF q
<1>9. CASE Wakeup(s) /\ UNCHANGED g
  BY <1>1, <1>9, WakeupTrip
<1>10. CASE /\ g' = [g EXCEPT !.queue = q, !.last_assigned_seq = a.assigned]
            /\ reader' = [reader EXCEPT ![s] = v] /\ UNCHANGED <<driver, call>>
            /\ Ready
  <2>1. /\ g'.track_uid = g.track_uid /\ g'.starting = g.starting /\ g'.queue = q
        /\ g'.last_assigned_seq = a.assigned /\ g'.last_acked_seq = g.last_acked_seq
        /\ g'.start_wait = g.start_wait /\ g'.session_ready = g.session_ready
    BY <1>0, <1>10, Zenon DEF Inner
  <2>2. Phase = "on" /\ g.track_uid = 1 /\ Phase' = Phase
    <3>1. Phase = "on" /\ g.track_uid = 1
      BY <1>10, Phases DEF Ready
    <3> QED BY <1>1, <2>1, <3>1 DEF Phase
  <2>3. SessionOK(g', srv'.next)
    BY <1>0, <1>1, <2>1, <2>2 DEF SessionOK, None
  <2>4. Ordered(g')
    <3>1. g.last_acked_seq + Len(g.queue.inflight) <= g.last_assigned_seq
      BY <1>0 DEF Ordered, Acked
    <3>2. Len(g.queue.inflight) \in Nat
      BY <1>3
    <3>3. g.last_acked_seq + Len(q.inflight) <= a.assigned
      <4>1. \A x, y, m, n \in Nat : x + y <= m /\ m <= n => x + (y + (n - m)) <= n
        OBVIOUS
      <4> QED BY <1>3, <1>4, <1>8, <3>1, <3>2, <4>1
    <3> QED BY <1>8, <2>1, <3>3 DEF Ordered, Acked
  <2>5. LastOf(g) <= LastOf(g') /\ LastOf(g') = a.assigned
    BY <1>3, <1>4, <2>1 DEF LastOf
  <2>6. HostOK(srv', LastOf(g'))
    <3>1. srv.acked \in Nat /\ srv.acked <= LastOf(g)
      BY <1>0 DEF Server, HostOK
    <3>2. srv.acked <= LastOf(g')
      BY <1>3, <1>4, <2>5, <3>1 DEF LastOf
    <3> QED BY <1>0, <1>1, <3>2, Zenon DEF HostOK
  <2>7. ReadersKept
    <3>1. FlushersOK(reader, Phase, LastOf(g'))
      BY <1>0, <1>3, <1>4, <2>5, Later DEF LastOf
    <3>2. v.pc = "send" /\ v.out = out
      BY <1>0, ReaderParts, Zenon DEF Reader
    <3> HIDE DEF v
    <3>3. FlusherOK(v, Phase, LastOf(g'))
      BY <1>6, <2>2, <2>5, <3>2 DEF FlusherOK
    <3>4. FlushersOK([reader EXCEPT ![s] = v], Phase, LastOf(g'))
      BY <1>0, <3>1, <3>3, FlusherPut
    <3> QED BY <1>10, <3>4, Zenon DEF ReadersKept
  <2> QED BY <1>1, <1>10, <2>2, <2>3, <2>4, <2>5, <2>6, <2>7, TripFrame
<1> QED BY <1>2, <1>9, <1>10

\* One frame of a round.
LEMMA SendFrameTrip ==
  ASSUME IInv, IInv', Trip, NEW s \in Gens, SendFrame(s)
  PROVE  Trip'
<1> DEFINE frame == Head(reader[s].out)
           rest  == Tail(reader[s].out)
           pc    == IF rest = <<>> THEN "flush" ELSE "send"
           v     == [reader[s] EXCEPT !.out = rest, !.pc = pc]
           m     == Loc(frame.seq, frame.pts)
<1>0. /\ ReadersOK(reader) /\ FlushersOK(reader, Phase, LastOf(g))
  BY TripParts
<1>1. reader[s].pc = "send" /\ UNCHANGED <<g, srv>>
  BY DEF SendFrame
<1>2. \/ /\ Sent(m) /\ reader' = [reader EXCEPT ![s] = v] /\ UNCHANGED <<driver, call>>
      \/ SendFails /\ Wakeup(s)
  BY Zenon DEF SendFrame
<1>3. reader[s].out \in Seq(Frame) /\ reader[s].out # <<>>
  BY <1>0, <1>1, ReaderParts DEF ReadersOK
<1>4. Phase = "on" /\ \A k \in DOMAIN reader[s].out : reader[s].out[k].seq <= LastOf(g)
  BY <1>0, <1>1 DEF FlushersOK, FlusherOK
<1>5. /\ frame \in Frame /\ rest \in Seq(Frame) /\ frame.seq <= LastOf(g)
      /\ \A k \in DOMAIN rest : rest[k].seq <= LastOf(g)
  <2>1. /\ frame \in Frame /\ frame = reader[s].out[1] /\ 1 \in DOMAIN reader[s].out
        /\ rest \in Seq(Frame)
        /\ \A k \in DOMAIN rest : k + 1 \in DOMAIN reader[s].out /\ rest[k] = reader[s].out[k + 1]
    BY <1>3
  <2> HIDE DEF frame, rest
  <2> QED BY <1>4, <2>1, Zenon
<1>6. frame.seq \in Nat /\ frame.pts \in Seq(Points)
  BY <1>5, Zenon DEF Frame
<1> HIDE DEF frame, rest
<1>7. m \in Msg /\ m.type = "Loc" /\ m.seq = frame.seq
  <2>1. "Loc" \in MsgType
    BY DEF MsgType
  <2> QED BY <1>6, <2>1, Messages, MsgFields, ConstantFacts
<1> HIDE DEF m
<1>8. SameTrip(g, g') /\ LastOf(g') = LastOf(g)
  BY <1>1 DEF SameTrip
<1>9. CASE SendFails /\ Wakeup(s)
  <2>1. UNCHANGED wire
    BY <1>9 DEF SendFails
  <2> QED BY <1>1, <1>9, <2>1, WakeupTrip
<1>10. CASE Sent(m) /\ reader' = [reader EXCEPT ![s] = v] /\ UNCHANGED <<driver, call>>
  <2>1. UpOK(m, Phase, LastOf(g)) /\ m.type # "TrackStart"
    BY <1>4, <1>5, <1>7 DEF UpOK
  <2>2. UNCHANGED wire \/ WiresKept
    BY <1>7, <1>8, <1>10, <2>1, SentTrip
  <2>3. v.out = rest
    BY <1>0, ReaderParts, Zenon DEF Reader
  <2> HIDE DEF v
  <2>4. FlusherOK(v, Phase, LastOf(g))
    BY <1>4, <1>5, <2>3, Zenon DEF FlusherOK
  <2>5. FlushersOK([reader EXCEPT ![s] = v], Phase, LastOf(g))
    BY <1>0, <2>4, FlusherPut
  <2>6. ReadersKept
    BY <1>8, <1>10, <2>5, Zenon DEF ReadersKept
  <2> QED BY <1>1, <1>8, <1>10, <2>2, <2>6, TripStays
<1> QED BY <1>2, <1>9, <1>10

\* Every step of a read loop.
LEMMA ReaderStepTrip ==
  ASSUME IInv, IInv', Trip, NEW s \in Gens, ReaderStep(s)
  PROVE  Trip'
<1>0. /\ DriversOK(driver) /\ DialersOK(driver, Phase) /\ ReadersOK(reader) /\ WiresOK(wire)
      /\ FlushersOK(reader, Phase, LastOf(g)) /\ LinesOK(wire, Phase, LastOf(g)) /\ OneMsg(wire)
  BY TripParts
<1>1. ASSUME UNCHANGED g PROVE SameTrip(g, g') /\ LastOf(g') = LastOf(g)
  BY <1>1 DEF SameTrip
<1>2. CASE OnTrackStopped(s)
  <2>1. Receives(s, "TrackStopped") /\ Consume(s)
    BY <1>2 DEF OnTrackStopped
  <2>2. Got(s).type = "TrackStopped" /\ DownOK(Got(s), Phase, LastOf(g))
    BY <1>0, <2>1, LinesGot
  <2> QED BY <2>2 DEF DownOK
<1>3. CASE OnRelocate(s)
  <2> DEFINE v == [IdleDriver EXCEPT !.pc = "relocate", !.resume = TRUE]
  <2>1. /\ Receives(s, "Relocate") /\ Consume(s) /\ SpawnIn(driver, v)
        /\ UNCHANGED <<g, call, reader, srv>>
    BY <1>3 DEF OnRelocate, Spawn
  <2>2. v.pc = "relocate"
    BY DEF IdleDriver
  <2> HIDE DEF v
  <2>3. DialerOK(v, Phase)
    BY <2>2 DEF DialerOK
  <2>4. DriversKept
    BY <1>0, <2>1, <2>3, DialerSpawned DEF DriversKept
  <2>5. LinesKept(wire', wire, Phase, LastOf(g))
    BY <1>0, <2>1, LinesGot
  <2>6. WiresKept
    BY <1>1, <2>1, <2>5, Zenon DEF WiresKept
  <2> QED BY <1>1, <2>1, <2>4, <2>6, TripStays
<1>4. CASE ReaderEnds(s)
  <2> DEFINE v == [IdleDriver EXCEPT !.pc = "closed", !.origin = "reconnect", !.gen = s]
             r == [reader[s] EXCEPT !.pc = "done"]
  <2>1. SpawnIn(driver, v) /\ UNCHANGED <<g, call, wire, srv>>
    BY <1>4 DEF ReaderEnds, Spawn
  <2>2. reader' = [reader EXCEPT ![s] = r]
    BY <1>4, Zenon DEF ReaderEnds
  <2>3. v.pc = "closed"
    BY DEF IdleDriver
  <2>4. r.pc = "done"
    BY <1>0, ReaderParts, Zenon DEF Reader
  <2> HIDE DEF v, r
  <2>5. DialerOK(v, Phase) /\ FlusherOK(r, Phase, LastOf(g))
    BY <2>3, <2>4 DEF DialerOK, FlusherOK
  <2>6. DriversKept
    BY <1>0, <2>1, <2>5, DialerSpawned DEF DriversKept
  <2>7. FlushersOK([reader EXCEPT ![s] = r], Phase, LastOf(g))
    BY <1>0, <2>5, FlusherPut
  <2>8. ReadersKept
    BY <1>1, <2>1, <2>2, <2>7, Zenon DEF ReadersKept
  <2> QED BY <1>1, <2>1, <2>6, <2>8, TripStays
<1> QED BY <1>2, <1>3, <1>4, AckStepTrip, TrackStartedTrip, ErrorTrip, FlushQueueTrip,
           SendFrameTrip DEF ReaderStep

-----------------------------------------------------------------------------
(* The server and the network.                                               *)

\* The server answers the only TrackStart: the track is given.
LEMMA ServerStartsTrip ==
  ASSUME IInv, IInv', Trip, NEW s \in Gens, ServerStarts(s)
  PROVE  Trip'
<1> DEFINE a == Tail(wire[s].c2s)
           b == Append(wire[s].s2c, TrackStarted(1))
           u == [wire[s] EXCEPT !.c2s = a, !.s2c = b]
           v == [u EXCEPT !.bound = 1]
<1>0. /\ g \in Inner /\ WiresOK(wire) /\ LinesOK(wire, Phase, LastOf(g)) /\ OneMsg(wire)
      /\ PublishersOK(call, Phase, LastOf(g)) /\ DialersOK(driver, Phase)
      /\ FlushersOK(reader, Phase, LastOf(g)) /\ SessionOK(g, srv.next) /\ Ordered(g)
      /\ HostOK(srv, LastOf(g)) /\ srv \in Server /\ OneStart(call, wire)
  BY TripParts
<1>1. /\ Receiving(s, "TrackStart") /\ UNCHANGED <<g, driver, call, reader>>
      /\ srv' = [srv EXCEPT !.live = srv.next, !.next = srv.next + 1, !.acked = 0]
      /\ wire' = [Reply(s, TrackStarted(srv.next)) EXCEPT ![s].bound = srv.next]
  BY Zenon DEF ServerStarts, Quiet
<1>2. /\ UpsOK(wire[s].c2s, Phase, LastOf(g)) /\ DownsOK(wire[s].s2c, Phase, LastOf(g))
      /\ Solo(wire[s].c2s, "TrackStart") /\ Solo(wire[s].s2c, "TrackStarted")
      /\ wire[s].c2s \in Seq(Msg) /\ wire[s].s2c \in Seq(Msg) /\ wire[s] \in Wire
  BY <1>0, LineParts
<1>3. /\ UpsOK(a, Phase, LastOf(g)) /\ UpOK(Head(wire[s].c2s), Phase, LastOf(g))
      /\ Solo(a, "TrackStart") /\ Has(wire[s].c2s, "TrackStart") /\ ~Has(a, "TrackStart")
      /\ Head(wire[s].c2s).type = "TrackStart"
  BY <1>1, <1>2, Taken, Zenon DEF Receiving
<1>4. Phase = "asked" /\ srv.next = 1 /\ g.starting /\ LastOf(g) = 0 /\ g.track_uid = None
  <2>1. Phase = "asked"
    BY <1>3 DEF UpOK
  <2> QED BY <2>1, Phases
<1>5. s \in Asked(wire) /\ Asked(wire) \subseteq {s} /\ Starting(call) = {} /\ Given(wire) = {}
  <2>1. s \in Asked(wire) /\ Given(wire) = {}
    BY <1>0, <1>3, <1>4, NoneUnderWay DEF Asked
  <2> QED BY <1>0, <2>1 DEF OneStart, OneMsg, AtMostOne
<1>6. /\ TrackStarted(1) \in Msg /\ TrackStarted(1).type = "TrackStarted"
      /\ TrackStarted(1).uid = 1
  <2>1. "TrackStarted" \in MsgType /\ 1 \in Nat
    BY DEF MsgType
  <2> QED BY <2>1, Messages, MsgFields, EmptySeq, ConstantFacts
<1>7. /\ UpsOK(a, "given", LastOf(g)) /\ DownsOK(b, "given", LastOf(g))
      /\ Solo(b, "TrackStarted") /\ LinesOK(wire, "asked", LastOf(g))
  <2>1. ~Has(wire[s].s2c, "TrackStarted")
    BY <1>5, Zenon DEF Given
  <2>2. DownsOK(wire[s].s2c, "given", LastOf(g))
    BY <1>2, <1>4, <2>1 DEF DownsOK, DownOK, Has
  <2>3. DownOK(TrackStarted(1), "given", LastOf(g))
    BY <1>6, Zenon DEF DownOK
  <2>4. DownsOK(b, "given", LastOf(g)) /\ Solo(b, "TrackStarted")
    BY <1>2, <1>6, <2>1, <2>2, <2>3, Added, Zenon
  <2>5. UpsOK(a, "given", LastOf(g))
    <3> HIDE DEF a
    <3>1. \A k \in DOMAIN a : a[k].type # "TrackStart"
      BY <1>3, Zenon DEF Has
    <3> QED BY <1>3, <1>4, <3>1 DEF UpsOK, UpOK
  <2> QED BY <1>0, <1>4, <2>4, <2>5
<1> HIDE DEF a, b
<1>8. v.c2s = a /\ v.s2c = b /\ v.bound = 1
  BY <1>2, Zenon DEF Wire
<1>9. wire' = [wire EXCEPT ![s] = v]
  <2>1. Reply(s, TrackStarted(1)) = [wire EXCEPT ![s] = u]
    BY Zenon DEF Reply, a, b
  <2>2. [[wire EXCEPT ![s] = u] EXCEPT ![s].bound = 1] = [wire EXCEPT ![s] = v]
    BY <1>0, Zenon DEF WiresOK
  <2> HIDE DEF u, v
  <2>3. wire' = [Reply(s, TrackStarted(1)) EXCEPT ![s].bound = 1]
    BY <1>1, <1>4
  <2> QED BY <2>1, <2>2, <2>3
<1> HIDE DEF u, v
<1>10. OneMsg(wire') /\ Asked(wire') = {}
  <2>1. StartsLike(v, wire[s], wire)
    BY <1>3, <1>5, <1>7, <1>8, Zenon DEF StartsLike
  <2>2. ~Has(v.c2s, "TrackStart")
    BY <1>3, <1>8
  <2>3. OneMsg([wire EXCEPT ![s] = v]) /\ Asked([wire EXCEPT ![s] = v]) \subseteq Asked(wire) \ {s}
    BY <1>0, <2>1, <2>2, OneMsgPut
  <2> QED BY <1>5, <1>9, <2>3
<1>11. LinesOK(wire', "given", LastOf(g))
  <2>1. LineOK(v, "given", LastOf(g))
    BY <1>7, <1>8 DEF LineOK
  <2>2. ASSUME NEW r \in Gens PROVE LineOK(wire'[r], "given", LastOf(g))
    <3>1. CASE r = s
      BY <1>0, <1>9, <2>1, <3>1 DEF WiresOK
    <3>2. CASE r # s
      <4>1. wire'[r] = wire[r]
        BY <1>0, <1>9, <3>2 DEF WiresOK
      <4>2. ~Has(wire[r].c2s, "TrackStart") /\ ~Has(wire[r].s2c, "TrackStarted")
        BY <1>5, <3>2 DEF Asked, Given
      <4>3. LineOK(wire[r], "asked", LastOf(g))
        BY <1>7, Zenon DEF LinesOK
      <4>4. UpsOK(wire[r].c2s, "given", LastOf(g))
        BY <4>2, <4>3 DEF LineOK, UpsOK, UpOK, Has
      <4>5. DownsOK(wire[r].s2c, "given", LastOf(g))
        BY <4>2, <4>3 DEF LineOK, DownsOK, DownOK, Has
      <4> QED BY <4>1, <4>3, <4>4, <4>5 DEF LineOK
    <3> QED BY <3>1, <3>2
  <2> QED BY <2>2 DEF LinesOK
<1>12. srv'.next = 2 /\ srv'.live = 1 /\ srv'.acked = 0
  <2> DEFINE x == srv.next + 1
  <2> HIDE DEF x
  <2>1. srv' = [srv EXCEPT !.live = srv.next, !.next = x, !.acked = 0]
    BY <1>1 DEF x
  <2>2. srv'.next = x /\ srv'.live = srv.next /\ srv'.acked = 0
    BY <1>0, <2>1, Zenon DEF Server
  <2> QED BY <1>4, <2>2 DEF x
<1>13. Phase' = "given" /\ LastOf(g') = LastOf(g)
  BY <1>1, <1>4, <1>12 DEF Phase, PhaseOf
<1>14. SessionOK(g', srv'.next) /\ Ordered(g') /\ HostOK(srv', LastOf(g'))
  <2>1. HostOK(srv', LastOf(g'))
    BY <1>4, <1>12, <1>13 DEF HostOK
  <2>2. SessionOK(g', srv'.next)
    BY <1>0, <1>1, <1>4, <1>12 DEF SessionOK, None
  <2>3. Ordered(g')
    BY <1>0, <1>1
  <2> QED BY <2>1, <2>2, <2>3
<1>15. /\ PublishersOK(call, "given", LastOf(g)) /\ DialersOK(driver, "given")
       /\ FlushersOK(reader, "given", LastOf(g))
  BY <1>0, <1>4, <1>5, Moves
<1>16. OneStart(call', wire')
  BY <1>1, <1>5, <1>10 DEF OneStart, AtMostOne
<1> QED BY <1>1, <1>11, <1>13, <1>14, <1>15, <1>16, Zenon DEF Trip, LastOf

\* Every step of the server.
LEMMA ServerStepTrip ==
  ASSUME IInv, IInv', Trip, NEW s \in Gens, ServerStep(s)
  PROVE  Trip'
<1> DEFINE m == Head(wire[s].c2s)
           last == LastOf(g)
<1>0. /\ WiresOK(wire) /\ LinesOK(wire, Phase, last) /\ OneMsg(wire) /\ last \in Nat
      /\ SessionOK(g, srv.next) /\ Ordered(g) /\ HostOK(srv, last) /\ srv \in Server
  BY TripParts
<1>1. ASSUME NEW t, Receiving(s, t)
      PROVE  /\ m \in Msg /\ m.type = t /\ UpOK(m, Phase, last)
             /\ LinesKept(NoReply(s), wire, Phase, last)
             /\ \A r \in Msg : DownOK(r, Phase, last) /\ r.type # "TrackStarted" =>
                  /\ LinesKept(Reply(s, r), wire, Phase, last)
                  /\ Phase \in {"given", "on"} =>
                       LinesKept([Reply(s, r) EXCEPT ![s].bound = 1], wire, Phase, last)
  BY <1>0, <1>1, LinesTake
<1>2. ASSUME Quiet PROVE SameTrip(g, g') /\ LastOf(g') = last
  BY <1>2 DEF SameTrip, Quiet
<1>3. ASSUME Quiet, UNCHANGED srv, LinesKept(wire', wire, Phase, last) PROVE Trip'
  <2>1. WiresKept
    BY <1>2, <1>3, Zenon DEF WiresKept
  <2> QED BY <1>2, <1>3, <2>1, TripStays DEF Quiet
<1>4. \A t \in {"RateLimited", "TryAgain"} :
        M(t) \in Msg /\ DownOK(M(t), Phase, last) /\ M(t).type # "TrackStarted"
  <2>1. ASSUME NEW t \in {"RateLimited", "TryAgain"}
        PROVE  M(t) \in Msg /\ DownOK(M(t), Phase, last) /\ M(t).type # "TrackStarted"
    <3>1. M(t).type = t /\ t \in MsgType
      BY MsgFields DEF MsgType
    <3>2. M(t) \in Msg
      BY <3>1, Messages, EmptySeq, ConstantFacts
    <3> QED BY <3>1, <3>2 DEF DownOK
  <2> QED BY <2>1
<1>5. CASE ServerRefusesStart(s) \/ ServerDefersResume(s)
  <2>1. PICK t \in {"RateLimited", "TryAgain"} :
               (\E r : Receiving(s, r)) /\ wire' = Reply(s, M(t))
    BY <1>5 DEF ServerRefusesStart, ServerDefersResume
  <2>2. LinesKept(Reply(s, M(t)), wire, Phase, last)
    BY <1>1, <1>4, <2>1
  <2>3. Quiet /\ UNCHANGED srv
    BY <1>5 DEF ServerRefusesStart, ServerDefersResume
  <2> QED BY <1>3, <2>1, <2>2, <2>3, Zenon
<1>6. CASE ServerTakesEvent(s)
  <2>1. Receiving(s, "Event") /\ wire' = NoReply(s) /\ Quiet /\ UNCHANGED srv
    BY <1>6 DEF ServerTakesEvent
  <2>2. LinesKept(NoReply(s), wire, Phase, last)
    BY <1>1, <2>1
  <2> QED BY <1>3, <2>1, <2>2, Zenon
<1>7. CASE ServerResumes(s)
  <2>1. Receiving(s, "Resume") /\ Quiet /\ UNCHANGED srv
    BY <1>7 DEF ServerResumes
  <2>2. Phase = "on" /\ m.uid = 1
    BY <1>1, <2>1 DEF UpOK
  <2>3. srv.live = 1
    BY <2>2, Phases
  <2>4. wire' = [Reply(s, ResumeOk(1, srv.acked)) EXCEPT ![s].bound = 1]
    <3> DEFINE uid == m.uid
    <3>1. IF uid # None /\ uid = srv.live
          THEN wire' = [Reply(s, ResumeOk(uid, srv.acked)) EXCEPT ![s].bound = uid]
          ELSE wire' = Reply(s, M("TrackNotFound"))
      BY <1>7, Zenon DEF ServerResumes
    <3>2. uid = 1
      BY <2>2
    <3> HIDE DEF uid
    <3> QED BY <2>3, <3>1, <3>2 DEF None
  <2> DEFINE r == ResumeOk(1, srv.acked)
  <2>5. r \in Msg /\ r.type = "ResumeOk" /\ r.uid = 1 /\ r.seq = srv.acked
    <3>1. "ResumeOk" \in MsgType /\ 1 \in Nat /\ srv.acked \in Nat
      BY <1>0 DEF MsgType, Server
    <3>2. r \in Msg
      BY <3>1, Messages, EmptySeq
    <3>3. r.type = "ResumeOk" /\ r.uid = 1 /\ r.seq = srv.acked
      BY MsgFields
    <3> QED BY <3>2, <3>3
  <2> HIDE DEF r
  <2>6. DownOK(r, Phase, last) /\ r.type # "TrackStarted"
    BY <1>0, <2>2, <2>5 DEF DownOK, HostOK
  <2>7. LinesKept([Reply(s, r) EXCEPT ![s].bound = 1], wire, Phase, last)
    BY <1>1, <2>1, <2>2, <2>5, <2>6
  <2>8. LinesKept(wire', wire, Phase, last)
    BY <2>4, <2>7, Zenon DEF r
  <2> QED BY <1>3, <2>1, <2>8
<1>8. CASE ServerTakesLoc(s)
  <2>1. Receiving(s, "Loc") /\ Quiet
    BY <1>8 DEF ServerTakesLoc
  <2>2. m \in Msg /\ Phase = "on" /\ m.seq <= last /\ m.seq \in Nat
    <3>1. m \in Msg /\ m.type = "Loc" /\ UpOK(m, Phase, last)
      BY <1>1, <2>1
    <3>2. m.seq \in Nat
      BY <3>1, MsgParts
    <3> QED BY <3>1, <3>2 DEF UpOK
  <2>3. CASE wire[s].bound = None
    <3>1. wire' = NoReply(s) /\ UNCHANGED srv
      BY <1>8, <2>3, Zenon DEF ServerTakesLoc
    <3>2. LinesKept(NoReply(s), wire, Phase, last)
      BY <1>1, <2>1
    <3> QED BY <1>3, <2>1, <3>1, <3>2, Zenon
  <2>4. CASE wire[s].bound # None
    <3> DEFINE acked == IF wire[s].bound = srv.live /\ m.seq > srv.acked THEN m.seq ELSE srv.acked
               got == srv.got \cup {<<wire[s].bound, m.seq - Len(m.pts) + k, m.pts[k]>> :
                                       k \in 1 .. Len(m.pts)}
               r == Ack(m.seq)
    <3>1. wire' = Reply(s, Ack(m.seq)) /\ srv' = [srv EXCEPT !.acked = acked, !.got = got]
      BY <1>8, <2>4, Zenon DEF ServerTakesLoc
    <3>2. acked <= last
      BY <1>0, <2>2 DEF HostOK
    <3> HIDE DEF acked, got
    <3>3. srv'.live = srv.live /\ srv'.next = srv.next /\ srv'.acked = acked
      BY <1>0, <3>1, Zenon DEF Server
    <3>4. r \in Msg /\ r.type = "Ack" /\ r.seq = m.seq
      <4>1. "Ack" \in MsgType
        BY DEF MsgType
      <4> QED BY <2>2, <4>1, Messages, MsgFields, EmptySeq, ConstantFacts
    <3> HIDE DEF r
    <3>5. DownOK(r, Phase, last) /\ r.type # "TrackStarted"
      BY <2>2, <3>4 DEF DownOK
    <3>6. LinesKept(Reply(s, r), wire, Phase, last)
      BY <1>1, <2>1, <3>4, <3>5
    <3>7. WiresKept
      BY <1>2, <2>1, <3>1, <3>6, Zenon DEF WiresKept, r
    <3>8. HostOK(srv', LastOf(g'))
      BY <1>0, <1>2, <2>1, <3>2, <3>3 DEF HostOK
    <3>9. SessionOK(g', srv'.next) /\ Ordered(g') /\ Phase' = Phase /\ LastOf(g) <= LastOf(g')
      <4>1. UNCHANGED g
        BY <2>1 DEF Quiet
      <4> QED BY <1>0, <3>3, <4>1 DEF Phase
    <3> QED BY <2>1, <3>7, <3>8, <3>9, TripFrame DEF Quiet
  <2> QED BY <2>3, <2>4
<1>9. ~(ServerStops(s) \/ ServerCloses(s))
  BY <1>1 DEF ServerStops, ServerCloses, UpOK
<1> QED BY <1>5, <1>6, <1>7, <1>8, <1>9, ServerStartsTrip DEF ServerStep

\* The server asks to move, the connection breaks.
LEMMA EnvironmentTrip ==
  ASSUME IInv, IInv', Trip, Steadily, NEW s \in Gens, Environment(s)
  PROVE  Trip'
<1>0. WiresOK(wire) /\ LinesOK(wire, Phase, LastOf(g)) /\ OneMsg(wire)
  BY TripParts
<1>1. CASE ServerRelocates(s)
  <2> DEFINE b == Append(wire[s].s2c, M("Relocate"))
             v == [wire[s] EXCEPT !.s2c = b]
  <2>1. Quiet /\ UNCHANGED srv /\ wire' = [wire EXCEPT ![s] = v]
    BY <1>1, Zenon DEF ServerRelocates
  <2>2. SameTrip(g, g') /\ LastOf(g') = LastOf(g)
    BY <2>1 DEF SameTrip, Quiet
  <2>3. /\ LineOK(wire[s], Phase, LastOf(g)) /\ DownsOK(wire[s].s2c, Phase, LastOf(g))
        /\ Solo(wire[s].c2s, "TrackStart") /\ Solo(wire[s].s2c, "TrackStarted")
        /\ wire[s].s2c \in Seq(Msg) /\ wire[s] \in Wire
    BY <1>0, LineParts
  <2>4. /\ M("Relocate") \in Msg /\ M("Relocate").type = "Relocate"
        /\ "Relocate" # "TrackStarted" /\ DownOK(M("Relocate"), Phase, LastOf(g))
    <3>1. "Relocate" \in MsgType /\ M("Relocate").type = "Relocate"
      BY MsgFields DEF MsgType
    <3>2. M("Relocate") \in Msg
      BY <3>1, Messages, EmptySeq, ConstantFacts
    <3> QED BY <3>1, <3>2 DEF DownOK
  <2>5. /\ DownsOK(b, Phase, LastOf(g)) /\ Solo(b, "TrackStarted")
        /\ Has(b, "TrackStarted") => Has(wire[s].s2c, "TrackStarted")
    BY <2>3, <2>4, Added, Zenon
  <2> HIDE DEF b
  <2>6. v.c2s = wire[s].c2s /\ v.s2c = b /\ v.bound = wire[s].bound
    BY <2>3, Zenon DEF Wire
  <2> HIDE DEF v
  <2>7. LineKept(v, wire[s], Phase, LastOf(g))
    BY <2>3, <2>5, <2>6, Zenon DEF LineKept, LineOK
  <2>8. LinesKept([wire EXCEPT ![s] = v], wire, Phase, LastOf(g))
    BY <1>0, <2>7, LinesKeptPut
  <2>9. WiresKept
    BY <2>1, <2>2, <2>8, Zenon DEF WiresKept
  <2> QED BY <2>1, <2>2, <2>9, TripStays DEF Quiet
<1>2. CASE Drop(s)
  <2>1. Quiet /\ UNCHANGED srv /\ wire' = [wire EXCEPT ![s] = ClosedWire]
    BY <1>2 DEF Drop
  <2>2. SameTrip(g, g') /\ LastOf(g') = LastOf(g)
    BY <2>1 DEF SameTrip, Quiet
  <2>3. WiresKept
    BY <2>1, <2>2, LinesDialed
  <2> QED BY <2>1, <2>2, <2>3, TripStays DEF Quiet
<1>3. ~ServerRejectsAuth(s)
  BY DEF Steadily, Steady, ServerRejectsAuth
<1> QED BY <1>1, <1>2, <1>3 DEF Environment

-----------------------------------------------------------------------------
(* The invariant.                                                            *)

\* The initial state: nothing asked, nothing sent.
LEMMA InitTrip ==
  ASSUME Init, Earlier.uid = None
  PROVE  Trip
<1>1. /\ g.track_uid = None /\ g.starting = FALSE /\ g.session_ready = FALSE
      /\ g.last_assigned_seq = 0 /\ g.last_acked_seq = 0 /\ g.queue = EmptyQueue
      /\ g.start_wait = NoOne /\ srv.next = 1 /\ srv.live = None /\ srv.acked = 0
  <2>1. Earlier.uid = 0 /\ Earlier.acked = 0
    BY ClientAssumption DEF ClientAssumption, None
  <2> QED BY <2>1 DEF Init, None
<1>2. Phase = "none" /\ LastOf(g) = 0 /\ g.queue.inflight = <<>>
  BY <1>1 DEF Phase, PhaseOf, LastOf, EmptyQueue
<1>3. SessionOK(g, srv.next) /\ HostOK(srv, 0)
  BY <1>1, <1>2 DEF SessionOK, HostOK, None
<1>4. Ordered(g)
  BY <1>1, <1>2 DEF Ordered, Acked, Orderly, Run, SentUpTo
<1>5. \A p \in Procs : call[p].pc = "idle"
  BY DEF Init, IdleCall
<1>6. PublishersOK(call, "none", 0) /\ Starting(call) = {}
  BY <1>5 DEF PublishersOK, PublisherOK, TripPc, Starters, Starting
<1>7. DialersOK(driver, "none")
  <2>1. \A d \in Drivers : driver[d].pc \in {"idle", "dial"}
    BY DEF Init, IdleDriver
  <2> QED BY <2>1 DEF DialersOK, DialerOK
<1>8. FlushersOK(reader, "none", 0)
  BY DEF Init, IdleReader, FlushersOK, FlusherOK
<1>9. \A s \in Gens : wire[s].c2s = <<>> /\ wire[s].s2c = <<>> /\ wire[s].bound = None
  BY DEF Init, ClosedWire
<1>10. LinesOK(wire, "none", 0)
  <2>1. None \in {None, 1} /\ None # 1
    BY DEF None
  <2> QED BY <1>9, <2>1, Nothing, Zenon DEF LinesOK, LineOK
<1>11. OneMsg(wire) /\ Asked(wire) = {}
  <2>1. \A s \in Gens : /\ Solo(wire[s].c2s, "TrackStart") /\ Solo(wire[s].s2c, "TrackStarted")
                        /\ ~Has(wire[s].c2s, "TrackStart") /\ ~Has(wire[s].s2c, "TrackStarted")
    BY <1>9, Nothing, Zenon
  <2>2. Asked(wire) = {} /\ Given(wire) = {}
    BY <2>1 DEF Asked, Given
  <2> QED BY <2>1, <2>2 DEF OneMsg, AtMostOne
<1>12. OneStart(call, wire)
  BY <1>6, <1>11 DEF OneStart, AtMostOne
<1> QED BY <1>2, <1>3, <1>4, <1>6, <1>7, <1>8, <1>10, <1>12, Zenon DEF Trip, LastOf

\* A step that ends no trip keeps what holds of it.
LEMMA StepsKeepTrip ==
  ASSUME IInv, IInv', Trip, Steadily, [Next]_vars
  PROVE  Trip'
<1>1. ASSUME UNCHANGED vars PROVE Trip'
  <2>1. UNCHANGED <<g, driver, call, reader, wire, srv>>
    BY <1>1 DEF vars
  <2>2. SameTrip(g, g')
    BY <2>1 DEF SameTrip
  <2> QED BY <2>1, <2>2, TripStays
<1>2. ~ServerForgets
  BY DEF Steadily, Steady, ServerForgets
<1> QED BY <1>1, <1>2, NewCallTrip, CallStepTrip, DriverStepTrip, ReaderStepTrip,
           ServerStepTrip, EnvironmentTrip DEF Next

\* Acts once done stay done, so while none is every step before was steady too.
LEMMA StepsKeepTripInv ==
  ASSUME TripInv, [Next]_vars
  PROVE  TripInv' /\ (OneTrip' => OneTrip /\ Steadily)
<1>1. IInv /\ Within(left) /\ LeftOK(left)
  BY DEF TripInv, IInv
<1>2. IInv'
  BY <1>1, StepsKeepIInv
<1>3. /\ Within(left') /\ \A a \in Acts : left'[a] \in Int /\ left'[a] <= left[a]
      /\ \A act \in Acts : Spend(act) => left'[act] < Budget[act]
  BY <1>1, BudgetsFall
<1>4. ASSUME OneTrip' PROVE OneTrip /\ Steadily
  <2>1. /\ Earlier.uid = None
        /\ \A act \in Steady : act \in Acts /\ left'[act] = Budget[act]
    BY <1>4 DEF OneTrip, Steady, Acts
  <2>2. \A act \in Acts : left[act] \in Int /\ Budget[act] \in Int /\ left[act] <= Budget[act]
    BY <1>1, ClientAssumption DEF LeftOK, Within, ClientAssumption
  <2>3. \A act \in Steady : left[act] = Budget[act] /\ ~Spend(act)
    BY <1>3, <2>1, <2>2
  <2> QED BY <2>1, <2>3 DEF OneTrip, Steadily
<1>5. OneTrip' => Trip'
  BY <1>1, <1>2, <1>4, StepsKeepTrip DEF TripInv
<1> QED BY <1>1, <1>2, <1>3, <1>4, <1>5 DEF TripInv

\* The initial state is the start of a trip.
LEMMA InitTripInv == Init => TripInv
<1> SUFFICES ASSUME Init PROVE TripInv
  OBVIOUS
<1>1. IInv /\ (OneTrip => Trip)
  BY InitType, InitTrip DEF OneTrip
<1>2. Within(left)
  <2>1. \A act \in Acts : left[act] = Budget[act] /\ Budget[act] \in Int
    BY ClientAssumption DEF Init, ClientAssumption
  <2> QED BY <2>1 DEF Within
<1> QED BY <1>1, <1>2 DEF TripInv

\* The invariant holds of every reachable state.
LEMMA TripInvariance == Spec => []TripInv
<1>1. Init => TripInv
  BY InitTripInv
<1>2. TripInv /\ [Next]_vars => TripInv'
  BY StepsKeepTripInv
<1> QED BY <1>1, <1>2, PTL DEF Spec

-----------------------------------------------------------------------------
(* What it is for.                                                           *)

\* encode_loc_frames numbers points by their position: on one trip the points in
\* flight are a gapless run up to last_assigned_seq, however live publishes, flush
\* rounds, late Acks, drops of the oldest point and reconnects are interleaved.
THEOREM RunOnOneTrip == Spec => [](OneTrip => InflightIsARun)
<1>1. TripInv /\ OneTrip => InflightIsARun
  <2> SUFFICES ASSUME TripInv, OneTrip PROVE InflightIsARun
    OBVIOUS
  <2>1. Run(g.queue.inflight, g.last_assigned_seq) /\ g.queue.inflight \in Seq(QueuedPoint)
    <3>1. IInv /\ Trip
      BY DEF TripInv
    <3>2. g.queue \in Queue /\ Ordered(g)
      BY <3>1, TripParts, InnerParts
    <3> QED BY <3>2, QueueParts DEF Ordered, Orderly
  <2>2. DOMAIN g.queue.inflight = 1 .. Len(g.queue.inflight)
    BY <2>1
  <2> QED BY <2>1, <2>2, Zenon DEF Run, InflightIsARun
<1> QED BY <1>1, TripInvariance, PTL

\* ack_through, whichever of Ack and ResumeOk brings the number and in whatever
\* order: on one trip nothing acked is still in flight, and nothing is acked that
\* was not given out.
THEOREM AckedOnOneTrip == Spec => [](OneTrip => AckedIsDone)
<1>1. TripInv /\ OneTrip => AckedIsDone
  <2> SUFFICES ASSUME TripInv, OneTrip PROVE AckedIsDone
    OBVIOUS
  <2>1. IInv /\ Trip
    BY DEF TripInv
  <2>2. /\ g.queue \in Queue /\ g.last_assigned_seq \in Nat /\ g.last_acked_seq \in Nat
        /\ Ordered(g)
    BY <2>1, TripParts, InnerParts
  <2> DEFINE q == g.queue.inflight
  <2>3. q \in Seq(QueuedPoint)
    BY <2>2, QueueParts
  <2>4. DOMAIN q = 1 .. Len(q) /\ Len(q) \in Nat
    BY <2>3
  <2>5. /\ g.last_acked_seq + Len(q) <= g.last_assigned_seq
        /\ \A i \in 1 .. Len(q) : q[i].seq = g.last_assigned_seq - Len(q) + i
    BY <2>2 DEF Ordered, Orderly, Run, Acked
  <2>6. g.last_acked_seq <= g.last_assigned_seq
    <3> HIDE DEF q
    <3> QED BY <2>2, <2>4, <2>5
  <2>7. ASSUME NEW i \in DOMAIN q PROVE q[i].seq > g.last_acked_seq
    <3> HIDE DEF q
    <3> QED BY <2>2, <2>4, <2>5, <2>7
  <2> QED BY <2>6, <2>7 DEF AckedIsDone
<1> QED BY <1>1, TripInvariance, PTL

\* Only ServerStarts begins a track.
LEMMA NextOnlyStarts ==
  ASSUME IInv, [Next]_vars, srv'.next # srv.next
  PROVE  \E s \in Gens : ServerStarts(s)
<1>0. srv \in Server
  BY DEF IInv, ServerOK
<1>1. ASSUME NEW s \in Gens, ServerTakesLoc(s) \/ ServerStops(s) PROVE srv'.next = srv.next
  <2>1. CASE ServerTakesLoc(s)
    <3>1. CASE wire[s].bound = None
      BY <2>1, <3>1, Zenon DEF ServerTakesLoc
    <3>2. CASE wire[s].bound # None
      <4>1. PICK a, b : srv' = [srv EXCEPT !.acked = a, !.got = b]
        BY <2>1, <3>2, Zenon DEF ServerTakesLoc
      <4> QED BY <1>0, <4>1, Zenon DEF Server
    <3> QED BY <3>1, <3>2
  <2>2. CASE ServerStops(s)
    <3>1. UNCHANGED srv \/ \E a : srv' = [srv EXCEPT !.live = a]
      BY <2>2, Zenon DEF ServerStops
    <3> QED BY <1>0, <3>1, Zenon DEF Server
  <2> QED BY <1>1, <2>1, <2>2
<1>2. ASSUME ServerForgets PROVE srv'.next = srv.next
  <2>1. srv' = [srv EXCEPT !.live = None]
    BY <1>2 DEF ServerForgets
  <2> QED BY <1>0, <2>1, Zenon DEF Server
<1>3. ASSUME NEW s \in Gens,
             \/ ServerRefusesStart(s) \/ ServerResumes(s) \/ ServerDefersResume(s)
             \/ ServerTakesEvent(s) \/ ServerCloses(s) \/ Environment(s)
      PROVE  UNCHANGED srv
  BY <1>3 DEF ServerRefusesStart, ServerResumes, ServerDefersResume, ServerTakesEvent,
     ServerCloses, Environment, ServerRelocates, ServerRejectsAuth, Drop
<1>4. ASSUME NEW s \in Gens, ReaderStep(s) PROVE UNCHANGED srv
  BY <1>4 DEF ReaderStep, OnResumeOk, OnTrackStarted, OnTrackStopped, OnAck, OnError, OnRelocate,
     FlushQueue, SendFrame, ReaderEnds
<1>5. ASSUME NEW d \in Drivers, DriverStep(d) PROVE UNCHANGED srv
  BY <1>5 DEF DriverStep, SocketClosed, Wake, HandleRelocate, GiveUpAuth, RefreshOk, RefreshErr,
     Dial, DialHello, DialRelocated, DialFails, Install, ResumeRegister, ResumeSend,
     ResumeReturns, ResumeRetry, ReconnectFailed
<1>6. ASSUME NEW p \in Procs, NewCall(p) PROVE UNCHANGED srv
  BY <1>6 DEF NewCall, PublishBegin, StartTrack, StopTrack, ManualResume, SendEvent, CloseBegin
<1>7. ASSUME NEW p \in Procs, CallStep(p) PROVE UNCHANGED srv
  BY <1>7 DEF CallStep, PublishStart, PublishStartFailed, PublishStage, PublishLive,
     PublishSend, StartSend, StartFailed, StopRegister, StopSend, StopFailed, CallReturns,
     ManualRegister, ManualSend, ManualFailed, ManualReturns, EventSend, CloseSend, Close
<1>8. ~UNCHANGED vars
  BY DEF vars
<1> QED BY <1>1, <1>2, <1>3, <1>4, <1>5, <1>6, <1>7, <1>8 DEF Next, ServerStep

\* While the application just publishes, no reconnect, relocation, failed dial,
\* deferred Resume, refused or lost start makes publish start a second track
\* beside a live one.  (An AUTH error or a track the server ends may: see
\* NoTripSuperseded.)
THEOREM OneTrackOnOneTrip == Spec => OneTripOneTrack
<1>1. TripInv /\ [Next]_vars => [OneTrip' /\ srv'.next # srv.next => srv.live = None]_vars
  <2> SUFFICES ASSUME TripInv, [Next]_vars, OneTrip', srv'.next # srv.next PROVE srv.live = None
    OBVIOUS
  <2>1. IInv /\ Trip
    BY StepsKeepTripInv DEF TripInv
  <2>2. PICK s \in Gens : ServerStarts(s)
    BY <2>1, NextOnlyStarts
  <2>3. Receiving(s, "TrackStart")
    BY <2>2 DEF ServerStarts
  <2>4. Head(wire[s].c2s).type = "TrackStart" /\ UpOK(Head(wire[s].c2s), Phase, LastOf(g))
    BY <2>1, <2>3, TripParts, LinesTake
  <2>5. Phase = "asked"
    BY <2>4 DEF UpOK
  <2> QED BY <2>1, <2>5, Phases
<1> QED BY <1>1, TripInvariance, PTL DEF Spec, OneTripOneTrack

-----------------------------------------------------------------------------
(* Who carries which point under which number.                               *)

\* A point with its number: in flight, in a live publish, in the frames of a
\* flush round, in the frames on a socket, and stored by the server.
Pairs(s)    == {<<s[i].seq, s[i].pt>> : i \in DOMAIN s}
Holders(c)  == {p \in Procs : c[p].pc = "pub"}
Senders(c)  == {p \in Procs : c[p].pc = "pubSend"}
InCalls(c)  == {<<c[p].seq, c[p].pt>> : p \in Senders(c)}
InRounds(r) == UNION {Numbered(r[s].out) : s \in Gens}
InLines(w)  == UNION {Numbered(w[s].c2s) : s \in Gens}
InStore(h)  == {<<x[2], x[3]>> : x \in h}
Names == Pairs(g.queue.inflight) \cup InCalls(call) \cup InRounds(reader)
           \cup InLines(wire) \cup InStore(srv.got)

\* A number names one point and a point has one number, given out by now.  A
\* point that waits for its number waits in one place and has none yet; the
\* points up to fresh are still to be published.
OneName(N) == \A a, b \in N : a[1] = b[1] <=> a[2] = b[2]
GivenOut(N, last, fresh) == \A n \in N : n \in Int \X Points /\ n[1] <= last /\ n[2] > fresh
Distinct(s) == \A i, j \in DOMAIN s : s[i] = s[j] => i = j
Waiting(s, c, fresh) ==
  /\ Distinct(s) /\ \A i \in DOMAIN s : s[i] > fresh
  /\ \A p \in Holders(c) : c[p].pt > fresh /\ \A i \in DOMAIN s : s[i] # c[p].pt
  /\ \A p, q \in Holders(c) : c[p].pt = c[q].pt => p = q
KeptApart(N, s, c) ==
  \A n \in N : (\A i \in DOMAIN s : s[i] # n[2]) /\ (\A p \in Holders(c) : c[p].pt # n[2])
NamesOK(N, s, c, last, fresh) ==
  OneName(N) /\ GivenOut(N, last, fresh) /\ Waiting(s, c, fresh) /\ KeptApart(N, s, c)

\* Nothing is staged or held that was not before.
StagedFewer(t, s) == Distinct(t) /\ \A i \in DOMAIN t : \E j \in DOMAIN s : t[i] = s[j]
HeldFewer(d, c)   == \A p \in Procs : d[p].pc = "pub" => d[p] = c[p]
CallsFewer(d, c)  == \A p \in Procs : d[p].pc \in {"pub", "pubSend"} => d[p] = c[p]

\* The points are numbers, and the held ones are points.
LEMMA PointsAreNumbers == \A x \in Points : x \in Nat
BY ClientAssumption DEF ClientAssumption

LEMMA HeldPoints ==
  ASSUME NEW c, CallsOK(c)
  PROVE  \A p \in Holders(c) \cup Senders(c) : c[p].pt \in Points
BY DEF CallsOK, Holders, Senders

\* Names that are given up, numbers that go on.
LEMMA NamesFewer ==
  ASSUME NEW N, NEW s, NEW c, NEW a \in Int, NEW f \in Int, NamesOK(N, s, c, a, f),
         NEW N2 \in SUBSET N, NEW t, StagedFewer(t, s), NEW d, HeldFewer(d, c),
         NEW b \in Int, a <= b, NEW e \in Int, e <= f,
         s \in Seq(Points), \A p \in Holders(c) : c[p].pt \in Points
  PROVE  NamesOK(N2, t, d, b, e)
<1>1. /\ \A x \in Int : x <= a => x <= b
      /\ \A x \in Points : x > f => x > e
  BY PointsAreNumbers
<1>2. \A n \in Int \X Points : n[1] \in Int /\ n[2] \in Points
  OBVIOUS
<1>3. GivenOut(N2, b, e)
  BY <1>1, <1>2, Zenon DEF GivenOut, NamesOK
<1>4. OneName(N2)
  BY Zenon DEF OneName, NamesOK
<1>5. \A p \in Holders(d) : p \in Holders(c) /\ d[p] = c[p]
  BY Zenon DEF Holders, HeldFewer
<1>6. \A i \in DOMAIN s : s[i] \in Points
  OBVIOUS
<1>7. Waiting(s, c, f) /\ KeptApart(N, s, c)
  BY Zenon DEF NamesOK
<1>8. Distinct(t) /\ \A i \in DOMAIN t : t[i] > e
  BY <1>1, <1>6, <1>7, Zenon DEF Waiting, StagedFewer
<1>9. ASSUME NEW p \in Holders(d) PROVE d[p].pt > e /\ \A i \in DOMAIN t : t[i] # d[p].pt
  <2>1. c[p].pt > f /\ c[p].pt \in Points /\ d[p] = c[p] /\ \A j \in DOMAIN s : s[j] # c[p].pt
    BY <1>5, <1>7, Zenon DEF Waiting
  <2> QED BY <1>1, <2>1, Zenon DEF StagedFewer
<1>10. \A p, q \in Holders(d) : d[p].pt = d[q].pt => p = q
  BY <1>5, <1>7, Zenon DEF Waiting
<1>11. Waiting(t, d, e)
  BY <1>8, <1>9, <1>10, Zenon DEF Waiting
<1>12. ASSUME NEW n \in N2
       PROVE  (\A i \in DOMAIN t : t[i] # n[2]) /\ \A p \in Holders(d) : d[p].pt # n[2]
  <2>1. (\A i \in DOMAIN s : s[i] # n[2]) /\ \A p \in Holders(c) : c[p].pt # n[2]
    BY <1>7, Zenon DEF KeptApart
  <2> QED BY <1>5, <2>1, Zenon DEF StagedFewer
<1>13. KeptApart(N2, t, d)
  BY <1>12, Zenon DEF KeptApart
<1> QED BY <1>3, <1>4, <1>11, <1>13, Zenon DEF NamesOK

\* A sample is taken: it waits, like the others, for its number.
LEMMA NamesBegun ==
  ASSUME NEW N, NEW s \in Seq(Points), NEW c, NEW a, NEW f \in Points, NamesOK(N, s, c, a, f),
         NEW p \in Procs, NEW d, d[p].pc = "pub" => d[p].pt = f,
         \A q \in Procs \ {p} : d[q] = c[q],
         \A q \in Holders(c) : c[q].pt \in Points
  PROVE  NamesOK(N, s, d, a, f - 1)
<1>1. /\ \A x \in Points : x > f => x > f - 1 /\ x # f
      /\ f > f - 1
  BY PointsAreNumbers
<1>2. /\ OneName(N) /\ GivenOut(N, a, f) /\ Waiting(s, c, f) /\ KeptApart(N, s, c)
      /\ \A i \in DOMAIN s : s[i] \in Points
      /\ \A n \in Int \X Points : n[2] \in Points
  BY DEF NamesOK
<1>3. GivenOut(N, a, f - 1)
  BY <1>1, <1>2, Zenon DEF GivenOut
<1>4. \A q \in Holders(d) : (q = p /\ d[q].pt = f) \/ (q \in Holders(c) /\ d[q] = c[q] /\ q # p)
  BY Zenon DEF Holders
<1>5. \A q \in Holders(c) : c[q].pt > f - 1 /\ c[q].pt # f
  BY <1>1, <1>2, Zenon DEF Waiting
<1>6. \A i \in DOMAIN s : s[i] > f - 1 /\ s[i] # f
  BY <1>1, <1>2, Zenon DEF Waiting
<1>7. \A n \in N : n[2] # f
  BY <1>1, <1>2, Zenon DEF GivenOut
<1>8. \A q \in Holders(d) : d[q].pt > f - 1 /\ \A i \in DOMAIN s : s[i] # d[q].pt
  BY <1>1, <1>2, <1>4, <1>5, <1>6, Zenon DEF Waiting
<1>9. \A q, r \in Holders(d) : d[q].pt = d[r].pt => q = r
  BY <1>2, <1>4, <1>5, Zenon DEF Waiting
<1>10. Waiting(s, d, f - 1)
  BY <1>2, <1>6, <1>8, <1>9, Zenon DEF Waiting
<1>11. ASSUME NEW n \in N
       PROVE  (\A i \in DOMAIN s : s[i] # n[2]) /\ \A q \in Holders(d) : d[q].pt # n[2]
  BY <1>2, <1>4, <1>7, Zenon DEF KeptApart
<1>12. KeptApart(N, s, d)
  BY <1>11, Zenon DEF KeptApart
<1> QED BY <1>2, <1>3, <1>10, <1>12, Zenon DEF NamesOK

\* A held sample is staged behind the others.
LEMMA NamesStaged ==
  ASSUME NEW N, NEW s \in Seq(Points), NEW c, NEW a, NEW f, NamesOK(N, s, c, a, f),
         NEW p \in Holders(c), c[p].pt \in Points, NEW d, HeldFewer(d, c), p \notin Holders(d)
  PROVE  NamesOK(N, Append(s, c[p].pt), d, a, f)
<1> DEFINE x == c[p].pt
           t == Append(s, x)
<1>1. \A i \in DOMAIN t : (i \in DOMAIN s /\ t[i] = s[i]) \/ (i = Len(s) + 1 /\ t[i] = x)
  OBVIOUS
<1>2. OneName(N) /\ GivenOut(N, a, f) /\ Waiting(s, c, f) /\ KeptApart(N, s, c)
  BY DEF NamesOK
<1>3. /\ x > f /\ \A i \in DOMAIN s : s[i] # x
      /\ \A q \in Holders(c) : c[q].pt = x => q = p
      /\ \A n \in N : n[2] # x
  BY <1>2, Zenon DEF Waiting, KeptApart
<1>4. \A q \in Holders(d) : q \in Holders(c) /\ q # p /\ d[q] = c[q] /\ d[q].pt # x
  BY <1>3, Zenon DEF Holders, HeldFewer
<1> HIDE DEF t, x
<1>5. Distinct(t)
  BY <1>1, <1>2, <1>3, Zenon DEF Distinct, Waiting
<1>6. \A i \in DOMAIN t : t[i] > f
  BY <1>1, <1>2, <1>3, Zenon DEF Waiting
<1>7. \A q \in Holders(d) : d[q].pt > f /\ \A i \in DOMAIN t : t[i] # d[q].pt
  BY <1>1, <1>2, <1>4, Zenon DEF Waiting
<1>8. \A q, r \in Holders(d) : d[q].pt = d[r].pt => q = r
  BY <1>2, <1>4, Zenon DEF Waiting
<1>9. Waiting(t, d, f)
  BY <1>5, <1>6, <1>7, <1>8, Zenon DEF Waiting
<1>10. ASSUME NEW n \in N
       PROVE  (\A i \in DOMAIN t : t[i] # n[2]) /\ \A q \in Holders(d) : d[q].pt # n[2]
  <2>1. \A i \in DOMAIN t : t[i] # n[2]
    BY <1>1, <1>2, <1>3, <1>10, Zenon DEF KeptApart
  <2>2. \A q \in Holders(d) : d[q].pt # n[2]
    BY <1>2, <1>4, <1>10, Zenon DEF KeptApart
  <2> QED BY <2>1, <2>2
<1>11. KeptApart(N, t, d)
  BY <1>10, Zenon DEF KeptApart
<1> QED BY <1>2, <1>9, <1>11, Zenon DEF NamesOK, t, x

\* Waiting points get the next numbers, in their order.
LEMMA NamesGiven ==
  ASSUME NEW N, NEW s \in Seq(Points), NEW c, NEW a \in Int, NEW f \in Int,
         NamesOK(N, s, c, a, f), \A q \in Holders(c) : c[q].pt \in Points,
         NEW x \in Seq(Points), Distinct(x),
         \A i \in DOMAIN x : x[i] > f /\ \A n \in N : n[2] # x[i],
         NEW t, StagedFewer(t, s), NEW d, HeldFewer(d, c),
         \A i \in DOMAIN x : /\ \A j \in DOMAIN t : t[j] # x[i]
                             /\ \A q \in Holders(d) : d[q].pt # x[i]
  PROVE  NamesOK(N \cup {<<a + i, x[i]>> : i \in DOMAIN x}, t, d, a + Len(x), f)
<1> DEFINE new == {<<a + i, x[i]>> : i \in DOMAIN x}
<1>0. Len(x) \in Nat /\ DOMAIN x = 1 .. Len(x) /\ a + Len(x) \in Int /\ a <= a + Len(x)
  OBVIOUS
<1>1. NamesOK(N, t, d, a + Len(x), f)
  <2>1. N \in SUBSET N /\ f <= f
    OBVIOUS
  <2> QED BY <1>0, <2>1, NamesFewer
<1>2. /\ OneName(N) /\ GivenOut(N, a + Len(x), f) /\ Waiting(t, d, f) /\ KeptApart(N, t, d)
  BY <1>1, Zenon DEF NamesOK
<1>3. GivenOut(N, a, f)
  BY Zenon DEF NamesOK
<1>4. \A n \in new : \E i \in DOMAIN x : n = <<a + i, x[i]>> /\ n[1] = a + i /\ n[2] = x[i]
  OBVIOUS
<1>5. \A i \in DOMAIN x : a + i \in Int /\ a + i <= a + Len(x) /\ a + i > a /\ x[i] \in Points
  BY <1>0
<1>6. \A i, j \in DOMAIN x : a + i = a + j => i = j
  BY <1>0
<1> HIDE DEF new
<1>7. ASSUME NEW n \in N, NEW m \in new PROVE n[1] # m[1] /\ n[2] # m[2]
  <2>1. PICK i \in DOMAIN x : m[1] = a + i /\ m[2] = x[i]
    BY <1>4
  <2>2. n[1] \in Int /\ n[1] <= a
    BY <1>3 DEF GivenOut
  <2> QED BY <1>5, <2>1, <2>2
<1>8. \A m, n \in new : m[1] = n[1] <=> m[2] = n[2]
  <2>1. ASSUME NEW m \in new, NEW n \in new PROVE m[1] = n[1] <=> m[2] = n[2]
    <3>1. PICK i \in DOMAIN x : m[1] = a + i /\ m[2] = x[i]
      BY <1>4
    <3>2. PICK j \in DOMAIN x : n[1] = a + j /\ n[2] = x[j]
      BY <1>4
    <3>3. a + i = a + j => i = j
      BY <1>6
    <3>4. x[i] = x[j] => i = j
      BY Zenon DEF Distinct
    <3> QED BY <3>1, <3>2, <3>3, <3>4, Zenon
  <2> QED BY <2>1, Zenon
<1>9. OneName(N \cup new)
  <2>1. ASSUME NEW m \in N \cup new, NEW n \in N \cup new PROVE m[1] = n[1] <=> m[2] = n[2]
    BY <1>2, <1>7, <1>8, Zenon DEF OneName
  <2> QED BY <2>1, Zenon DEF OneName
<1>10. GivenOut(N \cup new, a + Len(x), f)
  <2>1. ASSUME NEW n \in new PROVE n \in Int \X Points /\ n[1] <= a + Len(x) /\ n[2] > f
    <3>1. PICK i \in DOMAIN x : n = <<a + i, x[i]>> /\ n[1] = a + i /\ n[2] = x[i]
      BY <1>4, <2>1, Zenon
    <3>2. a + i \in Int /\ a + i <= a + Len(x) /\ x[i] \in Points /\ x[i] > f
      BY <1>5, Zenon
    <3>3. n \in Int \X Points
      BY <3>1, <3>2
    <3> QED BY <3>1, <3>2, <3>3, Zenon
  <2> QED BY <1>2, <2>1, Zenon DEF GivenOut
<1>11. KeptApart(N \cup new, t, d)
  <2>1. ASSUME NEW n \in new
        PROVE  (\A i \in DOMAIN t : t[i] # n[2]) /\ \A q \in Holders(d) : d[q].pt # n[2]
    BY <1>4, <2>1, Zenon
  <2> QED BY <1>2, <2>1, Zenon DEF KeptApart
<1> QED BY <1>2, <1>9, <1>10, <1>11, Zenon DEF NamesOK, new

-----------------------------------------------------------------------------
(* The queue.                                                                *)

\* No point gets a number, and the staged points stay or go together.
QueueFewer(r, q) ==
  Pairs(r.inflight) \subseteq Pairs(q.inflight) /\ r.staging \in {q.staging, <<>>}

\* Points of s, with their numbers.
LEMMA PairsFewer ==
  ASSUME NEW s, NEW t,
         \A i \in DOMAIN t : \E j \in DOMAIN s : t[i].seq = s[j].seq /\ t[i].pt = s[j].pt
  PROVE  Pairs(t) \subseteq Pairs(s)
BY Zenon DEF Pairs

\* A socket is lost: the points keep their numbers.
LEMMA UnsentFewer ==
  ASSUME NEW q \in Queue
  PROVE  QueueFewer(MarkUnsent(q), q)
<1> DEFINE s == q.inflight
           t == [i \in DOMAIN s |-> [s[i] EXCEPT !.sent = FALSE]]
<1>1. MarkUnsent(q) = [q EXCEPT !.inflight = t, !.frames = <<>>]
  BY Zenon DEF MarkUnsent
<1>2. \A i \in DOMAIN s : s[i] \in QueuedPoint
  BY QueueParts
<1>3. \A i \in DOMAIN t : i \in DOMAIN s /\ t[i].seq = s[i].seq /\ t[i].pt = s[i].pt
  BY <1>2, Zenon DEF QueuedPoint
<1> HIDE DEF t
<1>4. MarkUnsent(q).inflight = t /\ MarkUnsent(q).staging = q.staging
  BY <1>1, Zenon DEF Queue
<1>5. Pairs(t) \subseteq Pairs(s)
  BY <1>3, PairsFewer, Zenon
<1> QED BY <1>4, <1>5, Zenon DEF QueueFewer

\* Acked points go.
LEMMA AckedFewer ==
  ASSUME NEW q \in Queue, NEW ack \in Nat
  PROVE  QueueFewer(AckThrough(q, ack), q)
<1> DEFINE s == q.inflight
           I == {i \in DOMAIN s : s[i].seq > ack}
           F == {i \in DOMAIN q.frames : q.frames[i] > ack}
           t == Retain(s, I)
           u == Retain(q.frames, F)
<1>1. AckThrough(q, ack) = [q EXCEPT !.inflight = t, !.frames = u]
  BY Zenon DEF AckThrough
<1>2. Len(s) \in Nat /\ DOMAIN s = 1 .. Len(s) /\ I \in SUBSET (1 .. Len(s))
  BY QueueParts
<1> HIDE DEF I
<1>3. \A j \in DOMAIN t : Position(I, j) \in DOMAIN s /\ t[j] = s[Position(I, j)]
  BY <1>2, PositionInRange, Zenon DEF Retain
<1> HIDE DEF t, u
<1>4. AckThrough(q, ack).inflight = t /\ AckThrough(q, ack).staging = q.staging
  BY <1>1, Zenon DEF Queue
<1>5. Pairs(t) \subseteq Pairs(s)
  BY <1>3, PairsFewer, Zenon
<1> QED BY <1>4, <1>5, Zenon DEF QueueFewer

\* A frame is recorded: the points keep their numbers.
LEMMA RecordedFewer ==
  ASSUME NEW q \in Queue, NEW seqs \in Seq(Nat)
  PROVE  QueueFewer(RecordFrames(q, seqs), q)
<1> DEFINE s == q.inflight
           t == SentThrough(s, seqs)
<1>1. RecordFrames(q, seqs) = [q EXCEPT !.frames = q.frames \o seqs, !.inflight = t]
  BY Zenon DEF RecordFrames
<1>2. s \in Seq(QueuedPoint) /\ DOMAIN s = 1 .. Len(s)
  BY QueueParts
<1>3. DOMAIN t = DOMAIN s
  BY Zenon DEF SentThrough
<1>4. \A i \in DOMAIN t : i \in DOMAIN s /\ t[i].seq = s[i].seq /\ t[i].pt = s[i].pt
  <2>1. \A i \in 1 .. Len(s) : t[i].seq = s[i].seq /\ t[i].pt = s[i].pt
    BY <1>2, SentThroughParts, Zenon
  <2> HIDE DEF t
  <2> QED BY <1>2, <1>3, <2>1
<1> HIDE DEF t
<1>5. RecordFrames(q, seqs).inflight = t /\ RecordFrames(q, seqs).staging = q.staging
  BY <1>1, Zenon DEF Queue
<1>6. Pairs(t) \subseteq Pairs(s)
  BY <1>4, PairsFewer, Zenon
<1> QED BY <1>5, <1>6, Zenon DEF QueueFewer

\* The cap takes one staged point, or the oldest one in flight.
LEMMA CapFewer ==
  ASSUME NEW q \in Queue, NEW r \in EnforceCap(q)
  PROVE  /\ Pairs(r.inflight) \subseteq Pairs(q.inflight)
         /\ \/ r.staging = q.staging
            \/ \E i \in DOMAIN q.staging : r.staging = RemoveIndex(q.staging, i)
<1>1. q \in [staging : Seq(Points), inflight : Seq(QueuedPoint), frames : Seq(Nat)]
  BY Zenon DEF Queue
<1>2. q.staging \in Seq(Points) /\ q.inflight \in Seq(QueuedPoint)
  BY QueueParts
<1>3. CASE Size(q) <= MaxQueue
  BY <1>3, Zenon DEF EnforceCap
<1>4. CASE ~(Size(q) <= MaxQueue) /\ q.staging # <<>>
  <2>1. PICK i \in {1} \cup 2 .. (Len(q.staging) - 1) :
              r = [q EXCEPT !.staging = RemoveIndex(q.staging, i)]
    BY <1>4, Zenon DEF EnforceCap
  <2>2. r.inflight = q.inflight /\ r.staging = RemoveIndex(q.staging, i)
    BY <1>1, <2>1, Zenon
  <2>3. i \in DOMAIN q.staging
    BY <1>2, <1>4, EmptySeq
  <2> QED BY <2>2, <2>3, Zenon
<1>5. CASE ~(Size(q) <= MaxQueue) /\ q.staging = <<>>
  <2>1. r = [q EXCEPT !.inflight = Tail(q.inflight)]
    BY <1>5, Zenon DEF EnforceCap
  <2>2. r.inflight = Tail(q.inflight) /\ r.staging = q.staging
    BY <1>1, <2>1, Zenon
  <2>3. q.inflight # <<>>
    <3>1. MaxQueue \in Nat
      BY QueueAssumption DEF QueueAssumption
    <3>2. q.inflight = <<>> => Size(q) = 0
      BY <1>5 DEF Size
    <3> QED BY <1>5, <3>1, <3>2
  <2>4. \A i \in DOMAIN r.inflight :
          i + 1 \in DOMAIN q.inflight /\ r.inflight[i] = q.inflight[i + 1]
    BY <1>2, <2>2, <2>3
  <2>5. Pairs(r.inflight) \subseteq Pairs(q.inflight)
    BY <2>4, PairsFewer, Zenon
  <2> QED BY <2>2, <2>5
<1> QED BY <1>3, <1>4, <1>5

\* What is left of the staged points.
LEMMA StagedRest ==
  ASSUME NEW s \in Seq(Points), Distinct(s)
  PROVE  /\ StagedFewer(s, s) /\ StagedFewer(<<>>, s)
         /\ \A i \in DOMAIN s : StagedFewer(RemoveIndex(s, i), s)
<1>1. StagedFewer(s, s) /\ StagedFewer(<<>>, s)
  <2>1. DOMAIN <<>> = {}
    OBVIOUS
  <2> QED BY <2>1, Zenon DEF StagedFewer, Distinct
<1>2. ASSUME NEW i \in DOMAIN s PROVE StagedFewer(RemoveIndex(s, i), s)
  <2> DEFINE t == RemoveIndex(s, i)
             At(j) == IF j < i THEN j ELSE j + 1
  <2>1. Len(s) \in Nat /\ i \in 1 .. Len(s) /\ DOMAIN s = 1 .. Len(s)
    BY <1>2
  <2>2. /\ SubSeq(s, 1, i - 1) \in Seq(Points) /\ Len(SubSeq(s, 1, i - 1)) = i - 1
        /\ \A j \in 1 .. i - 1 : SubSeq(s, 1, i - 1)[j] = s[j]
    <3>1. \A k \in 1 .. i - 1 : s[k] \in Points
      BY <2>1
    <3> QED BY <2>1, <3>1, SubSeqProperties
  <2>3. /\ SubSeq(s, i + 1, Len(s)) \in Seq(Points) /\ Len(SubSeq(s, i + 1, Len(s))) = Len(s) - i
        /\ \A j \in 1 .. Len(s) - i : SubSeq(s, i + 1, Len(s))[j] = s[i + j]
    <3>1. \A k \in i + 1 .. Len(s) : s[k] \in Points
      BY <2>1
    <3> QED BY <2>1, <3>1, SubSeqProperties
  <2>4. /\ DOMAIN t = 1 .. Len(s) - 1
        /\ \A j \in 1 .. i - 1 : t[j] = s[j]
        /\ \A j \in i .. Len(s) - 1 : t[j] = SubSeq(s, i + 1, Len(s))[j - (i - 1)]
    <3> DEFINE u == SubSeq(s, 1, i - 1)
               v == SubSeq(s, i + 1, Len(s))
    <3>1. /\ t = u \o v /\ u \in Seq(Points) /\ v \in Seq(Points)
          /\ Len(u) = i - 1 /\ Len(v) = Len(s) - i /\ \A j \in 1 .. i - 1 : u[j] = s[j]
      BY <2>2, <2>3 DEF RemoveIndex
    <3> HIDE DEF t, u, v
    <3>2. /\ u \o v \in Seq(Points) /\ Len(u \o v) = Len(u) + Len(v)
          /\ \A j \in 1 .. Len(u) + Len(v) :
               (u \o v)[j] = IF j <= Len(u) THEN u[j] ELSE v[j - Len(u)]
      BY <3>1, ConcatProperties
    <3>3. \A j \in 1 .. Len(s) - 1 : t[j] = IF j <= i - 1 THEN u[j] ELSE v[j - (i - 1)]
      BY <2>1, <3>1, <3>2
    <3>4. DOMAIN t = 1 .. Len(s) - 1
      <4>1. Len(u) + Len(v) = Len(s) - 1
        BY <2>1, <3>1
      <4>2. t \in Seq(Points) /\ Len(t) = Len(s) - 1
        BY <3>1, <3>2, <4>1
      <4> QED BY <4>2
    <3>5. /\ \A j \in 1 .. i - 1 : j \in 1 .. Len(s) - 1 /\ j <= i - 1
          /\ \A j \in i .. Len(s) - 1 : j \in 1 .. Len(s) - 1 /\ ~(j <= i - 1)
      BY <2>1
    <3>6. \A j \in 1 .. i - 1 : t[j] = s[j]
      BY <3>1, <3>3, <3>5
    <3>7. \A j \in i .. Len(s) - 1 : t[j] = v[j - (i - 1)]
      BY <3>3, <3>5
    <3> QED BY <3>4, <3>6, <3>7, Zenon DEF v
  <2>5. \A j \in DOMAIN t : At(j) \in DOMAIN s /\ t[j] = s[At(j)]
    <3>1. ASSUME NEW j \in 1 .. Len(s) - 1, j < i PROVE At(j) \in DOMAIN s /\ t[j] = s[At(j)]
      <4>1. j \in 1 .. i - 1 /\ j \in 1 .. Len(s) /\ At(j) = j
        BY <2>1, <3>1
      <4> QED BY <2>1, <2>4, <4>1, Zenon
    <3>2. ASSUME NEW j \in 1 .. Len(s) - 1, ~(j < i) PROVE At(j) \in DOMAIN s /\ t[j] = s[At(j)]
      <4>1. /\ j \in i .. Len(s) - 1 /\ j - (i - 1) \in 1 .. Len(s) - i /\ At(j) = j + 1
            /\ i + (j - (i - 1)) = j + 1 /\ j + 1 \in 1 .. Len(s)
        BY <2>1, <3>2
      <4>2. SubSeq(s, i + 1, Len(s))[j - (i - 1)] = s[i + (j - (i - 1))]
        BY <2>3, <4>1, Zenon
      <4>3. t[j] = SubSeq(s, i + 1, Len(s))[j - (i - 1)]
        BY <2>4, <4>1, Zenon
      <4> QED BY <2>1, <4>1, <4>2, <4>3, Zenon
    <3> QED BY <2>4, <3>1, <3>2, Zenon
  <2>6. \A j, k \in DOMAIN t : At(j) = At(k) => j = k
    BY <2>1, <2>4
  <2> HIDE DEF t, At
  <2>7. StagedFewer(t, s)
    BY <2>5, <2>6, Zenon DEF StagedFewer, Distinct
  <2> QED BY <2>7 DEF t
<1> QED BY <1>1, <1>2, Zenon

\* The first staged points, and the others.
LEMMA StagedSplit ==
  ASSUME NEW x \in Seq(Points), NEW t \in Seq(Points), Distinct(x \o t)
  PROVE  /\ Distinct(x) /\ StagedFewer(t, x \o t)
         /\ \A i \in DOMAIN x : /\ \E j \in DOMAIN (x \o t) : (x \o t)[j] = x[i]
                                /\ \A j \in DOMAIN t : t[j] # x[i]
<1> DEFINE s == x \o t
<1>1. /\ Len(x) \in Nat /\ Len(t) \in Nat /\ DOMAIN x = 1 .. Len(x) /\ DOMAIN t = 1 .. Len(t)
      /\ DOMAIN s = 1 .. Len(x) + Len(t)
      /\ \A i \in 1 .. Len(x) : s[i] = x[i]
      /\ \A j \in 1 .. Len(t) : s[Len(x) + j] = t[j]
  BY ConcatProperties
<1> HIDE DEF s
<1>2. \A i \in DOMAIN x : i \in DOMAIN s /\ s[i] = x[i]
  BY <1>1
<1>3. \A j \in DOMAIN t : Len(x) + j \in DOMAIN s /\ s[Len(x) + j] = t[j]
  BY <1>1
<1>4. /\ \A i, j \in DOMAIN t : Len(x) + i = Len(x) + j => i = j
      /\ \A i \in DOMAIN x, j \in DOMAIN t : i # Len(x) + j
  BY <1>1
<1>5. Distinct(s)
  BY DEF s
<1>6. Distinct(x) /\ StagedFewer(t, s)
  BY <1>2, <1>3, <1>4, <1>5, Zenon DEF Distinct, StagedFewer
<1>7. \A i \in DOMAIN x : (\E j \in DOMAIN s : s[j] = x[i]) /\ (\A j \in DOMAIN t : t[j] # x[i])
  BY <1>2, <1>3, <1>4, <1>5, Zenon DEF Distinct
<1> QED BY <1>6, <1>7 DEF s

\* assign_from_staging: the first staged points get the next numbers.
LEMMA AssignedPairs ==
  ASSUME NEW q \in Queue, NEW last \in Nat
  PROVE  \E x, t \in Seq(Points) :
           /\ q.staging = x \o t /\ FlushAssign(q, last).queue.staging = t
           /\ FlushAssign(q, last).assigned = last + Len(x)
           /\ Pairs(FlushAssign(q, last).queue.inflight)
                \subseteq Pairs(q.inflight) \cup {<<last + i, x[i]>> : i \in DOMAIN x}
<1> DEFINE a == FlushAssign(q, last)
           s == q.staging
           room == FrameCap * WindowRemaining(q)
           k == IF Len(s) < room THEN Len(s) ELSE room
           r == AssignFromStaging(q, k, last)
           new == [i \in 1 .. k |-> [seq |-> last + i, pt |-> s[i], sent |-> FALSE]]
<1>1. a = IF UnsentInflight(q) # <<>>
          THEN [queue |-> q, assigned |-> last]
          ELSE [queue |-> r, assigned |-> last + k]
  BY Zenon DEF FlushAssign
<1>2. /\ s \in Seq(Points) /\ q.inflight \in Seq(QueuedPoint) /\ q.frames \in Seq(Nat)
      /\ Len(s) \in Nat
  BY QueueParts
<1> HIDE DEF a
<1>3. CASE UnsentInflight(q) # <<>>
  <2>1. a.queue = q /\ a.assigned = last
    <3> HIDE DEF r, k
    <3> QED BY <1>1, <1>3
  <2>2. s = <<>> \o s /\ <<>> \in Seq(Points) /\ last = last + Len(<<>>)
    BY <1>2, ConcatEmptySeq
  <2> HIDE DEF s
  <2> QED BY <1>2, <2>1, <2>2 DEF a, s
<1>4. CASE UnsentInflight(q) = <<>>
  <2>1. a.queue = r /\ a.assigned = last + k
    <3> HIDE DEF r, k
    <3> QED BY <1>1, <1>4
  <2>2. k \in 0 .. Len(s)
    <3>1. FrameCap \in Nat /\ WindowRemaining(q) \in Nat
      BY <1>2, QueueAssumption DEF QueueAssumption, WindowRemaining
    <3>2. room \in Nat
      BY <3>1
    <3> HIDE DEF room
    <3> QED BY <1>2, <3>2
  <2> DEFINE x == SubSeq(s, 1, k)
             t == SubSeq(s, k + 1, Len(s))
  <2>3. r.staging = t /\ r.inflight = q.inflight \o new
    <3>1. r = [q EXCEPT !.staging = t, !.inflight = q.inflight \o new]
      BY Zenon DEF AssignFromStaging
    <3>2. q \in [staging : Seq(Points), inflight : Seq(QueuedPoint), frames : Seq(Nat)]
      BY Zenon DEF Queue
    <3> HIDE DEF r, new, k, t
    <3> QED BY <3>1, <3>2, Zenon
  <2> HIDE DEF r, k
  <2>4. /\ x \in Seq(Points) /\ t \in Seq(Points) /\ Len(x) = k /\ DOMAIN x = 1 .. k
        /\ \A i \in 1 .. k : x[i] = s[i]
        /\ s = x \o t
    <3> HIDE DEF s
    <3>1. \A i \in 1 .. Len(s) : s[i] \in Points
      BY <1>2
    <3>2. x \in Seq(Points) /\ Len(x) = k /\ \A i \in 1 .. k : x[i] = s[i]
      BY <1>2, <2>2, <3>1, SubSeqProperties
    <3>3. t \in Seq(Points) /\ Len(t) = Len(s) - k /\ \A i \in 1 .. Len(s) - k : t[i] = s[k + i]
      BY <1>2, <2>2, <3>1, SubSeqProperties
    <3> HIDE DEF x, t
    <3>4. /\ x \o t \in Seq(Points) /\ Len(x \o t) = Len(s)
          /\ \A i \in 1 .. Len(s) : (x \o t)[i] = IF i <= k THEN x[i] ELSE t[i - k]
      <4>1. /\ x \o t \in Seq(Points) /\ Len(x \o t) = Len(x) + Len(t)
            /\ \A i \in 1 .. Len(x) + Len(t) :
                 (x \o t)[i] = IF i <= Len(x) THEN x[i] ELSE t[i - Len(x)]
        BY <3>2, <3>3, ConcatProperties
      <4>2. Len(x) + Len(t) = Len(s)
        BY <1>2, <2>2, <3>2, <3>3
      <4> QED BY <3>2, <4>1, <4>2, Zenon
    <3>5. \A i \in 1 .. Len(s) : (x \o t)[i] = s[i]
      BY <1>2, <2>2, <3>2, <3>3, <3>4
    <3>6. s = x \o t
      BY <1>2, <3>4, <3>5, SeqEqual
    <3>7. DOMAIN x = 1 .. k
      BY <3>2
    <3> QED BY <3>2, <3>3, <3>6, <3>7
  <2>5. /\ new \in Seq(QueuedPoint) /\ Len(new) = k
        /\ \A i \in 1 .. k : new[i].seq = last + i /\ new[i].pt = x[i]
    <3>1. ASSUME NEW i \in 1 .. k
          PROVE  new[i] \in QueuedPoint /\ new[i].seq = last + i /\ new[i].pt = s[i]
      <4>1. last + i \in Nat /\ s[i] \in Points
        BY <1>2, <2>2
      <4>2. new[i] = [seq |-> last + i, pt |-> s[i], sent |-> FALSE]
        BY Zenon
      <4> HIDE DEF new
      <4> QED BY <4>1, <4>2 DEF QueuedPoint
    <3>2. new = [i \in 1 .. k |-> new[i]]
      BY Zenon
    <3> HIDE DEF new, x, t
    <3>3. new \in [1 .. k -> QueuedPoint]
      BY <3>1, <3>2, Zenon
    <3>4. new \in Seq(QueuedPoint) /\ Len(new) = k
      BY <2>2, <3>3
    <3> QED BY <2>4, <3>1, <3>4, Zenon
  <2> HIDE DEF new, x, t
  <2>6. ASSUME NEW y \in Pairs(r.inflight)
        PROVE  y \in Pairs(q.inflight) \cup {<<last + i, x[i]>> : i \in DOMAIN x}
    <3>1. PICK j \in DOMAIN r.inflight : y = <<r.inflight[j].seq, r.inflight[j].pt>>
      BY <2>6, Zenon DEF Pairs
    <3>2. \/ j \in DOMAIN q.inflight /\ r.inflight[j] = q.inflight[j]
          \/ \E i \in 1 .. k : r.inflight[j] = new[i]
      BY <1>2, <2>2, <2>3, <2>5, <3>1, ConcatProperties
    <3>3. CASE j \in DOMAIN q.inflight /\ r.inflight[j] = q.inflight[j]
      BY <3>1, <3>3, Zenon DEF Pairs
    <3>4. CASE \E i \in 1 .. k : r.inflight[j] = new[i]
      <4>1. PICK i \in 1 .. k : r.inflight[j] = new[i]
        BY <3>4
      <4>2. y = <<last + i, x[i]>> /\ i \in DOMAIN x
        BY <2>4, <2>5, <3>1, <4>1, Zenon
      <4> QED BY <4>2, Zenon
    <3> QED BY <3>2, <3>3, <3>4
  <2> QED BY <2>1, <2>3, <2>4, <2>6, Zenon DEF a
<1> QED BY <1>3, <1>4

-----------------------------------------------------------------------------
(* What a step does to the session's numbers and points.                     *)

SameNumbers(j, i) == j.queue = i.queue /\ LastOf(j) = LastOf(i)
Kept(j, i)        == LastOf(i) <= LastOf(j) /\ QueueFewer(j.queue, i.queue)

\* The same session, or an emptied one.
LEMMA KeptSame ==
  ASSUME NEW i, InnerOK(i), NEW j, LastOf(j) = LastOf(i), j.queue \in {i.queue, EmptyQueue}
  PROVE  Kept(j, i)
<1>1. LastOf(i) <= LastOf(j)
  BY InnerParts DEF LastOf
<1>2. EmptyQueue.inflight = <<>> /\ EmptyQueue.staging = <<>>
  BY DEF EmptyQueue
<1>3. Pairs(<<>>) = {}
  <2>1. DOMAIN <<>> = {}
    OBVIOUS
  <2> QED BY <2>1, Zenon DEF Pairs
<1>4. QueueFewer(EmptyQueue, i.queue)
  BY <1>2, <1>3 DEF QueueFewer
<1>5. QueueFewer(i.queue, i.queue)
  BY DEF QueueFewer
<1> QED BY <1>1, <1>4, <1>5, Zenon DEF Kept

\* The points that get numbers, or wait for one in another place.
Gains(p)  == PublishStage(p) \/ PublishLive(p)
Moving    == (\E p \in Procs : Gains(p)) \/ (\E s \in Gens : FlushQueue(s))

\* The application calls.
LEMMA CallsKeep ==
  ASSUME IInv, Trip, Steadily, NEW p \in Procs, NewCall(p) \/ CallStep(p), ~Gains(p)
  PROVE  Kept(g', g)
<1>0. /\ InnerOK(g) /\ g \in Inner /\ PublishersOK(call, Phase, LastOf(g))
      /\ SessionOK(g, srv.next)
  BY TripParts
<1>1. CASE PublishBegin(p)
  <2>1. CASE ~NeedsStart
    <3>1. UNCHANGED g
      BY <1>1, <2>1, Zenon DEF PublishBegin
    <3> QED BY <1>0, <3>1, KeptSame
  <2>2. CASE NeedsStart
    <3>1. g' = FreshTrack(g)
      BY <1>1, <2>2, Zenon DEF PublishBegin
    <3>2. LastOf(g) = 0
      BY <2>2, Phases DEF NeedsStart
    <3>3. g'.queue = EmptyQueue /\ g'.last_assigned_seq = 0
      BY <1>0, <3>1, Zenon DEF FreshTrack, Inner
    <3> QED BY <1>0, <3>2, <3>3, KeptSame DEF LastOf
  <2> QED BY <2>1, <2>2
<1>2. CASE SendEvent(p)
  BY <1>0, <1>2, KeptSame DEF SendEvent
<1>3. ~(StartTrack(p) \/ StopTrack(p) \/ ManualResume(p) \/ CloseBegin(p))
  BY Zenon DEF Steadily, Steady, StartTrack, StopTrack, ManualResume, CloseBegin, Begin
<1>4. CASE PublishStart(p) \/ PublishSend(p) \/ EventSend(p)
  BY <1>0, <1>4, KeptSame DEF PublishStart, PublishSend, EventSend
<1>5. CASE PublishStartFailed(p)
  <2>1. g' = [g EXCEPT !.starting = FALSE]
    BY <1>5, Zenon DEF PublishStartFailed
  <2>2. g'.queue = g.queue /\ LastOf(g') = LastOf(g)
    BY <1>0, <2>1, Zenon DEF Inner, LastOf
  <2> QED BY <1>0, <2>2, KeptSame
<1>6. call[p].pc \in TripPc \/ ~CallStep(p)
  BY <1>0 DEF PublishersOK, PublisherOK
<1>7. ~(\/ StartSend(p) \/ StartFailed(p) \/ StopRegister(p) \/ StopSend(p) \/ StopFailed(p)
        \/ CallReturns(p) \/ ManualRegister(p) \/ ManualSend(p) \/ ManualFailed(p)
        \/ ManualReturns(p) \/ CloseSend(p) \/ Close(p)) \/ ~CallStep(p)
  BY <1>6 DEF TripPc, Starters, StartSend, StartFailed, StopRegister, StopSend, StopFailed,
     CallReturns, ManualRegister, ManualSend, ManualFailed, ManualReturns, CloseSend, Close
<1> QED BY <1>1, <1>2, <1>3, <1>4, <1>5, <1>7, Zenon DEF NewCall, CallStep, Gains

\* The dialing tasks: a lost socket only changes who has to be sent.
LEMMA DialersKeep ==
  ASSUME IInv, Trip, NEW d \in Drivers, DriverStep(d)
  PROVE  Kept(g', g)
<1>0. InnerOK(g) /\ g \in Inner /\ g.queue \in Queue
  BY TripParts, InnerParts
<1>1. CASE SocketClosed(d)
  <2> DEFINE lost == [g EXCEPT !.out_tx = None, !.session_ready = FALSE,
                               !.queue = MarkUnsent(g.queue)]
  <2>1. \/ UNCHANGED g
        \/ g' = [lost EXCEPT !.state = "Closed"]
        \/ g' = [RejectPending(lost) EXCEPT !.state = "Closed"]
        \/ \E n : g' = [lost EXCEPT !.state = "Reconnecting", !.attempt = n]
    BY <1>1, Zenon DEF SocketClosed
  <2> DEFINE q == MarkUnsent(g.queue)
  <2>2. \/ UNCHANGED g
        \/ g'.queue = q /\ LastOf(g') = LastOf(g)
    <3> HIDE DEF q
    <3>1. /\ lost.queue = q /\ lost.last_assigned_seq = g.last_assigned_seq
          /\ DOMAIN lost = DOMAIN g
      BY <1>0, Zenon DEF Inner, q
    <3>2. DOMAIN g = {"state", "track_uid", "last_assigned_seq", "last_acked_seq", "queue",
                      "session_ready", "starting", "intentional", "dial_gen", "out_tx",
                      "start_wait", "stop_wait", "resume_wait", "attempt"}
      BY <1>0 DEF Inner
    <3> HIDE DEF lost
    <3> QED BY <2>1, <3>1, <3>2 DEF RejectPending, LastOf
  <2>3. QueueFewer(q, g.queue)
    BY <1>0, UnsentFewer
  <2>4. LastOf(g) <= LastOf(g)
    BY <1>0, InnerParts DEF LastOf
  <2> QED BY <1>0, <2>2, <2>3, <2>4, KeptSame DEF Kept
<1>2. ASSUME ~SocketClosed(d) PROVE SameNumbers(g', g)
  <2>1. \/ UNCHANGED g
        \/ g' = [g EXCEPT !.intentional = TRUE, !.state = "Closed", !.out_tx = None]
        \/ \E n : g' = [g EXCEPT !.dial_gen = n, !.session_ready = FALSE, !.out_tx = None]
        \/ g' = [g EXCEPT !.intentional = TRUE, !.state = "Closed"]
        \/ \E n, b : g' = [g EXCEPT !.dial_gen = n, !.session_ready = FALSE, !.state = b]
        \/ \E n : g' = [g EXCEPT !.out_tx = n, !.state = "Open", !.attempt = 0]
        \/ g' = [g EXCEPT !.resume_wait = d]
    BY <1>2, Zenon DEF DriverStep, Wake, HandleRelocate, GiveUpAuth, RefreshOk, RefreshErr, Dial,
       DialHello, DialRelocated, DialFails, Install, ResumeRegister, ResumeSend, ResumeReturns,
       ResumeRetry, ReconnectFailed
  <2> QED BY <1>0, <2>1, Zenon DEF Inner, SameNumbers, LastOf
<1> QED BY <1>0, <1>1, <1>2, KeptSame, Zenon DEF SameNumbers

\* The read loops.
LEMMA ReadersKeep ==
  ASSUME IInv, Trip, NEW s \in Gens, ReaderStep(s), ~FlushQueue(s)
  PROVE  Kept(g', g)
<1>0. /\ InnerOK(g) /\ g \in Inner /\ g.queue \in Queue /\ WiresOK(wire)
      /\ LinesOK(wire, Phase, LastOf(g)) /\ OneMsg(wire) /\ LastOf(g) \in Nat
  BY TripParts, InnerParts
<1>1. CASE OnResumeOk(s) \/ OnAck(s)
  <2> DEFINE seq == Got(s).seq
             q   == AckThrough(g.queue, seq)
  <2>1. seq \in Nat
    <3>1. \E t : Receives(s, t) /\ Consume(s)
      BY <1>1, Zenon DEF OnResumeOk, OnAck
    <3>2. Got(s) \in Msg
      BY <1>0, <3>1, LinesGot
    <3> QED BY <3>2, MsgParts
  <2>2. QueueFewer(q, g.queue)
    BY <1>0, <2>1, AckedFewer
  <2>3. CASE OnAck(s)
    <3>1. \E n : g' = [g EXCEPT !.last_acked_seq = n, !.queue = q]
      BY <2>3, Zenon DEF OnAck
    <3> HIDE DEF q
    <3>2. g'.queue = q /\ LastOf(g') = LastOf(g)
      BY <1>0, <3>1, Zenon DEF Inner, LastOf
    <3> QED BY <1>0, <2>2, <3>2 DEF Kept
  <2>4. CASE OnResumeOk(s)
    <3> DEFINE last == IF g.last_assigned_seq < seq THEN seq ELSE g.last_assigned_seq
    <3>1. \E u : g' = [g EXCEPT !.track_uid = u, !.last_acked_seq = seq,
                                !.last_assigned_seq = last, !.queue = q,
                                !.session_ready = TRUE, !.resume_wait = NoOne]
      BY <2>4, Zenon DEF OnResumeOk
    <3>2. LastOf(g) <= last
      BY <1>0, <2>1 DEF LastOf
    <3> HIDE DEF q, seq, last
    <3>3. g'.queue = q /\ LastOf(g') = last
      BY <1>0, <3>1, Zenon DEF Inner, LastOf
    <3> QED BY <2>2, <3>2, <3>3 DEF Kept
  <2> QED BY <1>1, <2>3, <2>4
<1>2. CASE OnTrackStarted(s)
  <2>1. \E u : g' = [g EXCEPT !.track_uid = u, !.last_assigned_seq = 0,
                    !.last_acked_seq = 0, !.session_ready = TRUE,
                    !.starting = FALSE, !.start_wait = NoOne]
    BY <1>2, Zenon DEF OnTrackStarted
  <2>2. g'.queue = g.queue /\ LastOf(g') = 0
    BY <1>0, <2>1, Zenon DEF Inner, LastOf
  <2>3. LastOf(g) = 0
    <3>1. Receives(s, "TrackStarted") /\ Consume(s)
      BY <1>2, Zenon DEF OnTrackStarted
    <3>2. Got(s).type = "TrackStarted" /\ DownOK(Got(s), Phase, LastOf(g))
      BY <1>0, <3>1, LinesGot
    <3>3. Phase = "given"
      BY <3>2 DEF DownOK
    <3> QED BY <3>3, Phases
  <2> QED BY <1>0, <2>2, <2>3, KeptSame
<1>3. \A b : /\ b.queue = g.queue \/ b.queue = EmptyQueue
             /\ LastOf(b) = LastOf(g)
             => Kept(b, g)
  BY <1>0, KeptSame
<1>4. /\ ForgetTrack(g).queue = EmptyQueue /\ LastOf(ForgetTrack(g)) = LastOf(g)
      /\ ForgetTrack(g) \in Inner
  <2>1. ForgetTrack(g) \in Inner
    BY <1>0, ForgetTrackType, InnerParts
  <2> QED BY <1>0, <2>1, Zenon DEF ForgetTrack, Inner, LastOf
<1>5. CASE OnTrackStopped(s)
  <2>1. g' = [ForgetTrack(g) EXCEPT !.stop_wait = NoOne] \/ g' = [g EXCEPT !.stop_wait = NoOne]
    BY <1>5, Zenon DEF OnTrackStopped
  <2>2. g'.queue \in {g.queue, EmptyQueue} /\ LastOf(g') = LastOf(g)
    BY <1>0, <1>4, <2>1, Zenon DEF Inner, LastOf
  <2> QED BY <1>0, <2>2, KeptSame
<1>6. CASE \E code \in ErrorCodes : OnError(s, code)
  <2>1. \E i \in {g, ForgetTrack(g)} : \E b : g' = [RejectPending(i) EXCEPT !.starting = b]
    BY <1>6, Zenon DEF OnError
  <2>2. \A i \in Inner : \A b : /\ [RejectPending(i) EXCEPT !.starting = b].queue = i.queue
                                /\ LastOf([RejectPending(i) EXCEPT !.starting = b]) = LastOf(i)
    BY Zenon DEF RejectPending, Inner, LastOf
  <2>3. g'.queue \in {g.queue, EmptyQueue} /\ LastOf(g') = LastOf(g)
    <3>1. PICK i \in {g, ForgetTrack(g)} : \E b : g' = [RejectPending(i) EXCEPT !.starting = b]
      BY <2>1
    <3>2. i \in Inner /\ i.queue \in {g.queue, EmptyQueue} /\ LastOf(i) = LastOf(g)
      BY <1>0, <1>4, Zenon
    <3>3. g'.queue = i.queue /\ LastOf(g') = LastOf(i)
      BY <2>2, <3>1, <3>2, Zenon
    <3> QED BY <3>2, <3>3, Zenon
  <2> QED BY <1>0, <2>3, KeptSame
<1>7. CASE OnRelocate(s) \/ SendFrame(s) \/ ReaderEnds(s)
  <2>1. UNCHANGED g
    BY <1>7 DEF OnRelocate, SendFrame, ReaderEnds
  <2> QED BY <1>0, <2>1, KeptSame
<1> QED BY <1>1, <1>2, <1>5, <1>6, <1>7 DEF ReaderStep

\* Numbers are never taken back, and except where a point gets its number or is
\* staged the session keeps the points it has, or loses some.
LEMMA SessionKeeps ==
  ASSUME IInv, Trip, Steadily, [Next]_vars
  PROVE  LastOf(g) <= LastOf(g') /\ (Moving \/ QueueFewer(g'.queue, g.queue))
<1>0. InnerOK(g) /\ g \in Inner /\ g.queue \in Queue /\ Ordered(g) /\ g.last_assigned_seq \in Nat
  BY TripParts, InnerParts
<1>1. ASSUME UNCHANGED g PROVE Kept(g', g)
  BY <1>0, <1>1, KeptSame
<1>2. ASSUME NEW p \in Procs, PublishStage(p) PROVE LastOf(g) <= LastOf(g')
  <2>1. PICK q : g' = [g EXCEPT !.queue = q]
    BY <1>2, Zenon DEF PublishStage
  <2>2. LastOf(g') = LastOf(g)
    BY <1>0, <2>1, Zenon DEF Inner, LastOf
  <2> QED BY <1>0, <2>2 DEF LastOf
<1>3. ASSUME NEW p \in Procs, PublishLive(p) PROVE LastOf(g) <= LastOf(g')
  <2> DEFINE n == g.last_assigned_seq + 1
  <2>1. PICK q : g' = [g EXCEPT !.last_assigned_seq = n, !.queue = q]
    BY <1>3, Zenon DEF PublishLive
  <2>2. g.last_assigned_seq <= n
    BY <1>0
  <2> HIDE DEF n
  <2>3. LastOf(g') = n
    BY <1>0, <2>1, Zenon DEF Inner, LastOf
  <2> QED BY <2>2, <2>3 DEF LastOf
<1>4. ASSUME NEW s \in Gens, FlushQueue(s) PROVE LastOf(g) <= LastOf(g')
  <2> DEFINE a == FlushAssign(g.queue, g.last_assigned_seq)
  <2>1. UNCHANGED g \/ \E q : g' = [g EXCEPT !.queue = q, !.last_assigned_seq = a.assigned]
    BY <1>4, Zenon DEF FlushQueue
  <2>2. g.last_assigned_seq <= a.assigned
    <3>1. Orderly(g.queue.inflight, g.last_assigned_seq)
      BY <1>0 DEF Ordered
    <3> QED BY <1>0, <3>1, AssignOrderly, Zenon
  <2> HIDE DEF a
  <2>3. ASSUME NEW q, g' = [g EXCEPT !.queue = q, !.last_assigned_seq = a.assigned]
        PROVE  LastOf(g') = a.assigned
    BY <1>0, <2>3, Zenon DEF Inner, LastOf
  <2>4. UNCHANGED g => LastOf(g) <= LastOf(g')
    BY <1>0 DEF LastOf
  <2>5. (\E q : g' = [g EXCEPT !.queue = q, !.last_assigned_seq = a.assigned])
          => LastOf(g) <= LastOf(g')
    BY <2>2, <2>3, Zenon DEF LastOf
  <2> QED BY <2>1, <2>4, <2>5, Zenon
<1>5. ASSUME NEW s \in Gens, ServerStep(s) \/ Environment(s) PROVE UNCHANGED g
  BY <1>5 DEF ServerStep, Environment, ServerStarts, ServerRefusesStart, ServerResumes,
     ServerDefersResume, ServerTakesLoc, ServerTakesEvent, ServerStops, ServerCloses,
     ServerRelocates, ServerRejectsAuth, Drop, Quiet
<1>6. ~ServerForgets
  BY DEF Steadily, Steady, ServerForgets
<1>7. Kept(g', g) \/ Moving
  <2>1. UNCHANGED vars => UNCHANGED g
    BY DEF vars
  <2> QED BY <1>1, <1>5, <1>6, <2>1, CallsKeep, DialersKeep, ReadersKeep, Zenon DEF Next, Moving
<1>8. Moving => LastOf(g) <= LastOf(g')
  BY <1>2, <1>3, <1>4, Zenon DEF Moving, Gains
<1> QED BY <1>7, <1>8, Zenon DEF Kept

-----------------------------------------------------------------------------
(* Frames.                                                                   *)

\* The points a frame or a message carries, with their numbers.
Carried(f) == {<<f.seq - Len(f.pts) + i, f.pts[i]>> : i \in DOMAIN f.pts}

LEMMA NumberedParts ==
  ASSUME NEW q
  PROVE  /\ \A k \in DOMAIN q : Carried(q[k]) \subseteq Numbered(q)
         /\ \A n \in Numbered(q) : \E k \in DOMAIN q : n \in Carried(q[k])
<1>1. Numbered(q) = UNION {Carried(f) : f \in {q[k] : k \in DOMAIN q}}
  BY Zenon DEF Carried, Numbered
<1> QED BY <1>1

\* A queue whose messages come from another one or are new.
LEMMA NumberedFewer ==
  ASSUME NEW q, NEW t, NEW X,
         \A i \in DOMAIN t : (\E j \in DOMAIN q : t[i] = q[j]) \/ Carried(t[i]) \subseteq X
  PROVE  Numbered(t) \subseteq Numbered(q) \cup X
<1> SUFFICES ASSUME NEW n \in Numbered(t) PROVE n \in Numbered(q) \cup X
  OBVIOUS
<1>1. PICK i \in DOMAIN t : n \in Carried(t[i])
  BY NumberedParts
<1>2. CASE Carried(t[i]) \subseteq X
  BY <1>1, <1>2
<1>3. CASE \E j \in DOMAIN q : t[i] = q[j]
  BY <1>1, <1>3, NumberedParts
<1> QED BY <1>2, <1>3

LEMMA NumberedQueue ==
  ASSUME NEW S, NEW q \in Seq(S)
  PROVE  /\ \A m \in S : Numbered(Append(q, m)) \subseteq Numbered(q) \cup Carried(m)
         /\ q # <<>> => /\ Numbered(Tail(q)) \subseteq Numbered(q)
                        /\ Carried(Head(q)) \subseteq Numbered(q)
         /\ Numbered(<<>>) = {}
<1>1. ASSUME NEW m \in S PROVE Numbered(Append(q, m)) \subseteq Numbered(q) \cup Carried(m)
  <2>1. \A i \in DOMAIN Append(q, m) :
          (i \in DOMAIN q /\ Append(q, m)[i] = q[i]) \/ Append(q, m)[i] = m
    OBVIOUS
  <2>2. \A i \in DOMAIN Append(q, m) : \/ \E j \in DOMAIN q : Append(q, m)[i] = q[j]
                                       \/ Carried(Append(q, m)[i]) \subseteq Carried(m)
    BY <2>1, Zenon
  <2> QED BY <2>2, NumberedFewer
<1>2. ASSUME q # <<>> PROVE Numbered(Tail(q)) \subseteq Numbered(q)
  <2>1. \A i \in DOMAIN Tail(q) : i + 1 \in DOMAIN q /\ Tail(q)[i] = q[i + 1]
    BY <1>2
  <2>2. \A i \in DOMAIN Tail(q) : (\E j \in DOMAIN q : Tail(q)[i] = q[j]) \/ Carried(Tail(q)[i]) \subseteq {}
    BY <2>1, Zenon
  <2>3. Numbered(Tail(q)) \subseteq Numbered(q) \cup {}
    BY <2>2, NumberedFewer
  <2> QED BY <2>3
<1>3. ASSUME q # <<>> PROVE Carried(Head(q)) \subseteq Numbered(q)
  <2>1. 1 \in DOMAIN q /\ Head(q) = q[1]
    BY <1>3
  <2> QED BY <2>1, NumberedParts
<1>4. Numbered(<<>>) = {}
  <2>1. DOMAIN <<>> = {}
    OBVIOUS
  <2> QED BY <2>1, NumberedParts
<1> QED BY <1>1, <1>2, <1>3, <1>4, Zenon

\* One socket has changed, or one round.
LEMMA LinesGain ==
  ASSUME NEW w, WiresOK(w), NEW s, NEW v, NEW X,
         s \in Gens => Numbered(v.c2s) \subseteq Numbered(w[s].c2s) \cup X
  PROVE  InLines([w EXCEPT ![s] = v]) \subseteq InLines(w) \cup X
<1> DEFINE h == [w EXCEPT ![s] = v]
<1>1. \A r \in Gens : h[r] = IF r = s THEN v ELSE w[r]
  BY DEF WiresOK
<1> HIDE DEF h
<1>2. \A r \in Gens : Numbered(h[r].c2s) \subseteq Numbered(w[r].c2s) \cup X
  BY <1>1, Zenon
<1>3. InLines(h) \subseteq InLines(w) \cup X
  BY <1>2, Zenon DEF InLines
<1> QED BY <1>3 DEF h

LEMMA RoundsGain ==
  ASSUME NEW f, ReadersOK(f), NEW s, NEW v, NEW X,
         s \in Gens => Numbered(v.out) \subseteq Numbered(f[s].out) \cup X
  PROVE  InRounds([f EXCEPT ![s] = v]) \subseteq InRounds(f) \cup X
<1> DEFINE h == [f EXCEPT ![s] = v]
<1>1. \A r \in Gens : h[r] = IF r = s THEN v ELSE f[r]
  BY DEF ReadersOK
<1> HIDE DEF h
<1>2. \A r \in Gens : Numbered(h[r].out) \subseteq Numbered(f[r].out) \cup X
  BY <1>1, Zenon
<1>3. InRounds(h) \subseteq InRounds(f) \cup X
  BY <1>2, Zenon DEF InRounds
<1> QED BY <1>3 DEF h

\* The client sends: the socket then carries what the message does.
LEMMA LinesSent ==
  ASSUME WiresOK(wire), NEW m \in Msg, Sent(m)
  PROVE  InLines(wire') \subseteq InLines(wire) \cup Carried(m)
<1> DEFINE s   == g.out_tx
           out == IF wire[s].up THEN Append(wire[s].c2s, m) ELSE wire[s].c2s
           v   == [wire[s] EXCEPT !.c2s = out]
<1>1. wire' = [wire EXCEPT ![s] = v]
  BY Zenon DEF Sent, Push
<1>2. ASSUME s \in Gens PROVE Numbered(v.c2s) \subseteq Numbered(wire[s].c2s) \cup Carried(m)
  <2>1. wire[s].c2s \in Seq(Msg) /\ wire[s] \in Wire
    BY <1>2, WireParts
  <2>2. Numbered(Append(wire[s].c2s, m)) \subseteq Numbered(wire[s].c2s) \cup Carried(m)
    BY <2>1, NumberedQueue
  <2>3. v.c2s = out
    <3> HIDE DEF out
    <3> QED BY <2>1, Zenon DEF Wire
  <2> QED BY <2>2, <2>3, Zenon
<1> HIDE DEF v
<1>3. InLines([wire EXCEPT ![s] = v]) \subseteq InLines(wire) \cup Carried(m)
  BY <1>2, LinesGain
<1> QED BY <1>1, <1>3, Zenon

\* Messages that carry no points.
LEMMA NoPoints ==
  \A t, uid : Carried(M(t)) = {} /\ Carried(Resume(uid)) = {}
<1> SUFFICES ASSUME NEW t, NEW uid PROVE Carried(M(t)) = {} /\ Carried(Resume(uid)) = {}
  BY Zenon
<1>1. M(t).pts = <<>> /\ Resume(uid).pts = <<>>
  BY DEF M, Resume
<1>2. DOMAIN <<>> = {}
  OBVIOUS
<1> QED BY <1>1, <1>2, Zenon DEF Carried

-----------------------------------------------------------------------------
(* What a step does to the points under way.                                 *)

Begins == \E p \in Procs : PublishBegin(p)
Lives  == \E p \in Procs : PublishLive(p)

\* Only publish takes a sample, and only a live publish numbers one.
LEMMA CallsGain ==
  ASSUME IInv, Trip, Steadily, [Next]_vars, ~Begins, ~Lives
  PROVE  CallsFewer(call', call)
<1>0. CallsOK(call) /\ PublishersOK(call, Phase, LastOf(g))
  BY TripParts
<1>1. ASSUME UNCHANGED call PROVE CallsFewer(call', call)
  BY <1>1 DEF CallsFewer
<1>2. ASSUME NEW p \in Procs, NEW v, v.pc \notin {"pub", "pubSend"},
             call' = [call EXCEPT ![p] = v]
      PROVE  CallsFewer(call', call)
  <2>1. \A q \in Procs : call'[q] = IF q = p THEN v ELSE call[q]
    BY <1>0, <1>2 DEF CallsOK
  <2> QED BY <1>2, <2>1, Zenon DEF CallsFewer
<1>3. ASSUME NEW p \in Procs, Return(p) PROVE CallsFewer(call', call)
  <2>1. IdleCall.pc \notin {"pub", "pubSend"}
    BY DEF IdleCall
  <2> QED BY <1>2, <1>3, <2>1 DEF Return
<1>4. ASSUME NEW p \in Procs, NewCall(p) PROVE CallsFewer(call', call)
  <2>1. ~(StartTrack(p) \/ StopTrack(p) \/ ManualResume(p) \/ CloseBegin(p))
    BY Zenon DEF Steadily, Steady, StartTrack, StopTrack, ManualResume, CloseBegin, Begin
  <2>2. SendEvent(p)
    BY <1>4, <2>1, Zenon DEF NewCall, Begins
  <2>3. PICK v : v.pc = "eventSend" /\ call' = [call EXCEPT ![p] = v]
    BY <1>0, <2>2, PublisherBegins DEF SendEvent
  <2> QED BY <1>2, <2>3
<1>5. ASSUME NEW p \in Procs, CallStep(p) PROVE CallsFewer(call', call)
  <2>1. CASE PublishStart(p)
    <3>1. Return(p) \/ Goto(p, "pubStartFailed")
      BY <2>1, Zenon DEF PublishStart
    <3> DEFINE v == [call[p] EXCEPT !.pc = "pubStartFailed"]
    <3>2. v.pc = "pubStartFailed"
      BY <1>0, CallParts, Zenon DEF Call
    <3>3. Goto(p, "pubStartFailed") => call' = [call EXCEPT ![p] = v]
      BY Zenon DEF Goto
    <3> HIDE DEF v
    <3> QED BY <1>2, <1>3, <3>1, <3>2, <3>3
  <2>2. CASE PublishStartFailed(p) \/ PublishStage(p) \/ PublishSend(p) \/ EventSend(p)
    <3>1. Return(p)
      BY <2>2, Zenon DEF PublishStartFailed, PublishStage, PublishSend, EventSend
    <3> QED BY <1>3, <3>1
  <2>3. call[p].pc \in TripPc
    BY <1>0 DEF PublishersOK, PublisherOK
  <2>4. ~(\/ StartSend(p) \/ StartFailed(p) \/ StopRegister(p) \/ StopSend(p) \/ StopFailed(p)
          \/ CallReturns(p) \/ ManualRegister(p) \/ ManualSend(p) \/ ManualFailed(p)
          \/ ManualReturns(p) \/ CloseSend(p) \/ Close(p))
    BY <2>3 DEF TripPc, Starters, StartSend, StartFailed, StopRegister, StopSend, StopFailed,
       CallReturns, ManualRegister, ManualSend, ManualFailed, ManualReturns, CloseSend, Close
  <2> QED BY <1>5, <2>1, <2>2, <2>4, Zenon DEF CallStep, Lives
<1>6. (\A p, r : TellCall(call, p, r) = call) /\ (\A r : AnsweredCalls(r) = call)
  BY <1>0, NobodyWaits
<1>7. ASSUME NEW d \in Drivers, DriverStep(d) PROVE UNCHANGED call
  BY <1>6, <1>7, Zenon DEF DriverStep, SocketClosed, Wake, HandleRelocate, GiveUpAuth, RefreshOk,
     RefreshErr, Dial, DialHello, DialRelocated, DialFails, Install, ResumeRegister, ResumeSend,
     ResumeReturns, ResumeRetry, ReconnectFailed, RejectedCalls
<1>8. ASSUME NEW s \in Gens, ReaderStep(s) PROVE UNCHANGED call
  <2>1. UNCHANGED call \/ (\E p, r : call' = TellCall(call, p, r)) \/ \E r : call' = AnsweredCalls(r)
    <3>1. CASE FlushQueue(s) \/ SendFrame(s)
      BY <3>1, Zenon DEF FlushQueue, SendFrame, Wakeup
    <3>2. CASE ~(FlushQueue(s) \/ SendFrame(s))
      BY <1>8, <3>2, Zenon DEF ReaderStep, OnResumeOk, OnTrackStarted, OnTrackStopped, OnAck,
         OnError, OnRelocate, ReaderEnds
    <3> QED BY <3>1, <3>2
  <2> QED BY <1>6, <2>1, Zenon
<1>9. ASSUME NEW s \in Gens, ServerStep(s) \/ Environment(s) PROVE UNCHANGED call
  BY <1>9 DEF ServerStep, Environment, ServerStarts, ServerRefusesStart, ServerResumes,
     ServerDefersResume, ServerTakesLoc, ServerTakesEvent, ServerStops, ServerCloses,
     ServerRelocates, ServerRejectsAuth, Drop, Quiet
<1>10. ~ServerForgets
  BY DEF Steadily, Steady, ServerForgets
<1>11. UNCHANGED vars => UNCHANGED call
  BY DEF vars
<1> QED BY <1>1, <1>4, <1>5, <1>7, <1>8, <1>9, <1>10, <1>11, Zenon DEF Next

\* Only flush_queue begins a round.
LEMMA RoundsStep ==
  ASSUME IInv, [Next]_vars, \A s \in Gens : ~FlushQueue(s)
  PROVE  InRounds(reader') \subseteq InRounds(reader)
<1>0. ReadersOK(reader)
  BY DEF IInv
<1>1. ASSUME NEW s, NEW v, s \in Gens => v.out = reader[s].out, reader' = [reader EXCEPT ![s] = v]
      PROVE  InRounds(reader') \subseteq InRounds(reader)
  <2>1. s \in Gens => Numbered(v.out) \subseteq Numbered(reader[s].out) \cup {}
    BY <1>1, Zenon
  <2>2. InRounds([reader EXCEPT ![s] = v]) \subseteq InRounds(reader) \cup {}
    BY <1>0, <2>1, RoundsGain
  <2> QED BY <1>1, <2>2, Zenon
<1>2. ASSUME NEW s \in Gens, NEW n, FlushThen(s, n) PROVE InRounds(reader') \subseteq InRounds(reader)
  <2> DEFINE v == [reader[s] EXCEPT !.pc = "flush", !.wake = n]
  <2>1. v.out = reader[s].out
    BY <1>0, ReaderParts, Zenon DEF Reader
  <2>2. reader' = [reader EXCEPT ![s] = v]
    BY <1>2, Zenon DEF FlushThen
  <2> HIDE DEF v
  <2> QED BY <1>1, <2>1, <2>2, Zenon
<1>3. ASSUME NEW n, Unheard(n) PROVE InRounds(reader') \subseteq InRounds(reader)
  <2> DEFINE v(s) == [reader[s] EXCEPT !.wake = NoOne]
             h(s) == IF reader[s].wake = n THEN v(s) ELSE reader[s]
  <2>1. reader' = [s \in Gens |-> h(s)]
    BY <1>3, Zenon DEF Unheard
  <2>2. ASSUME NEW s \in Gens PROVE h(s).out = reader[s].out
    <3>1. v(s).out = reader[s].out
      BY <1>0, ReaderParts, Zenon DEF Reader
    <3> HIDE DEF v
    <3> QED BY <3>1
  <2> HIDE DEF h
  <2>3. \A s \in Gens : reader'[s].out = reader[s].out
    BY <2>1, <2>2
  <2> QED BY <2>3, Zenon DEF InRounds
<1>4. ASSUME UNCHANGED reader PROVE InRounds(reader') \subseteq InRounds(reader)
  BY <1>4
<1>5. ASSUME NEW s \in Gens, SendFrame(s) PROVE InRounds(reader') \subseteq InRounds(reader)
  <2> DEFINE rest == Tail(reader[s].out)
             pc   == IF rest = <<>> THEN "flush" ELSE "send"
             v    == [reader[s] EXCEPT !.out = rest, !.pc = pc]
             w    == [pc |-> "read", out |-> <<>>, wake |-> NoOne]
  <2>1. reader' = [reader EXCEPT ![s] = v] \/ reader' = [reader EXCEPT ![s] = w]
    BY <1>5, Zenon DEF SendFrame, Wakeup
  <2>2. reader[s].out \in Seq(Frame) /\ reader[s].out # <<>> /\ reader[s] \in Reader
    BY <1>0, <1>5, ReaderParts DEF ReadersOK, SendFrame
  <2>3. Numbered(rest) \subseteq Numbered(reader[s].out) /\ Numbered(<<>>) = {}
    BY <2>2, NumberedQueue
  <2> HIDE DEF rest
  <2>4. v.out = rest /\ w.out = <<>>
    BY <2>2, Zenon DEF Reader
  <2> HIDE DEF v, w
  <2>5. /\ Numbered(v.out) \subseteq Numbered(reader[s].out) \cup {}
        /\ Numbered(w.out) \subseteq Numbered(reader[s].out) \cup {}
    BY <2>3, <2>4, Zenon
  <2>6. /\ InRounds([reader EXCEPT ![s] = v]) \subseteq InRounds(reader) \cup {}
        /\ InRounds([reader EXCEPT ![s] = w]) \subseteq InRounds(reader) \cup {}
    BY <1>0, <2>5, RoundsGain
  <2> QED BY <2>1, <2>6, Zenon
<1>6. ASSUME NEW s, NEW x, reader' = [reader EXCEPT ![s].pc = x]
      PROVE  InRounds(reader') \subseteq InRounds(reader)
  <2> DEFINE v == [reader[s] EXCEPT !.pc = x]
  <2>1. s \in Gens => v.out = reader[s].out
    BY <1>0, ReaderParts, Zenon DEF Reader
  <2>2. reader' = [reader EXCEPT ![s] = v]
    BY <1>6, Zenon
  <2> HIDE DEF v
  <2> QED BY <1>1, <2>1, <2>2, Zenon
<1>7. ASSUME NEW s \in Gens, ReaderStep(s)
      PROVE  \/ UNCHANGED reader \/ (\E n : FlushThen(s, n)) \/ SendFrame(s)
             \/ \E x : reader' = [reader EXCEPT ![s].pc = x]
  BY <1>7, Zenon DEF ReaderStep, OnResumeOk, OnTrackStarted, OnTrackStopped, OnAck, OnError,
     OnRelocate, ReaderEnds
<1>8. ASSUME NEW d \in Drivers, DriverStep(d)
      PROVE  \/ UNCHANGED reader \/ Unheard(d)
             \/ \E s, x : reader' = [reader EXCEPT ![s].pc = x]
  BY <1>8, Zenon DEF DriverStep, SocketClosed, Wake, HandleRelocate, GiveUpAuth, RefreshOk,
     RefreshErr, Dial, DialHello, DialRelocated, DialFails, Install, ResumeRegister, ResumeSend,
     ResumeReturns, ResumeRetry, ReconnectFailed
<1>9. ASSUME NEW p \in Procs, NewCall(p) \/ CallStep(p)
      PROVE  UNCHANGED reader \/ Unheard(p)
  BY <1>9, Zenon DEF NewCall, CallStep, PublishBegin, StartTrack, StopTrack, ManualResume, SendEvent,
     CloseBegin, PublishStart, PublishStartFailed, PublishStage, PublishLive, PublishSend,
     StartSend, StartFailed, StopRegister, StopSend, StopFailed, CallReturns, ManualRegister,
     ManualSend, ManualFailed, ManualReturns, EventSend, CloseSend, Close
<1>10. ASSUME NEW s \in Gens, ServerStep(s) \/ Environment(s) PROVE UNCHANGED reader
  BY <1>10 DEF ServerStep, Environment, ServerStarts, ServerRefusesStart, ServerResumes,
     ServerDefersResume, ServerTakesLoc, ServerTakesEvent, ServerStops, ServerCloses,
     ServerRelocates, ServerRejectsAuth, Drop, Quiet
<1>11. ServerForgets \/ UNCHANGED vars => UNCHANGED reader
  BY DEF ServerForgets, Quiet, vars
<1> QED BY <1>2, <1>3, <1>4, <1>5, <1>6, <1>7, <1>8, <1>9, <1>10, <1>11 DEF Next

\* One message of publish, or one frame of a round.
LEMMA LocCarries ==
  ASSUME NEW seq \in Int, NEW pts \in Seq(Points), NEW f, f.seq = seq, f.pts = pts
  PROVE  Carried(Loc(seq, pts)) = Carried(f)
<1>1. Loc(seq, pts).seq = seq /\ Loc(seq, pts).pts = pts
  BY MsgFields
<1> QED BY <1>1, Zenon DEF Carried

\* Only publish and the frames of a round put points on a socket.
LEMMA LinesStep ==
  ASSUME IInv, Trip, Steadily, [Next]_vars, LastOf(g) < SeqSpace
  PROVE  InLines(wire') \subseteq InLines(wire) \cup InCalls(call) \cup InRounds(reader)
<1> DEFINE Fewer == InLines(wire') \subseteq InLines(wire) \cup InCalls(call) \cup InRounds(reader)
<1>0. /\ WiresOK(wire) /\ CallsOK(call) /\ ReadersOK(reader) /\ LastOf(g) \in Nat
      /\ PublishersOK(call, Phase, LastOf(g)) /\ DialersOK(driver, Phase)
      /\ DriversOK(driver) /\ LinesOK(wire, Phase, LastOf(g)) /\ OneMsg(wire)
  BY TripParts
<1>1. ASSUME UNCHANGED wire PROVE Fewer
  BY <1>1
<1>2. ASSUME NEW s, NEW v, s \in Gens => Numbered(v.c2s) \subseteq Numbered(wire[s].c2s),
             wire' = [wire EXCEPT ![s] = v]
      PROVE  Fewer
  <2>1. s \in Gens => Numbered(v.c2s) \subseteq Numbered(wire[s].c2s) \cup {}
    BY <1>2, Zenon
  <2>2. InLines([wire EXCEPT ![s] = v]) \subseteq InLines(wire) \cup {}
    BY <1>0, <2>1, LinesGain
  <2> QED BY <1>2, <2>2, Zenon
<1>3. ASSUME NEW m \in Msg, Sent(m), Carried(m) \subseteq InCalls(call) \cup InRounds(reader)
      PROVE  Fewer
  <2>1. InLines(wire') \subseteq InLines(wire) \cup Carried(m)
    BY <1>0, <1>3, LinesSent
  <2> QED BY <1>3, <2>1, Zenon
<1>4. ASSUME NEW m \in Msg, Carried(m) \subseteq InCalls(call) \cup InRounds(reader),
             Sent(m) \/ SendFails
      PROVE  Fewer
  BY <1>1, <1>3, <1>4, Zenon DEF SendFails
<1>5. ASSUME NEW p \in Procs, PublishStart(p) \/ EventSend(p) PROVE Fewer
  <2>1. \A t, uid : Carried(M(t)) = {} /\ Carried(Resume(uid)) = {}
    BY NoPoints
  <2>2. /\ \/ Sent(M("TrackStart")) \/ SendFails
           \/ Sent(M("Event"))
        /\ M("TrackStart") \in Msg /\ M("Event") \in Msg
    <3>1. {"TrackStart", "Event"} \subseteq MsgType /\ 0 \in Nat /\ <<>> \in Seq(Points)
      BY DEF MsgType
    <3>2. M("TrackStart") \in Msg /\ M("Event") \in Msg
      BY <3>1, Messages
    <3> QED BY <1>5, <3>2, Zenon DEF PublishStart, EventSend
  <2> QED BY <1>4, <2>1, <2>2, Zenon
<1>6. ASSUME NEW p \in Procs, PublishSend(p) PROVE Fewer
  <2> DEFINE m == Loc(call[p].seq % SeqSpace, <<call[p].pt>>)
  <2>1. call[p].pc = "pubSend" /\ (Sent(m) \/ SendFails)
    BY <1>6, Zenon DEF PublishSend
  <2>2. call[p].seq <= LastOf(g) /\ call[p].seq \in Nat /\ call[p].pt \in Points
    <3>1. call[p].pt \in Points
      BY <1>0, <2>1 DEF CallsOK
    <3> QED BY <1>0, <2>1, <3>1, CallParts DEF PublishersOK, PublisherOK
  <2>3. call[p].seq % SeqSpace = call[p].seq
    <3>1. SeqSpace \in Nat \ {0}
      BY QueueAssumption DEF QueueAssumption
    <3> QED BY <1>0, <2>2, <3>1
  <2>4. m = Loc(call[p].seq, <<call[p].pt>>)
    BY <2>3, Zenon
  <2> HIDE DEF m
  <2>5. m \in Msg
    <3>1. "Loc" \in MsgType /\ 0 \in Nat /\ <<call[p].pt>> \in Seq(Points)
      BY <2>2 DEF MsgType
    <3> QED BY <2>2, <2>4, <3>1, Messages
  <2>6. Carried(m) \subseteq InCalls(call)
    <3>1. m.seq = call[p].seq /\ m.pts = <<call[p].pt>>
      BY <2>4, MsgFields
    <3>2. ASSUME NEW i \in DOMAIN m.pts
          PROVE  m.seq - Len(m.pts) + i = call[p].seq /\ m.pts[i] = call[p].pt
      BY <2>2, <3>1, <3>2
    <3>3. \A i \in DOMAIN m.pts : <<m.seq - Len(m.pts) + i, m.pts[i]>> = <<call[p].seq, call[p].pt>>
      BY <3>2
    <3>4. p \in Senders(call)
      BY <2>1 DEF Senders
    <3> QED BY <3>3, <3>4, Zenon DEF Carried, InCalls
  <2> QED BY <1>4, <2>1, <2>5, <2>6, Zenon
<1>7. ASSUME NEW s \in Gens, SendFrame(s) PROVE Fewer
  <2> DEFINE frame == Head(reader[s].out)
             m     == Loc(frame.seq, frame.pts)
  <2>1. Sent(m) \/ SendFails
    BY <1>7, Zenon DEF SendFrame
  <2>2. reader[s].out \in Seq(Frame) /\ reader[s].out # <<>>
    BY <1>0, <1>7, ReaderParts DEF ReadersOK, SendFrame
  <2>3. frame \in Frame /\ Carried(frame) \subseteq Numbered(reader[s].out)
    <3>1. Carried(frame) \subseteq Numbered(reader[s].out)
      BY <2>2, NumberedQueue
    <3> QED BY <2>2, <3>1
  <2> HIDE DEF frame
  <2>4. frame.seq \in Nat /\ frame.pts \in Seq(Points)
    BY <2>3, Zenon DEF Frame
  <2>5. m \in Msg
    <3>1. "Loc" \in MsgType /\ 0 \in Nat
      BY DEF MsgType
    <3> QED BY <2>4, <3>1, Messages
  <2>6. Carried(m) = Carried(frame)
    <3>1. frame.seq \in Int
      BY <2>4
    <3> QED BY <2>4, <3>1, LocCarries
  <2>7. Carried(m) \subseteq InRounds(reader)
    BY <2>3, <2>6, Zenon DEF InRounds
  <2> HIDE DEF m
  <2> QED BY <1>4, <2>1, <2>5, <2>7, Zenon
<1>8. ASSUME NEW d \in Drivers, DriverStep(d) PROVE Fewer
  <2>1. driver[d].pc # "auth" /\ driver[d].uid \in Nat
    BY <1>0, DriverParts DEF DialersOK, DialerOK
  <2>2. \/ UNCHANGED wire \/ (Sent(Resume(driver[d].uid)) \/ SendFails)
        \/ wire' = [wire EXCEPT ![driver[d].gen].up = TRUE]
        \/ wire' = [wire EXCEPT ![driver[d].gen] = ClosedWire]
    BY <1>8, <2>1, Zenon DEF DriverStep, SocketClosed, Wake, HandleRelocate, GiveUpAuth, RefreshOk,
       RefreshErr, Dial, DialHello, DialRelocated, DialFails, Install, ResumeRegister, ResumeSend,
       ResumeReturns, ResumeRetry, ReconnectFailed
  <2>3. CASE Sent(Resume(driver[d].uid)) \/ SendFails
    <3>1. Resume(driver[d].uid) \in Msg
      <4>1. "Resume" \in MsgType /\ 0 \in Nat /\ <<>> \in Seq(Points)
        BY DEF MsgType
      <4> QED BY <2>1, <4>1, Messages
    <3>2. Carried(Resume(driver[d].uid)) = {}
      BY NoPoints
    <3> QED BY <1>4, <2>3, <3>1, <3>2, Zenon
  <2>4. CASE wire' = [wire EXCEPT ![driver[d].gen].up = TRUE]
    <3> DEFINE r == driver[d].gen
               v == [wire[r] EXCEPT !.up = TRUE]
    <3>1. r \in Gens => v.c2s = wire[r].c2s
      BY <1>0, WireParts, Zenon DEF Wire
    <3>2. wire' = [wire EXCEPT ![r] = v]
      BY <2>4, Zenon
    <3> HIDE DEF v, r
    <3> QED BY <1>2, <3>1, <3>2, Zenon
  <2>5. CASE wire' = [wire EXCEPT ![driver[d].gen] = ClosedWire]
    <3>1. ClosedWire.c2s = <<>>
      BY DEF ClosedWire
    <3>2. Numbered(<<>>) = {}
      BY EmptySeq, NumberedQueue
    <3> QED BY <1>2, <2>5, <3>1, <3>2, Zenon
  <2> QED BY <1>1, <2>2, <2>3, <2>4, <2>5
<1>9. ASSUME NEW s \in Gens, ReaderStep(s), ~SendFrame(s) PROVE Fewer
  <2>1. UNCHANGED wire \/ Consume(s)
    BY <1>9, Zenon DEF ReaderStep, OnResumeOk, OnTrackStarted, OnTrackStopped, OnAck, OnError,
       OnRelocate, FlushQueue, ReaderEnds
  <2> DEFINE b == Tail(wire[s].s2c)
             v == [wire[s] EXCEPT !.s2c = b]
  <2>2. Consume(s) => wire' = [wire EXCEPT ![s] = v]
    BY Zenon DEF Consume
  <2> HIDE DEF b
  <2>3. v.c2s = wire[s].c2s
    BY <1>0, WireParts, Zenon DEF Wire
  <2> HIDE DEF v
  <2> QED BY <1>1, <1>2, <2>1, <2>2, <2>3, Zenon
<1>10. ASSUME NEW p \in Procs, NewCall(p) \/ CallStep(p),
              ~(PublishStart(p) \/ EventSend(p) \/ PublishSend(p))
       PROVE  Fewer
  <2>1. call[p].pc \in TripPc
    BY <1>0 DEF PublishersOK, PublisherOK
  <2>2. ~(\/ StartSend(p) \/ StartFailed(p) \/ StopRegister(p) \/ StopSend(p) \/ StopFailed(p)
          \/ CallReturns(p) \/ ManualRegister(p) \/ ManualSend(p) \/ ManualFailed(p)
          \/ ManualReturns(p) \/ CloseSend(p) \/ Close(p))
    BY <2>1 DEF TripPc, Starters, StartSend, StartFailed, StopRegister, StopSend, StopFailed,
       CallReturns, ManualRegister, ManualSend, ManualFailed, ManualReturns, CloseSend, Close
  <2>3. UNCHANGED wire
    BY <1>10, <2>2, Zenon DEF NewCall, CallStep, PublishBegin, StartTrack, StopTrack, ManualResume,
       SendEvent, CloseBegin, PublishStartFailed, PublishStage, PublishLive
  <2> QED BY <1>1, <2>3
<1>11. ASSUME NEW s \in Gens, ServerStep(s) \/ Environment(s) PROVE Fewer
  <2>0. wire[s] \in Wire /\ wire[s].c2s \in Seq(Msg)
    BY <1>0, WireParts
  <2> DEFINE a == Tail(wire[s].c2s)
  <2>1. ASSUME \E t : Receiving(s, t), NEW v, v.c2s = a, wire' = [wire EXCEPT ![s] = v]
        PROVE  Fewer
    <3>1. wire[s].c2s # <<>>
      BY <2>1 DEF Receiving
    <3>2. Numbered(a) \subseteq Numbered(wire[s].c2s)
      BY <2>0, <3>1, NumberedQueue
    <3> HIDE DEF a
    <3> QED BY <1>2, <2>1, <3>2, Zenon
  <2>2. ASSUME NEW m, \E t : Receiving(s, t),
               wire' = Reply(s, m) \/ (\E b : wire' = [Reply(s, m) EXCEPT ![s].bound = b])
        PROVE  Fewer
    <3> DEFINE h    == Append(wire[s].s2c, m)
               v    == [wire[s] EXCEPT !.c2s = a, !.s2c = h]
               u(b) == [v EXCEPT !.bound = b]
    <3>1. Reply(s, m) = [wire EXCEPT ![s] = v]
      BY Zenon DEF Reply
    <3> HIDE DEF a, h
    <3>2. v.c2s = a /\ \A b : u(b).c2s = a
      BY <2>0, Zenon DEF Wire
    <3> HIDE DEF v
    <3>3. \A b : [[wire EXCEPT ![s] = v] EXCEPT ![s].bound = b] = [wire EXCEPT ![s] = u(b)]
      BY <1>0, Zenon DEF WiresOK
    <3> HIDE DEF u
    <3>4. CASE wire' = Reply(s, m)
      <4>1. wire' = [wire EXCEPT ![s] = v]
        BY <3>1, <3>4
      <4> QED BY <2>1, <2>2, <3>2, <4>1
    <3>5. ASSUME NEW b, wire' = [Reply(s, m) EXCEPT ![s].bound = b] PROVE Fewer
      <4>1. wire' = [[wire EXCEPT ![s] = v] EXCEPT ![s].bound = b]
        BY <3>1, <3>5, Zenon
      <4>2. wire' = [wire EXCEPT ![s] = u(b)] /\ u(b).c2s = a
        BY <3>2, <3>3, <4>1, Zenon
      <4> QED BY <2>1, <2>2, <4>2
    <3> QED BY <2>2, <3>4, <3>5
  <2>3. CASE (\E t : Receiving(s, t)) /\ wire' = NoReply(s)
    <3> DEFINE v == [wire[s] EXCEPT !.c2s = a]
    <3>1. NoReply(s) = [wire EXCEPT ![s] = v]
      BY Zenon DEF NoReply
    <3> HIDE DEF a
    <3>2. v.c2s = a
      BY <2>0, Zenon DEF Wire
    <3> HIDE DEF v
    <3> QED BY <2>1, <2>3, <3>1, <3>2, Zenon
  <2>4. CASE ServerCloses(s)
    <3> DEFINE v == [wire[s] EXCEPT !.up = FALSE, !.c2s = <<>>, !.bound = None]
    <3>1. wire' = [wire EXCEPT ![s] = v]
      BY <2>4, Zenon DEF ServerCloses
    <3>2. v.c2s = <<>>
      BY <2>0, Zenon DEF Wire
    <3> HIDE DEF v
    <3>3. Numbered(<<>>) = {}
      BY EmptySeq, NumberedQueue
    <3> QED BY <1>2, <3>1, <3>2, <3>3, Zenon
  <2>5. CASE ServerRelocates(s) \/ ServerRejectsAuth(s)
    <3>1. PICK m : wire' = [wire EXCEPT ![s].s2c = Append(@, M(m))]
      BY <2>5, Zenon DEF ServerRelocates, ServerRejectsAuth
    <3> DEFINE h == Append(wire[s].s2c, M(m))
               v == [wire[s] EXCEPT !.s2c = h]
    <3>2. wire' = [wire EXCEPT ![s] = v]
      BY <3>1, Zenon
    <3> HIDE DEF h
    <3>3. v.c2s = wire[s].c2s
      BY <2>0, Zenon DEF Wire
    <3> HIDE DEF v
    <3> QED BY <1>2, <3>2, <3>3, Zenon
  <2>6. CASE Drop(s)
    <3>1. wire' = [wire EXCEPT ![s] = ClosedWire] /\ ClosedWire.c2s = <<>>
      BY <2>6 DEF Drop, ClosedWire
    <3>2. Numbered(<<>>) = {}
      BY EmptySeq, NumberedQueue
    <3> QED BY <1>2, <3>1, <3>2, Zenon
  <2> HIDE DEF a
  <2>7. CASE \/ ServerStarts(s) \/ ServerRefusesStart(s) \/ ServerResumes(s)
             \/ ServerDefersResume(s) \/ ServerTakesLoc(s) \/ ServerTakesEvent(s)
             \/ ServerStops(s)
    <3>1. \E t : Receiving(s, t)
      BY <2>7, Zenon DEF ServerStarts, ServerRefusesStart, ServerResumes, ServerDefersResume,
         ServerTakesLoc, ServerTakesEvent, ServerStops
    <3>2. \/ wire' = NoReply(s)
          \/ \E m : \/ wire' = Reply(s, m)
                    \/ \E b : wire' = [Reply(s, m) EXCEPT ![s].bound = b]
      BY <2>7, Zenon DEF ServerStarts, ServerRefusesStart, ServerResumes, ServerDefersResume,
         ServerTakesLoc, ServerTakesEvent, ServerStops
    <3> QED BY <2>2, <2>3, <3>1, <3>2, Zenon
  <2> QED BY <1>11, <2>4, <2>5, <2>6, <2>7 DEF ServerStep, Environment
<1>12. ~ServerForgets
  BY DEF Steadily, Steady, ServerForgets
<1>13. UNCHANGED vars => UNCHANGED wire
  BY DEF vars
<1> HIDE DEF Fewer
<1>14. Fewer
  BY <1>1, <1>5, <1>6, <1>7, <1>8, <1>9, <1>10, <1>11, <1>12, <1>13, Zenon DEF Next
<1> QED BY <1>14 DEF Fewer

\* The server stores what the frame it takes carries.
LEMMA StoreStep ==
  ASSUME IInv, [Next]_vars
  PROVE  InStore(srv'.got) \subseteq InStore(srv.got) \cup InLines(wire)
<1>0. srv \in Server /\ WiresOK(wire)
  BY DEF IInv, ServerOK
<1>1. ASSUME srv'.got = srv.got PROVE InStore(srv'.got) \subseteq InStore(srv.got) \cup InLines(wire)
  BY <1>1, Zenon
<1>2. ASSUME NEW s \in Gens, ServerTakesLoc(s)
      PROVE  InStore(srv'.got) \subseteq InStore(srv.got) \cup InLines(wire)
  <2> DEFINE m == Head(wire[s].c2s)
             n == Len(m.pts)
             b == wire[s].bound
             new == {<<b, m.seq - n + k, m.pts[k]>> : k \in 1 .. n}
             all == srv.got \cup new
  <2>1. wire[s].c2s \in Seq(Msg) /\ wire[s].c2s # <<>>
    BY <1>0, <1>2, WireParts DEF ServerTakesLoc, Receiving
  <2>2. m \in Msg /\ Carried(m) \subseteq Numbered(wire[s].c2s)
    <3>1. Carried(m) \subseteq Numbered(wire[s].c2s)
      BY <2>1, NumberedQueue
    <3> QED BY <2>1, <3>1
  <2>3. UNCHANGED srv \/ \E a : srv' = [srv EXCEPT !.acked = a, !.got = all]
    BY <1>2, Zenon DEF ServerTakesLoc
  <2>4. DOMAIN m.pts = 1 .. n
    BY <2>2, MsgParts
  <2>5. \A x \in new : <<x[2], x[3]>> \in Carried(m)
    <3> HIDE DEF m
    <3>1. ASSUME NEW k \in 1 .. n, NEW x, x = <<b, m.seq - n + k, m.pts[k]>>
          PROVE  <<x[2], x[3]>> \in Carried(m)
      <4>1. x[2] = m.seq - n + k /\ x[3] = m.pts[k]
        BY <3>1
      <4>2. <<m.seq - Len(m.pts) + k, m.pts[k]>> \in Carried(m)
        BY <2>4, Zenon DEF Carried
      <4> QED BY <4>1, <4>2, Zenon
    <3> QED BY <3>1, Zenon
  <2> HIDE DEF new, m
  <2>6. InStore(all) \subseteq InStore(srv.got) \cup InLines(wire)
    <3>1. ASSUME NEW x \in all PROVE <<x[2], x[3]>> \in InStore(srv.got) \cup InLines(wire)
      <4>1. CASE x \in srv.got
        BY <4>1, Zenon DEF InStore
      <4>2. CASE x \in new
        <5>1. <<x[2], x[3]>> \in Numbered(wire[s].c2s)
          BY <2>2, <2>5, <4>2, Zenon
        <5> QED BY <5>1, Zenon DEF InLines
      <4> QED BY <3>1, <4>1, <4>2
    <3> HIDE DEF all
    <3> QED BY <3>1, Zenon DEF InStore
  <2> HIDE DEF all
  <2>7. srv'.got \in {srv.got, all}
    BY <1>0, <2>3, Zenon DEF Server
  <2> QED BY <2>6, <2>7, Zenon
<1>3. ASSUME NEW s \in Gens, ServerStarts(s) \/ ServerStops(s) PROVE srv'.got = srv.got
  <2>1. CASE ServerStarts(s)
    <3> DEFINE n == srv.next + 1
    <3>1. srv' = [srv EXCEPT !.live = srv.next, !.next = n, !.acked = 0]
      BY <2>1, Zenon DEF ServerStarts
    <3> HIDE DEF n
    <3> QED BY <1>0, <3>1, Zenon DEF Server
  <2>2. CASE ServerStops(s)
    <3>1. UNCHANGED srv \/ \E a : srv' = [srv EXCEPT !.live = a]
      BY <2>2, Zenon DEF ServerStops
    <3> QED BY <1>0, <3>1, Zenon DEF Server
  <2> QED BY <1>3, <2>1, <2>2
<1>4. ASSUME ServerForgets PROVE srv'.got = srv.got
  <2>1. srv' = [srv EXCEPT !.live = None]
    BY <1>4, Zenon DEF ServerForgets
  <2> QED BY <1>0, <2>1, Zenon DEF Server
<1>5. ASSUME NEW s \in Gens,
             \/ ServerRefusesStart(s) \/ ServerResumes(s) \/ ServerDefersResume(s)
             \/ ServerTakesEvent(s) \/ ServerCloses(s) \/ Environment(s)
      PROVE  UNCHANGED srv
  BY <1>5 DEF ServerRefusesStart, ServerResumes, ServerDefersResume, ServerTakesEvent,
     ServerCloses, Environment, ServerRelocates, ServerRejectsAuth, Drop
<1>6. ASSUME NEW s \in Gens, ReaderStep(s) PROVE UNCHANGED srv
  BY <1>6 DEF ReaderStep, OnResumeOk, OnTrackStarted, OnTrackStopped, OnAck, OnError, OnRelocate,
     FlushQueue, SendFrame, ReaderEnds
<1>7. ASSUME NEW d \in Drivers, DriverStep(d) PROVE UNCHANGED srv
  BY <1>7 DEF DriverStep, SocketClosed, Wake, HandleRelocate, GiveUpAuth, RefreshOk, RefreshErr,
     Dial, DialHello, DialRelocated, DialFails, Install, ResumeRegister, ResumeSend,
     ResumeReturns, ResumeRetry, ReconnectFailed
<1>8. ASSUME NEW p \in Procs, NewCall(p) PROVE UNCHANGED srv
  BY <1>8 DEF NewCall, PublishBegin, StartTrack, StopTrack, ManualResume, SendEvent, CloseBegin
<1>9. ASSUME NEW p \in Procs, CallStep(p) PROVE UNCHANGED srv
  BY <1>9 DEF CallStep, PublishStart, PublishStartFailed, PublishStage, PublishLive,
     PublishSend, StartSend, StartFailed, StopRegister, StopSend, StopFailed, CallReturns,
     ManualRegister, ManualSend, ManualFailed, ManualReturns, EventSend, CloseSend, Close
<1>10. UNCHANGED vars => UNCHANGED srv
  BY DEF vars
<1> QED BY <1>1, <1>2, <1>3, <1>4, <1>5, <1>6, <1>7, <1>8, <1>9, <1>10, Zenon
        DEF Next, ServerStep

-----------------------------------------------------------------------------
(* The names.                                                                *)

\* What the session, the calls, the sockets and the server say of points.
NameInv == NamesOK(Names, g.queue.staging, call, LastOf(g), left["publish"])

\* What a step leaves of the names, but for those in the session and of a round.
Rest == InCalls(call) \cup InRounds(reader) \cup InLines(wire) \cup InStore(srv.got)

\* The parts of the names.
LEMMA NameParts ==
  ASSUME IInv, Trip
  PROVE  /\ g.queue \in Queue /\ g.queue.staging \in Seq(Points) /\ LastOf(g) \in Nat
         /\ LastOf(g) \in Int /\ CallsOK(call) /\ left["publish"] \in Nat /\ left["publish"] \in Int
         /\ \A p \in Holders(call) \cup Senders(call) : call[p].pt \in Points
         /\ Names = Pairs(g.queue.inflight) \cup Rest
<1>1. InnerOK(g) /\ CallsOK(call) /\ LeftOK(left) /\ LastOf(g) \in Nat
  BY TripParts
<1>2. g.queue \in Queue /\ g.queue.staging \in Seq(Points)
  BY <1>1, InnerParts, QueueParts
<1>3. left["publish"] \in Nat
  <2>1. "publish" \in Acts
    BY DEF Acts
  <2> QED BY <1>1, <2>1 DEF LeftOK
<1>4. \A p \in Holders(call) \cup Senders(call) : call[p].pt \in Points
  BY <1>1, HeldPoints
<1>5. Names = Pairs(g.queue.inflight) \cup Rest
  BY Zenon DEF Names, Rest
<1> QED BY <1>1, <1>2, <1>3, <1>4, <1>5

\* Calls, rounds, sockets and the server after a step that is neither a live
\* publish nor a round that begins.
LEMMA RestFewer ==
  ASSUME IInv, Trip, Steadily, [Next]_vars, LastOf(g) < SeqSpace
  PROVE  /\ InLines(wire') \cup InStore(srv'.got) \subseteq Rest
         /\ (\A s \in Gens : ~FlushQueue(s)) => InRounds(reader') \subseteq Rest
         /\ CallsFewer(call', call) => InCalls(call') \subseteq Rest
<1>1. InLines(wire') \cup InStore(srv'.got) \subseteq Rest
  BY LinesStep, StoreStep, Zenon DEF Rest
<1>2. ASSUME \A s \in Gens : ~FlushQueue(s) PROVE InRounds(reader') \subseteq Rest
  BY <1>2, RoundsStep, Zenon DEF Rest
<1>3. ASSUME CallsFewer(call', call) PROVE InCalls(call') \subseteq Rest
  <2>1. InCalls(call') \subseteq InCalls(call)
    BY <1>3, Zenon DEF CallsFewer, InCalls, Senders
  <2> QED BY <2>1, Zenon DEF Rest
<1> QED BY <1>1, <1>2, <1>3, Zenon

\* A step that gives out no number and stages nothing.
LEMMA NamesStay ==
  ASSUME IInv, Trip, Steadily, [Next]_vars, LastOf(g) < SeqSpace, NameInv,
         IInv', LastOf(g) <= LastOf(g'), left'["publish"] <= left["publish"],
         ~Moving, ~Begins
  PROVE  NameInv'
<1>1. /\ QueueFewer(g'.queue, g.queue) /\ CallsFewer(call', call)
      /\ \A s \in Gens : ~FlushQueue(s)
  <2>1. ~Lives
    BY Zenon DEF Moving, Gains, Lives
  <2>2. QueueFewer(g'.queue, g.queue)
    BY SessionKeeps, Zenon
  <2>3. CallsFewer(call', call)
    BY <2>1, CallsGain
  <2> QED BY <2>2, <2>3, Zenon DEF Moving
<1>2. Names' \in SUBSET Names
  <2>1. Pairs(g'.queue.inflight) \subseteq Pairs(g.queue.inflight)
    BY <1>1, Zenon DEF QueueFewer
  <2>2. /\ InLines(wire') \cup InStore(srv'.got) \subseteq Rest
        /\ InRounds(reader') \subseteq Rest /\ InCalls(call') \subseteq Rest
    BY <1>1, RestFewer, Zenon
  <2>3. Names' = Pairs(g'.queue.inflight) \cup InCalls(call') \cup InRounds(reader')
                   \cup InLines(wire') \cup InStore(srv'.got)
    BY Zenon DEF Names
  <2>4. Rest \subseteq Names
    BY NameParts, Zenon
  <2>5. Pairs(g.queue.inflight) \subseteq Names
    BY Zenon DEF Names
  <2> QED BY <2>1, <2>2, <2>3, <2>4, <2>5
<1>3. StagedFewer(g'.queue.staging, g.queue.staging)
  <2>1. Distinct(g.queue.staging)
    BY Zenon DEF NameInv, NamesOK, Waiting
  <2> QED BY <1>1, <2>1, NameParts, StagedRest, Zenon DEF QueueFewer
<1>4. LastOf(g') \in Int /\ left'["publish"] \in Int
  <2>1. g'.last_assigned_seq \in Nat /\ left' \in [Acts -> Nat] /\ "publish" \in Acts
    BY InnerParts DEF IInv, LeftOK, Acts
  <2> QED BY <2>1 DEF LastOf
<1>5. NamesOK(Names', g'.queue.staging, call', LastOf(g'), left'["publish"])
  <2>1. /\ NamesOK(Names, g.queue.staging, call, LastOf(g), left["publish"])
        /\ g.queue.staging \in Seq(Points) /\ LastOf(g) \in Int /\ left["publish"] \in Int
        /\ \A p \in Holders(call) : call[p].pt \in Points
    BY NameParts, Zenon DEF NameInv
  <2>2. HeldFewer(call', call)
    BY <1>1, Zenon DEF CallsFewer, HeldFewer
  <2> QED BY <1>1, <1>2, <1>3, <1>4, <2>1, <2>2, NamesFewer
<1> QED BY <1>5, Zenon DEF NameInv, LastOf

\* Fewer names.
LEMMA NamesWithin ==
  ASSUME NEW N, NEW N2 \in SUBSET N, NEW s, NEW c, NEW a, NEW f, NamesOK(N, s, c, a, f)
  PROVE  NamesOK(N2, s, c, a, f)
BY Zenon DEF NamesOK, OneName, GivenOut, KeptApart

\* publish takes the next sample.
LEMMA NamesAtBegin ==
  ASSUME IInv, Trip, Steadily, LastOf(g) < SeqSpace, NameInv, IInv',
         NEW p \in Procs, PublishBegin(p)
  PROVE  NameInv'
<1> DEFINE f == left["publish"]
<1>0. /\ CallsOK(call) /\ LeftOK(left) /\ CallsOK(call') /\ LastOf(g') \in Int
  <2>1. g'.last_assigned_seq \in Nat
    BY InnerParts DEF IInv
  <2> QED BY <2>1 DEF IInv, LastOf
<1>1. /\ UNCHANGED <<reader, wire, srv>> /\ call[p].pc = "idle"
      /\ \E pc \in {"pub", "pubStart"} : Begin(p, "publish", pc)
  BY Zenon DEF PublishBegin, Begin
<1>2. PICK pc \in {"pub", "pubStart"} : Begin(p, "publish", pc)
  BY <1>1
<1> DEFINE v == [call[p] EXCEPT !.pc = pc, !.pt = f]
<1>3. call' = [call EXCEPT ![p] = v]
  BY <1>2, Zenon DEF Begin
<1>4. f \in Points /\ left'["publish"] = f - 1
  <2>1. "publish" \in Acts
    BY DEF Acts
  <2>2. left \in [Acts -> Nat] /\ left["publish"] <= Budget["publish"]
    BY <1>0, Zenon DEF LeftOK
  <2>3. left["publish"] > 0 /\ left' = [left EXCEPT !["publish"] = left["publish"] - 1]
    BY <1>2, Zenon DEF Begin, Spend
  <2>4. Budget \in [Acts -> Nat] /\ Points = 1 .. Budget["publish"]
    BY ClientAssumption DEF ClientAssumption
  <2> QED BY <2>1, <2>2, <2>3, <2>4
<1>5. v.pc = pc /\ v.pt = f
  BY <1>0, CallParts, Zenon DEF Call
<1> HIDE DEF v
<1>6. \A q \in Procs : call'[q] = IF q = p THEN v ELSE call[q]
  BY <1>0, <1>3 DEF CallsOK
<1>7. call'[p].pt = f /\ \A q \in Procs \ {p} : call'[q] = call[q]
  BY <1>5, <1>6, Zenon
<1> HIDE DEF f
<1>8. NamesOK(Names, g.queue.staging, call', LastOf(g), f - 1)
  <2>1. /\ NamesOK(Names, g.queue.staging, call, LastOf(g), f) /\ g.queue.staging \in Seq(Points)
        /\ \A q \in Holders(call) : call[q].pt \in Points
    BY NameParts, Zenon DEF NameInv, f
  <2> QED BY <1>4, <1>7, <2>1, NamesBegun
<1>9. Kept(g', g)
  <2>1. ~Gains(p)
    BY <1>1 DEF Gains, PublishStage, PublishLive
  <2> QED BY <2>1, CallsKeep DEF NewCall
<1>10. Names' \in SUBSET Names
  <2>1. InCalls(call') \subseteq InCalls(call)
    <3>1. Senders(call') \subseteq Senders(call) /\ \A q \in Senders(call') : call'[q] = call[q]
      BY <1>2, <1>5, <1>6 DEF Senders
    <3> QED BY <3>1, Zenon DEF InCalls
  <2>2. Pairs(g'.queue.inflight) \subseteq Pairs(g.queue.inflight)
    BY <1>9, Zenon DEF Kept, QueueFewer
  <2>3. Names' = Pairs(g'.queue.inflight) \cup InCalls(call') \cup InRounds(reader')
                   \cup InLines(wire') \cup InStore(srv'.got)
    BY Zenon DEF Names
  <2>4. InRounds(reader') = InRounds(reader) /\ InLines(wire') = InLines(wire)
        /\ InStore(srv'.got) = InStore(srv.got)
    BY <1>1, Zenon
  <2>5. Names = Pairs(g.queue.inflight) \cup InCalls(call) \cup InRounds(reader)
                   \cup InLines(wire) \cup InStore(srv.got)
    BY Zenon DEF Names
  <2> QED BY <2>1, <2>2, <2>3, <2>4, <2>5
<1>11. StagedFewer(g'.queue.staging, g.queue.staging)
  <2>1. Distinct(g.queue.staging)
    BY Zenon DEF NameInv, NamesOK, Waiting
  <2> QED BY <1>9, <2>1, NameParts, StagedRest, Zenon DEF Kept, QueueFewer
<1>12. NamesOK(Names', g'.queue.staging, call', LastOf(g'), f - 1)
  <2>1. HeldFewer(call', call')
    BY DEF HeldFewer
  <2>2. \A q \in Holders(call') : call'[q].pt \in Points
    BY <1>0, HeldPoints
  <2>3. /\ LastOf(g) \in Int /\ g.queue.staging \in Seq(Points) /\ f - 1 \in Int /\ f - 1 <= f - 1
        /\ LastOf(g) <= LastOf(g')
    <3>1. f \in Nat
      BY <1>4, PointsAreNumbers
    <3> QED BY <1>9, <3>1, NameParts DEF Kept
  <2> HIDE DEF f
  <2> QED BY <1>0, <1>8, <1>10, <1>11, <2>1, <2>2, <2>3, NamesFewer
<1> QED BY <1>4, <1>12, Zenon DEF NameInv, LastOf

\* publish stages the sample.
LEMMA NamesAtStage ==
  ASSUME IInv, Trip, NameInv, NEW p \in Procs, PublishStage(p)
  PROVE  NameInv'
<1> DEFINE pt == call[p].pt
           s  == g.queue.staging
           e  == [g.queue EXCEPT !.staging = Append(s, pt)]
<1>0. /\ InnerOK(g) /\ g \in Inner /\ CallsOK(call) /\ g.queue \in Queue /\ s \in Seq(Points)
      /\ LastOf(g) \in Int /\ left["publish"] \in Int
      /\ \A q \in Holders(call) : call[q].pt \in Points
  BY TripParts, NameParts
<1>1. /\ call[p].pc = "pub" /\ Return(p) /\ UNCHANGED <<reader, wire, srv, left>>
      /\ \E q \in EnforceCap(e) : g' = [g EXCEPT !.queue = q]
  BY Zenon DEF PublishStage, PushStaging
<1>2. PICK q \in EnforceCap(e) : g' = [g EXCEPT !.queue = q]
  BY <1>1
<1>3. p \in Holders(call) /\ pt \in Points
  BY <1>0, <1>1 DEF Holders
<1>4. /\ HeldFewer(call', call) /\ p \notin Holders(call')
      /\ InCalls(call') \subseteq InCalls(call)
  <2>1. \A r \in Procs : call'[r] = IF r = p THEN IdleCall ELSE call[r]
    BY <1>0, <1>1 DEF Return, CallsOK
  <2>2. IdleCall.pc \notin {"pub", "pubSend"}
    BY DEF IdleCall
  <2>3. HeldFewer(call', call) /\ p \notin Holders(call')
    BY <2>1, <2>2, Zenon DEF HeldFewer, Holders
  <2>4. Senders(call') \subseteq Senders(call) /\ \A r \in Senders(call') : call'[r] = call[r]
    BY <2>1, <2>2 DEF Senders
  <2> QED BY <2>3, <2>4, Zenon DEF InCalls
<1> DEFINE u == Append(s, pt)
<1>5. e \in Queue /\ e.inflight = g.queue.inflight /\ e.staging = u /\ u \in Seq(Points)
  <2>1. u \in Seq(Points)
    BY <1>0, <1>3
  <2> HIDE DEF u
  <2> QED BY <1>0, <2>1, Zenon DEF Queue, u
<1> HIDE DEF pt, s, e, u
<1>6. NamesOK(Names, u, call', LastOf(g), left["publish"])
  <2>1. NamesOK(Names, s, call, LastOf(g), left["publish"])
    BY Zenon DEF NameInv, s
  <2>2. NamesOK(Names, Append(s, call[p].pt), call', LastOf(g), left["publish"])
    BY <1>0, <1>3, <1>4, <2>1, NamesStaged DEF pt
  <2> QED BY <2>2 DEF u, pt
<1>7. Pairs(q.inflight) \subseteq Pairs(g.queue.inflight) /\ StagedFewer(q.staging, u)
  <2>1. /\ Pairs(q.inflight) \subseteq Pairs(e.inflight)
        /\ \/ q.staging = e.staging
           \/ \E i \in DOMAIN e.staging : q.staging = RemoveIndex(e.staging, i)
    BY <1>5, CapFewer
  <2>2. Distinct(u)
    BY <1>6, Zenon DEF NamesOK, Waiting
  <2>3. StagedFewer(u, u) /\ \A i \in DOMAIN u : StagedFewer(RemoveIndex(u, i), u)
    BY <1>5, <2>2, StagedRest
  <2> QED BY <1>5, <2>1, <2>3, Zenon
<1>8. g'.queue = q /\ LastOf(g') = LastOf(g)
  BY <1>0, <1>2, Zenon DEF Inner, LastOf
<1>9. Names' \in SUBSET Names
  <2>1. Names' = Pairs(g'.queue.inflight) \cup InCalls(call') \cup InRounds(reader')
                   \cup InLines(wire') \cup InStore(srv'.got)
    BY Zenon DEF Names
  <2>2. InRounds(reader') = InRounds(reader) /\ InLines(wire') = InLines(wire)
        /\ InStore(srv'.got) = InStore(srv.got)
    BY <1>1, Zenon
  <2>3. Names = Pairs(g.queue.inflight) \cup InCalls(call) \cup InRounds(reader)
                   \cup InLines(wire) \cup InStore(srv.got)
    BY Zenon DEF Names
  <2> QED BY <1>4, <1>7, <1>8, <2>1, <2>2, <2>3
<1>10. NamesOK(Names', q.staging, call', LastOf(g), left["publish"])
  <2>1. HeldFewer(call', call')
    BY DEF HeldFewer
  <2>2. \A r \in Holders(call') : call'[r].pt \in Points
    BY <1>0, <1>4, Zenon DEF HeldFewer, Holders
  <2>3. LastOf(g) <= LastOf(g) /\ left["publish"] <= left["publish"]
    BY <1>0
  <2> QED BY <1>0, <1>5, <1>6, <1>7, <1>9, <2>1, <2>2, <2>3, NamesFewer
<1>11. left'["publish"] = left["publish"]
  BY <1>1, Zenon
<1> QED BY <1>8, <1>10, <1>11, Zenon DEF NameInv, LastOf

\* A waiting point that is neither staged nor held any more gets a number.
LEMMA HeldGiven ==
  ASSUME NEW N, NEW s \in Seq(Points), NEW c, NEW a \in Int, NEW f \in Int,
         NamesOK(N, s, c, a, f), \A q \in Holders(c) : c[q].pt \in Points,
         NEW p \in Holders(c), NEW t, StagedFewer(t, s),
         NEW d, HeldFewer(d, c), p \notin Holders(d)
  PROVE  NamesOK(N \cup {<<a + 1, c[p].pt>>}, t, d, a + 1, f)
<1> DEFINE x == <<c[p].pt>>
           new == {<<a + i, x[i]>> : i \in DOMAIN x}
<1>1. x \in Seq(Points) /\ DOMAIN x = {1} /\ x[1] = c[p].pt /\ Len(x) = 1
  OBVIOUS
<1> HIDE DEF x
<1>2. Distinct(x)
  BY <1>1, Zenon DEF Distinct
<1>3. Waiting(s, c, f) /\ KeptApart(N, s, c)
  BY Zenon DEF NamesOK
<1>4. x[1] > f /\ \A n \in N : n[2] # x[1]
  BY <1>1, <1>3, Zenon DEF Waiting, KeptApart
<1>5. \A j \in DOMAIN t : t[j] # x[1]
  <2>1. \A i \in DOMAIN s : s[i] # x[1]
    BY <1>1, <1>3, Zenon DEF Waiting
  <2> QED BY <2>1, Zenon DEF StagedFewer
<1>6. \A q \in Holders(d) : d[q].pt # x[1]
  <2>1. \A q \in Holders(d) : q \in Holders(c) /\ q # p /\ d[q] = c[q]
    BY Zenon DEF Holders, HeldFewer
  <2> QED BY <1>1, <1>3, <2>1, Zenon DEF Waiting
<1>7. /\ \A i \in DOMAIN x : x[i] > f /\ \A n \in N : n[2] # x[i]
      /\ \A i \in DOMAIN x : /\ \A j \in DOMAIN t : t[j] # x[i]
                             /\ \A q \in Holders(d) : d[q].pt # x[i]
  BY <1>1, <1>4, <1>5, <1>6, Zenon
<1>8. NamesOK(N \cup new, t, d, a + Len(x), f)
  BY <1>1, <1>2, <1>7, NamesGiven
<1>9. new = {<<a + 1, c[p].pt>>}
  BY <1>1
<1> HIDE DEF new
<1> QED BY <1>1, <1>8, <1>9

\* publish sends the sample at once.
LEMMA NamesAtLive ==
  ASSUME IInv, Trip, NameInv, NEW p \in Procs, PublishLive(p)
  PROVE  NameInv'
<1> DEFINE pt  == call[p].pt
           seq == g.last_assigned_seq + 1
           s   == g.queue.staging
           m   == [seq |-> seq, pt |-> pt, sent |-> TRUE]
           u   == Append(g.queue.inflight, m)
           e   == [g.queue EXCEPT !.inflight = u]
           v   == [call[p] EXCEPT !.pc = "pubSend", !.seq = seq]
           new == {<<seq, pt>>}
<1>0. /\ InnerOK(g) /\ g \in Inner /\ CallsOK(call) /\ g.queue \in Queue /\ s \in Seq(Points)
      /\ LastOf(g) \in Int /\ left["publish"] \in Int /\ g.last_assigned_seq \in Nat
      /\ \A q \in Holders(call) : call[q].pt \in Points
  BY TripParts, NameParts, InnerParts
<1>1. /\ call[p].pc = "pub" /\ UNCHANGED <<reader, wire, srv, left>>
      /\ call' = [call EXCEPT ![p] = v]
      /\ \E q \in EnforceCap(e) :
           g' = [g EXCEPT !.last_assigned_seq = seq, !.queue = RecordFrames(q, <<seq>>)]
  BY Zenon DEF PublishLive, Enqueue
<1>2. PICK q \in EnforceCap(e) :
             g' = [g EXCEPT !.last_assigned_seq = seq, !.queue = RecordFrames(q, <<seq>>)]
  BY <1>1
<1>3. /\ p \in Holders(call) /\ pt \in Points /\ seq \in Nat /\ seq = LastOf(g) + 1
      /\ <<seq>> \in Seq(Nat)
  BY <1>0, <1>1 DEF Holders, LastOf
<1>4. v.pc = "pubSend" /\ v.seq = seq /\ v.pt = pt
  <2> HIDE DEF seq
  <2> QED BY <1>0, CallParts, Zenon DEF Call
<1> HIDE DEF v
<1>5. /\ HeldFewer(call', call) /\ p \notin Holders(call')
      /\ InCalls(call') \subseteq InCalls(call) \cup new
  <2>1. \A r \in Procs : call'[r] = IF r = p THEN v ELSE call[r]
    BY <1>0, <1>1 DEF CallsOK
  <2>2. v.pc # "pub"
    BY <1>4
  <2>3. HeldFewer(call', call) /\ p \notin Holders(call')
    BY <2>1, <2>2, Zenon DEF HeldFewer, Holders
  <2> HIDE DEF seq, pt
  <2>4. \A r \in Senders(call') :
          \/ call'[r].seq = seq /\ call'[r].pt = pt
          \/ r \in Senders(call) /\ call'[r] = call[r]
    BY <1>4, <2>1, Zenon DEF Senders
  <2>5. \A r \in Senders(call') : <<call'[r].seq, call'[r].pt>> \in InCalls(call) \cup new
    BY <2>4, Zenon DEF InCalls
  <2> HIDE DEF new
  <2>6. InCalls(call') \subseteq InCalls(call) \cup new
    BY <2>5, Zenon DEF InCalls
  <2> QED BY <2>3, <2>6
<1>6. m \in QueuedPoint /\ m.seq = seq /\ m.pt = pt
  <2> HIDE DEF seq, pt
  <2> QED BY <1>3 DEF QueuedPoint
<1> HIDE DEF m
<1>7. /\ g.queue.inflight \in Seq(QueuedPoint) /\ u \in Seq(QueuedPoint)
      /\ Pairs(u) \subseteq Pairs(g.queue.inflight) \cup new
  <2>1. g.queue.inflight \in Seq(QueuedPoint)
    BY <1>0, QueueParts
  <2>2. \A i \in DOMAIN u : \/ i \in DOMAIN g.queue.inflight /\ u[i] = g.queue.inflight[i]
                            \/ u[i] = m
    BY <1>6, <2>1
  <2>3. u \in Seq(QueuedPoint)
    BY <1>6, <2>1
  <2> HIDE DEF u, seq, pt
  <2>4. \A i \in DOMAIN u : <<u[i].seq, u[i].pt>> \in Pairs(g.queue.inflight) \cup new
    BY <1>6, <2>2, Zenon DEF Pairs
  <2> HIDE DEF new
  <2>5. Pairs(u) \subseteq Pairs(g.queue.inflight) \cup new
    BY <2>4, Zenon DEF Pairs
  <2> QED BY <2>1, <2>3, <2>5
<1> HIDE DEF u
<1>8. e \in Queue /\ e.inflight = u /\ e.staging = s
  BY <1>0, <1>7, Zenon DEF Queue
<1> HIDE DEF pt, s, e, seq, new
<1>9. q \in Queue
  <2>1. Bounded(g.queue)
    BY <1>0, InnerParts
  <2>2. q \in Enqueue(g.queue, seq, pt)
    BY <1>2, Zenon DEF Enqueue, e, u, m
  <2> QED BY <1>0, <1>3, <2>1, <2>2, EnqueueBounded
<1> DEFINE r == RecordFrames(q, <<seq>>)
<1>10. QueueFewer(r, q)
  BY <1>3, <1>9, RecordedFewer
<1> HIDE DEF r
<1>11. Pairs(r.inflight) \subseteq Pairs(g.queue.inflight) \cup new /\ StagedFewer(r.staging, s)
  <2>1. /\ Pairs(q.inflight) \subseteq Pairs(e.inflight)
        /\ \/ q.staging = e.staging
           \/ \E i \in DOMAIN e.staging : q.staging = RemoveIndex(e.staging, i)
    BY <1>8, CapFewer
  <2>2. Pairs(r.inflight) \subseteq Pairs(q.inflight) /\ r.staging \in {q.staging, <<>>}
    BY <1>10, Zenon DEF QueueFewer
  <2>3. Distinct(s)
    BY Zenon DEF NameInv, NamesOK, Waiting, s
  <2>4. /\ StagedFewer(s, s) /\ StagedFewer(<<>>, s)
        /\ \A i \in DOMAIN s : StagedFewer(RemoveIndex(s, i), s)
    BY <1>0, <2>3, StagedRest
  <2>5. StagedFewer(r.staging, s)
    BY <1>8, <2>1, <2>2, <2>4, Zenon
  <2> QED BY <1>7, <1>8, <2>1, <2>2, <2>5
<1>12. NamesOK(Names \cup new, r.staging, call', seq, left["publish"])
  <2>1. NamesOK(Names, s, call, LastOf(g), left["publish"])
    BY Zenon DEF NameInv, s
  <2>2. NamesOK(Names \cup {<<LastOf(g) + 1, call[p].pt>>}, r.staging, call', LastOf(g) + 1,
                left["publish"])
    BY <1>0, <1>3, <1>5, <1>11, <2>1, HeldGiven
  <2> QED BY <1>3, <2>2 DEF new, pt
<1>13. g'.queue = r /\ LastOf(g') = seq
  <2>1. g' = [g EXCEPT !.last_assigned_seq = seq, !.queue = r]
    BY <1>2, Zenon DEF r
  <2> QED BY <1>0, <2>1, Zenon DEF Inner, LastOf
<1>14. Names' \in SUBSET (Names \cup new)
  <2>1. Names' = Pairs(g'.queue.inflight) \cup InCalls(call') \cup InRounds(reader')
                   \cup InLines(wire') \cup InStore(srv'.got)
    BY Zenon DEF Names
  <2>2. InRounds(reader') = InRounds(reader) /\ InLines(wire') = InLines(wire)
        /\ InStore(srv'.got) = InStore(srv.got)
    BY <1>1, Zenon
  <2>3. Names = Pairs(g.queue.inflight) \cup InCalls(call) \cup InRounds(reader)
                   \cup InLines(wire) \cup InStore(srv.got)
    BY Zenon DEF Names
  <2> QED BY <1>5, <1>11, <1>13, <2>1, <2>2, <2>3
<1>15. NamesOK(Names', r.staging, call', seq, left["publish"])
  BY <1>12, <1>14, NamesWithin
<1>16. left'["publish"] = left["publish"]
  BY <1>1, Zenon
<1> QED BY <1>13, <1>15, <1>16, Zenon DEF NameInv, LastOf

\* flush_queue numbers staged points, and its frames carry unsent ones.
LEMMA NamesAtRound ==
  ASSUME IInv, Trip, NameInv, NEW k \in Gens, FlushQueue(k), LastOf(g') < SeqSpace, IInv'
  PROVE  NameInv'
<1> DEFINE s   == g.queue.staging
           a   == FlushAssign(g.queue, g.last_assigned_seq)
           out == FlushEncode(a.queue)
           r   == FlushRecord(a.queue, out)
           v   == [reader[k] EXCEPT !.pc = "send", !.out = out]
           w   == [pc |-> "read", out |-> <<>>, wake |-> NoOne]
<1>0. /\ InnerOK(g) /\ g \in Inner /\ CallsOK(call) /\ g.queue \in Queue /\ s \in Seq(Points)
      /\ LastOf(g) \in Int /\ left["publish"] \in Int /\ g.last_assigned_seq \in Nat
      /\ \A q \in Holders(call) : call[q].pt \in Points
      /\ ReadersOK(reader) /\ PublishersOK(call, Phase, LastOf(g)) /\ Ordered(g)
      /\ Bounded(g.queue)
  BY TripParts, NameParts, InnerParts
<1>1. /\ UNCHANGED <<wire, srv, left>>
      /\ \/ /\ g' = [g EXCEPT !.queue = r, !.last_assigned_seq = a.assigned]
            /\ reader' = [reader EXCEPT ![k] = v] /\ UNCHANGED call /\ out # <<>>
         \/ Wakeup(k) /\ UNCHANGED g
  BY Zenon DEF FlushQueue
<1>2. UNCHANGED call
  <2>1. \A p, x : TellCall(call, p, x) = call
    BY <1>0, NobodyWaits
  <2> QED BY <1>1, <2>1, Zenon DEF Wakeup
<1>3. Names' = Pairs(g'.queue.inflight) \cup InCalls(call) \cup InRounds(reader')
                   \cup InLines(wire) \cup InStore(srv.got)
  BY <1>1, <1>2, Zenon DEF Names
<1>4. Names = Pairs(g.queue.inflight) \cup InCalls(call) \cup InRounds(reader)
                   \cup InLines(wire) \cup InStore(srv.got)
  BY Zenon DEF Names
<1>5. CASE Wakeup(k) /\ UNCHANGED g
  <2>1. InRounds(reader') \subseteq InRounds(reader)
    <3>1. reader' = [reader EXCEPT ![k] = w]
      BY <1>5, Zenon DEF Wakeup
    <3>2. Numbered(<<>>) = {} /\ w.out = <<>>
      BY EmptySeq, NumberedQueue
    <3> HIDE DEF w
    <3>3. Numbered(w.out) \subseteq Numbered(reader[k].out) \cup {}
      BY <3>2
    <3>4. InRounds([reader EXCEPT ![k] = w]) \subseteq InRounds(reader) \cup {}
      BY <1>0, <3>3, RoundsGain
    <3> QED BY <3>1, <3>4
  <2>2. Names' \in SUBSET Names
    BY <1>3, <1>4, <1>5, <2>1
  <2>3. NamesOK(Names', g.queue.staging, call, LastOf(g), left["publish"])
    BY <2>2, NamesWithin DEF NameInv
  <2>4. g'.queue.staging = g.queue.staging /\ LastOf(g') = LastOf(g)
        /\ left'["publish"] = left["publish"]
    BY <1>1, <1>5, Zenon DEF LastOf
  <2> QED BY <1>2, <2>3, <2>4, Zenon DEF NameInv, LastOf
<1>6. CASE /\ g' = [g EXCEPT !.queue = r, !.last_assigned_seq = a.assigned]
           /\ reader' = [reader EXCEPT ![k] = v] /\ out # <<>>
  <2>1. PICK x, t \in Seq(Points) :
          /\ s = x \o t /\ a.queue.staging = t /\ a.assigned = g.last_assigned_seq + Len(x)
          /\ Pairs(a.queue.inflight)
               \subseteq Pairs(g.queue.inflight)
                           \cup {<<g.last_assigned_seq + i, x[i]>> : i \in DOMAIN x}
    BY <1>0, AssignedPairs, Zenon
  <2> DEFINE new == {<<g.last_assigned_seq + i, x[i]>> : i \in DOMAIN x}
  <2>2. /\ a.queue \in Queue /\ a.assigned \in Nat /\ Orderly(a.queue.inflight, a.assigned)
    BY <1>0, AssignOrderly DEF Ordered
  <2>3. Bounded(a.queue)
    <3>1. Size(a.queue) = Size(g.queue) /\ a.queue.frames = g.queue.frames
      BY <1>0, FlushAssignMoves
    <3> HIDE DEF a
    <3> QED BY <1>0, <2>2, <3>1 DEF Bounded
  <2> HIDE DEF a
  <2>4. out \in Seq(Frame)
    BY <2>2, <2>3, FlushEncodeFits
  <2>5. g'.queue = r /\ LastOf(g') = a.assigned
    <3> HIDE DEF r
    <3> QED BY <1>0, <1>6, Zenon DEF Inner, LastOf
  <2>6. r \in Queue
    <3>1. g'.queue \in Queue
      BY InnerParts DEF IInv
    <3> QED BY <2>5, <3>1, Zenon
  <2>7. QueueFewer(r, a.queue)
    <3> DEFINE seqs == [i \in DOMAIN out |-> out[i].seq]
    <3>1. seqs \in Seq(Nat)
      <4>1. \A i \in DOMAIN out : out[i] \in Frame
        <5> HIDE DEF out
        <5> QED BY <2>4
      <4>2. \A i \in DOMAIN out : out[i].seq \in Nat
        BY <4>1, Zenon DEF Frame
      <4> HIDE DEF out
      <4> QED BY <2>4, <4>2
    <3>2. r = RecordFrames(a.queue, seqs)
      BY Zenon DEF FlushRecord
    <3> HIDE DEF r, seqs
    <3>3. QueueFewer(RecordFrames(a.queue, seqs), a.queue)
      BY <2>2, <3>1, RecordedFewer
    <3> QED BY <3>2, <3>3, Zenon
  <2>8. Numbered(out) \subseteq Pairs(r.inflight)
    <3>1. Numbered(out) = SentBy(r) \ SentBy(a.queue)
      <4>1. a.assigned < SeqSpace
        BY <2>5
      <4>2. out # <<>>
        BY <1>6
      <4> QED BY <2>2, <2>4, <2>6, <4>1, <4>2, RoundOrderly
    <3>2. SentBy(r) \subseteq Pairs(r.inflight)
      BY Zenon DEF SentBy, Pairs
    <3> HIDE DEF r, out
    <3> QED BY <3>1, <3>2
  <2> HIDE DEF r
  <2>9. InRounds(reader') \subseteq InRounds(reader) \cup Numbered(out)
    <3> HIDE DEF out
    <3>1. v.out = out
      BY <1>0, ReaderParts, Zenon DEF Reader
    <3> HIDE DEF v
    <3>2. Numbered(v.out) \subseteq Numbered(reader[k].out) \cup Numbered(out)
      BY <3>1
    <3>3. InRounds([reader EXCEPT ![k] = v]) \subseteq InRounds(reader) \cup Numbered(out)
      BY <1>0, <3>2, RoundsGain
    <3> QED BY <1>6, <3>3, Zenon
  <2> HIDE DEF out, new
  <2>10. Pairs(r.inflight) \subseteq Pairs(g.queue.inflight) \cup new
    BY <2>1, <2>7, Zenon DEF QueueFewer, new
  <2>11. Names' \in SUBSET (Names \cup new)
    BY <1>3, <1>4, <2>5, <2>8, <2>9, <2>10
  <2>12. Waiting(s, call, left["publish"]) /\ KeptApart(Names, s, call) /\ Distinct(s)
         /\ NamesOK(Names, s, call, LastOf(g), left["publish"])
    BY Zenon DEF NameInv, NamesOK, Waiting, s
  <2> HIDE DEF s
  <2>13. /\ Distinct(x) /\ StagedFewer(t, s)
         /\ \A i \in DOMAIN x : /\ \E j \in DOMAIN s : s[j] = x[i]
                                /\ \A j \in DOMAIN t : t[j] # x[i]
    <3>1. Distinct(x \o t)
      BY <2>1, <2>12, Zenon
    <3>2. /\ Distinct(x) /\ StagedFewer(t, x \o t)
          /\ \A i \in DOMAIN x : /\ \E j \in DOMAIN (x \o t) : (x \o t)[j] = x[i]
                                 /\ \A j \in DOMAIN t : t[j] # x[i]
      BY <3>1, StagedSplit
    <3> QED BY <2>1, <3>2, Zenon
  <2>14. StagedFewer(r.staging, s) /\ r.staging \in {t, <<>>}
    <3>1. r.staging \in {t, <<>>}
      BY <2>1, <2>7, Zenon DEF QueueFewer
    <3>2. StagedFewer(<<>>, s)
      BY <1>0, <2>12, StagedRest
    <3> QED BY <2>13, <3>1, <3>2, Zenon
  <2>15. /\ \A i \in DOMAIN x : x[i] > left["publish"] /\ \A n \in Names : n[2] # x[i]
         /\ \A i \in DOMAIN x : /\ \A j \in DOMAIN r.staging : r.staging[j] # x[i]
                                /\ \A q \in Holders(call) : call[q].pt # x[i]
    <3>1. ASSUME NEW i \in DOMAIN x
          PROVE  /\ x[i] > left["publish"] /\ \A n \in Names : n[2] # x[i]
                 /\ \A q \in Holders(call) : call[q].pt # x[i]
      <4>1. PICK j \in DOMAIN s : s[j] = x[i]
        BY <2>13
      <4> QED BY <2>12, <4>1, Zenon DEF Waiting, KeptApart
    <3>2. ASSUME NEW i \in DOMAIN x, NEW j \in DOMAIN r.staging PROVE r.staging[j] # x[i]
      <4>1. DOMAIN <<>> = {}
        OBVIOUS
      <4> QED BY <2>13, <2>14, <4>1, Zenon
    <3> QED BY <3>1, <3>2, Zenon
  <2>16. NamesOK(Names \cup new, r.staging, call, a.assigned, left["publish"])
    <3>1. HeldFewer(call, call)
      BY DEF HeldFewer
    <3>2. NamesOK(Names \cup {<<LastOf(g) + i, x[i]>> : i \in DOMAIN x}, r.staging, call,
                  LastOf(g) + Len(x), left["publish"])
      BY <1>0, <2>12, <2>13, <2>14, <2>15, <3>1, NamesGiven
    <3> QED BY <2>1, <3>2, Zenon DEF new, LastOf
  <2>17. NamesOK(Names', r.staging, call, a.assigned, left["publish"])
    BY <2>11, <2>16, NamesWithin
  <2>18. left'["publish"] = left["publish"]
    BY <1>1, Zenon
  <2> QED BY <1>2, <2>5, <2>17, <2>18, Zenon DEF NameInv, LastOf
<1> HIDE DEF a, out, r, v
<1> QED BY <1>1, <1>5, <1>6, Zenon

\* Every step of a trip keeps the names, as long as the numbers fit the wire.
LEMMA StepsKeepNames ==
  ASSUME IInv, Within(left), Trip, Steadily, [Next]_vars, IInv', LastOf(g') < SeqSpace, NameInv
  PROVE  NameInv'
<1>1. LastOf(g) <= LastOf(g') /\ LastOf(g) < SeqSpace
  <2>1. LastOf(g) <= LastOf(g')
    BY SessionKeeps
  <2>2. SeqSpace \in Nat
    BY QueueAssumption DEF QueueAssumption
  <2>3. LastOf(g) \in Nat /\ LastOf(g') \in Nat
    <3>1. g.last_assigned_seq \in Nat /\ g'.last_assigned_seq \in Nat
      BY InnerParts DEF IInv
    <3> QED BY <3>1 DEF LastOf
  <2> QED BY <2>1, <2>2, <2>3
<1>2. left'["publish"] <= left["publish"]
  <2>1. "publish" \in Acts /\ LeftOK(left)
    BY DEF Acts, IInv
  <2> QED BY <2>1, BudgetsFall
<1>3. CASE ~Moving /\ ~Begins
  BY <1>1, <1>2, <1>3, NamesStay
<1>4. CASE Begins
  BY <1>1, <1>4, NamesAtBegin DEF Begins
<1>5. CASE Moving
  BY <1>5, NamesAtStage, NamesAtLive, NamesAtRound DEF Moving, Gains
<1> QED BY <1>3, <1>4, <1>5

\* Nothing is named at first.
LEMMA InitNames ==
  ASSUME Init
  PROVE  NameInv
<1>1. /\ g.queue = EmptyQueue /\ call = [p \in Procs |-> IdleCall]
      /\ reader = [s \in Gens |-> IdleReader] /\ wire = [s \in Gens |-> ClosedWire]
      /\ srv.got = {}
  BY DEF Init
<1>2. DOMAIN <<>> = {}
  OBVIOUS
<1>3. Numbered(<<>>) = {}
  BY EmptySeq, NumberedQueue
<1>4. Pairs(g.queue.inflight) = {}
  BY <1>1, <1>2 DEF EmptyQueue, Pairs
<1>5. Holders(call) = {} /\ Senders(call) = {}
  BY <1>1 DEF Holders, Senders, IdleCall
<1>6. InCalls(call) = {}
  BY <1>5 DEF InCalls
<1>7. InRounds(reader) = {}
  <2>1. \A s \in Gens : reader[s].out = <<>>
    BY <1>1 DEF IdleReader
  <2>2. \A s \in Gens : Numbered(reader[s].out) = {}
    BY <1>3, <2>1, Zenon
  <2> QED BY <2>2 DEF InRounds
<1>8. InLines(wire) = {}
  <2>1. \A s \in Gens : wire[s].c2s = <<>>
    BY <1>1 DEF ClosedWire
  <2>2. \A s \in Gens : Numbered(wire[s].c2s) = {}
    BY <1>3, <2>1, Zenon
  <2> QED BY <2>2 DEF InLines
<1>9. InStore(srv.got) = {}
  BY <1>1 DEF InStore
<1>10. Names = {}
  BY <1>4, <1>6, <1>7, <1>8, <1>9 DEF Names
<1>11. DOMAIN g.queue.staging = {}
  BY <1>1, <1>2 DEF EmptyQueue
<1> QED BY <1>5, <1>10, <1>11, Zenon
        DEF NameInv, NamesOK, OneName, GivenOut, Waiting, Distinct, KeptApart

\* On one trip, as long as its numbers fit the 32 bits of the wire.
WellNamed == OneTrip /\ LastOf(g) < SeqSpace => NameInv
NamesInv  == TripInv /\ WellNamed

\* The names of every reachable state.
LEMMA NamesInvariance == Spec => []NamesInv
<1>1. Init => NamesInv
  <2> SUFFICES ASSUME Init PROVE NamesInv
    OBVIOUS
  <2>1. TripInv
    BY InitTripInv
  <2> QED BY <2>1, InitNames DEF NamesInv, WellNamed
<1>2. NamesInv /\ [Next]_vars => NamesInv'
  <2> SUFFICES ASSUME NamesInv, [Next]_vars PROVE NamesInv'
    OBVIOUS
  <2>1. TripInv
    BY DEF NamesInv
  <2>2. TripInv' /\ (OneTrip' => OneTrip /\ Steadily)
    BY <2>1, StepsKeepTripInv
  <2>3. ASSUME OneTrip', LastOf(g') < SeqSpace PROVE NameInv'
    <3>1. OneTrip /\ Steadily /\ IInv /\ Within(left) /\ Trip /\ IInv'
      BY <2>1, <2>2, <2>3 DEF TripInv
    <3>2. LastOf(g) < SeqSpace
      <4>1. LastOf(g) <= LastOf(g')
        BY <3>1, SessionKeeps
      <4>2. SeqSpace \in Nat
        BY QueueAssumption DEF QueueAssumption
      <4>3. LastOf(g) \in Nat /\ LastOf(g') \in Nat
        <5>1. g.last_assigned_seq \in Nat /\ g'.last_assigned_seq \in Nat
          BY <3>1, InnerParts DEF IInv
        <5> QED BY <5>1 DEF LastOf
      <4> QED BY <2>3, <4>1, <4>2, <4>3
    <3>3. NameInv
      BY <3>1, <3>2 DEF NamesInv, WellNamed
    <3> QED BY <2>3, <3>1, <3>3, StepsKeepNames
  <2> QED BY <2>2, <2>3, Zenon DEF NamesInv, WellNamed, LastOf
<1> QED BY <1>1, <1>2, PTL DEF Spec

\* mark_unsent and flush_queue retransmit under the old numbers, and frames carry
\* numbers by position: on one trip, for as long as the numbers do not wrap on
\* the wire, the server never stores two points under one number, nor one point
\* under two, whatever was lost, sent twice, dropped by the cap or overtaken.
THEOREM OnePointPerNumber ==
  Spec => [](OneTrip /\ g.last_assigned_seq < SeqSpace => SeqNamesOnePoint)
<1>1. NamesInv => (OneTrip /\ g.last_assigned_seq < SeqSpace => SeqNamesOnePoint)
  <2> SUFFICES ASSUME NamesInv, OneTrip, g.last_assigned_seq < SeqSpace,
                      NEW a \in srv.got, NEW b \in srv.got
               PROVE  a[2] = b[2] <=> a[3] = b[3]
    BY Zenon DEF SeqNamesOnePoint
  <2>1. OneName(Names)
    BY DEF NamesInv, WellNamed, NameInv, NamesOK, LastOf
  <2>2. <<a[2], a[3]>> \in Names /\ <<b[2], b[3]>> \in Names
    BY Zenon DEF Names, InStore
  <2>3. <<a[2], a[3]>>[1] = <<b[2], b[3]>>[1] <=> <<a[2], a[3]>>[2] = <<b[2], b[3]>>[2]
    BY <2>1, <2>2, Zenon DEF OneName
  <2> QED BY <2>3
<1> QED BY <1>1, NamesInvariance, PTL
===============================================================================
