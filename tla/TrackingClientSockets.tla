------------------------- MODULE TrackingClientSockets -------------------------
(***************************************************************************)
(* The tracking session implements Connection: whatever connect, the       *)
(* reconnects, Relocate, a credentials refresh and close() do to each      *)
(* other, sockets are put in place in the order of their dials, and none   *)
(* after the session is over.  And until it is over the session keeps      *)
(* itself alive: somebody dials, or reads the socket in place, unless a    *)
(* task that drops the error of its dial has had the newest dial fail.     *)
(***************************************************************************)
EXTENDS TrackingClientProofs

(* What the dials in progress have to do with the sockets: each has a        *)
(* generation of its own, which no read loop belongs to yet.                 *)
DialingPc  == {"connecting", "install"}
Dialing(f) == {d \in Drivers : f[d].pc \in DialingPc}

Fresh(f, n, r) ==
  /\ \A d \in Dialing(f) : f[d].gen \in 1 .. n /\ r[f[d].gen].pc = "none"
  /\ \A d, e \in Dialing(f) : f[d].gen = f[e].gen => d = e
  /\ \A s \in Gens : r[s].pc # "none" => s <= n

SInv == IInv /\ Fresh(driver, g.dial_gen, reader)

(* The steps that leave the sockets alone: no dial begins, no read loop      *)
(* begins, and the session's socket, generation and end stay.                *)
Settles(f, h) == \A d \in Dialing(h) : d \in Dialing(f) /\ h[d].gen = f[d].gen
SameConn(i, j) == /\ j.dial_gen = i.dial_gen /\ j.out_tx = i.out_tx
                  /\ j.intentional = i.intentional /\ j.state = i.state
SamePhase(r, q) == \A s \in Gens : q[s].pc = "none" <=> r[s].pc = "none"
Leaves == Settles(driver, driver') /\ SameConn(g, g') /\ SamePhase(reader, reader')

Abstract == [Sockets!Next]_(Sockets!connection)

-----------------------------------------------------------------------------
(* Dialing tasks.                                                            *)

\* A task that does not dial takes a slot.
LEMMA SettlesPut ==
  ASSUME NEW f, DriversOK(f), NEW h, DriversOK(h), Settles(f, h), NEW d \in Drivers, NEW v,
         v.pc \notin DialingPc
  PROVE  Settles(f, [h EXCEPT ![d] = v])
<1> DEFINE k == [h EXCEPT ![d] = v]
<1>1. \A e \in Drivers : k[e] = IF e = d THEN v ELSE h[e]
  BY DEF DriversOK
<1> HIDE DEF k
<1>2. \A e \in Dialing(k) : e \in Dialing(h) /\ k[e].gen = h[e].gen
  BY <1>1 DEF Dialing
<1>3. Settles(f, k)
  BY <1>2 DEF Settles
<1> QED BY <1>3 DEF k

\* The answer to a Resume.
LEMMA SettlesTell ==
  ASSUME NEW f, DriversOK(f), NEW w, NEW r \in Result
  PROVE  Settles(f, TellDriver(f, w, r))
<1>0. Settles(f, f)
  BY DEF Settles
<1>1. CASE ~(w \in Drivers /\ f[w].pc \in {"sendResume", "waitResume"})
  BY <1>0, <1>1, Zenon DEF TellDriver
<1>2. CASE w \in Drivers /\ f[w].pc \in {"sendResume", "waitResume"}
  <2> DEFINE v == [f[w] EXCEPT !.res = r]
  <2>1. v.pc = f[w].pc
    BY <1>2, DriverParts, Zenon DEF Driver
  <2>2. TellDriver(f, w, r) = [f EXCEPT ![w] = v]
    BY <1>2, Zenon DEF TellDriver
  <2> HIDE DEF v
  <2>3. v.pc \notin DialingPc /\ w \in Drivers
    BY <1>2, <2>1 DEF DialingPc
  <2>4. Settles(f, [f EXCEPT ![w] = v])
    BY <1>0, <2>3, SettlesPut
  <2> QED BY <2>2, <2>4, Zenon
<1> QED BY <1>1, <1>2

\* A task moves on to anything but a dial.
LEMMA SettlesStep ==
  ASSUME DriversOK(driver), NEW d \in Drivers, NEW x, x \notin DialingPc, Step(d, x)
  PROVE  Settles(driver, driver')
<1> DEFINE v == [driver[d] EXCEPT !.pc = x]
<1>0. Settles(driver, driver)
  BY DEF Settles
<1>1. v.pc = x
  BY DriverParts, Zenon DEF Driver
<1>2. driver' = [driver EXCEPT ![d] = v]
  BY Zenon DEF Step
<1> HIDE DEF v
<1>3. Settles(driver, [driver EXCEPT ![d] = v])
  BY <1>0, <1>1, SettlesPut
<1> QED BY <1>2, <1>3, Zenon

\* A task ends.
LEMMA SettlesFinish ==
  ASSUME DriversOK(driver), NEW d \in Drivers, Finish(d)
  PROVE  Settles(driver, driver')
<1>0. Settles(driver, driver)
  BY DEF Settles
<1>1. IdleDriver.pc \notin DialingPc
  BY DEF IdleDriver, DialingPc
<1> QED BY <1>0, <1>1, SettlesPut DEF Finish

\* A dial fails.
LEMMA SettlesErr ==
  ASSUME DriversOK(driver), NEW d \in Drivers, DialErr(d)
  PROVE  Settles(driver, driver')
<1>1. "gone" \notin DialingPc /\ "failed" \notin DialingPc
  BY DEF DialingPc
<1>2. \/ Finish(d) \/ Step(d, "gone") \/ Step(d, "failed")
  BY Zenon DEF DialErr
<1> QED BY <1>1, <1>2, SettlesStep, SettlesFinish

\* A new task does not dial at once.
LEMMA SettlesSpawn ==
  ASSUME NEW f, DriversOK(f), NEW h, DriversOK(h), Settles(f, h), NEW v, v.pc \notin DialingPc,
         SpawnIn(h, v)
  PROVE  Settles(f, driver')
<1>1. PICK d \in Drivers : driver' = [h EXCEPT ![d] = v]
  BY Zenon DEF SpawnIn
<1>2. Settles(f, [h EXCEPT ![d] = v])
  BY SettlesPut
<1> QED BY <1>1, <1>2, Zenon

-----------------------------------------------------------------------------
(* Read loops.                                                               *)

\* A read loop that runs goes on or ends.
LEMMA PhasePut ==
  ASSUME NEW r, ReadersOK(r), NEW s \in Gens, NEW v, v.pc # "none", r[s].pc # "none"
  PROVE  SamePhase(r, [r EXCEPT ![s] = v])
BY DEF SamePhase, ReadersOK

\* A dropped receiver.
LEMMA PhaseUnheard ==
  ASSUME ReadersOK(reader), NEW w, Unheard(w)
  PROVE  SamePhase(reader, reader')
<1>1. ASSUME NEW s \in Gens PROVE reader'[s].pc = reader[s].pc
  <2>1. [reader[s] EXCEPT !.wake = NoOne].pc = reader[s].pc
    BY ReaderParts, Zenon DEF Reader
  <2> QED BY <2>1, Zenon DEF Unheard
<1> QED BY <1>1 DEF SamePhase

\* The read loop that dispatches a message goes on reading.
LEMMA ReadsOn ==
  ASSUME ReadersOK(reader), NEW s \in Gens,
         \/ \E w : FlushThen(s, w)
         \/ Wakeup(s)
         \/ \E out : reader' = [reader EXCEPT ![s] = [@ EXCEPT !.pc = "send", !.out = out]]
  PROVE  \E v : v.pc \notin {"none", "done"} /\ reader' = [reader EXCEPT ![s] = v]
<1>0. reader[s] \in Reader
  BY ReaderParts
<1>1. ASSUME NEW w, FlushThen(s, w)
      PROVE  \E v : v.pc \notin {"none", "done"} /\ reader' = [reader EXCEPT ![s] = v]
  <2> DEFINE v == [reader[s] EXCEPT !.pc = "flush", !.wake = w]
  <2>1. v.pc = "flush"
    BY <1>0, Zenon DEF Reader
  <2>2. reader' = [reader EXCEPT ![s] = v]
    BY <1>1, Zenon DEF FlushThen
  <2> HIDE DEF v
  <2>3. v.pc \notin {"none", "done"}
    BY <2>1
  <2> QED BY <2>2, <2>3, Zenon
<1>2. ASSUME Wakeup(s)
      PROVE  \E v : v.pc \notin {"none", "done"} /\ reader' = [reader EXCEPT ![s] = v]
  <2> DEFINE v == [pc |-> "read", out |-> <<>>, wake |-> NoOne]
  <2>1. v.pc \notin {"none", "done"}
    OBVIOUS
  <2>2. reader' = [reader EXCEPT ![s] = v]
    BY <1>2, Zenon DEF Wakeup
  <2> HIDE DEF v
  <2> QED BY <2>1, <2>2, Zenon
<1>3. ASSUME NEW out, reader' = [reader EXCEPT ![s] = [@ EXCEPT !.pc = "send", !.out = out]]
      PROVE  \E v : v.pc \notin {"none", "done"} /\ reader' = [reader EXCEPT ![s] = v]
  <2> DEFINE v == [reader[s] EXCEPT !.pc = "send", !.out = out]
  <2>1. v.pc = "send"
    BY <1>0, Zenon DEF Reader
  <2>2. reader' = [reader EXCEPT ![s] = v]
    BY <1>3, Zenon
  <2> HIDE DEF v
  <2>3. v.pc \notin {"none", "done"}
    BY <2>1
  <2> QED BY <2>2, <2>3, Zenon
<1> QED BY <1>1, <1>2, <1>3, Zenon

\* So does the one that sends a frame.
LEMMA SendsOn ==
  ASSUME ReadersOK(reader), NEW s \in Gens, SendFrame(s)
  PROVE  \/ UNCHANGED driver /\ \E v : /\ v.pc \notin {"none", "done"}
                                       /\ reader' = [reader EXCEPT ![s] = v]
         \/ Wakeup(s)
<1> DEFINE rest == Tail(reader[s].out)
           pc   == IF rest = <<>> THEN "flush" ELSE "send"
           v    == [reader[s] EXCEPT !.out = rest, !.pc = pc]
<1>1. pc \notin {"none", "done"}
  OBVIOUS
<1>2. \/ UNCHANGED <<driver, call>> /\ reader' = [reader EXCEPT ![s] = v]
      \/ Wakeup(s)
  BY Zenon DEF SendFrame
<1>3. UNCHANGED <<driver, call>> => UNCHANGED driver
  OBVIOUS
<1> HIDE DEF rest, pc
<1>4. v.pc = pc
  BY ReaderParts, Zenon DEF Reader
<1>5. v.pc \notin {"none", "done"}
  BY <1>1, <1>4, Zenon
<1> HIDE DEF v
<1> QED BY <1>2, <1>3, <1>5, Zenon

\* A read loop that dispatches, or ends.
LEMMA PhaseFlush ==
  ASSUME ReadersOK(reader), NEW s \in Gens, reader[s].pc # "none",
         \/ \E w : FlushThen(s, w)
         \/ Wakeup(s)
         \/ \E out : reader' = [reader EXCEPT ![s] = [@ EXCEPT !.pc = "send", !.out = out]]
         \/ reader' = [reader EXCEPT ![s].pc = "done"]
  PROVE  SamePhase(reader, reader')
<1>1. PICK v : v.pc # "none" /\ reader' = [reader EXCEPT ![s] = v]
  <2>1. ASSUME reader' = [reader EXCEPT ![s].pc = "done"]
        PROVE  \E v : v.pc # "none" /\ reader' = [reader EXCEPT ![s] = v]
    <3> DEFINE v == [reader[s] EXCEPT !.pc = "done"]
    <3>0. reader[s] \in Reader
      BY ReaderParts
    <3>1. v.pc = "done"
      BY <3>0, Zenon DEF Reader
    <3>2. reader' = [reader EXCEPT ![s] = v]
      BY <2>1, Zenon
    <3> HIDE DEF v
    <3>3. v.pc # "none"
      BY <3>1
    <3> QED BY <3>2, <3>3, Zenon
  <2>2. ASSUME ~(reader' = [reader EXCEPT ![s].pc = "done"])
        PROVE  \E v : v.pc # "none" /\ reader' = [reader EXCEPT ![s] = v]
    <3>1. PICK v : v.pc \notin {"none", "done"} /\ reader' = [reader EXCEPT ![s] = v]
      BY <2>2, ReadsOn, Zenon
    <3> QED BY <3>1
  <2> QED BY <2>1, <2>2, Zenon
<1>2. SamePhase(reader, [reader EXCEPT ![s] = v])
  BY <1>1, PhasePut
<1> QED BY <1>1, <1>2, Zenon

-----------------------------------------------------------------------------
(* Steps in terms of Connection.                                             *)

\* What the abstract variables are.
LEMMA Mapped ==
  /\ Sockets!connection = <<g.dial_gen, g.out_tx, {s \in Gens : reader[s].pc # "none"},
                            g.intentional>>
  /\ Sockets!None = 0 /\ None = 0
BY DEF Sockets!connection, Sockets!None, None

\* A step that leaves the sockets alone.
LEMMA Aside ==
  ASSUME SInv, Leaves
  PROVE  Fresh(driver', g'.dial_gen, reader') /\ Abstract
<1>1. Fresh(driver, g.dial_gen, reader) /\ g'.dial_gen = g.dial_gen
      /\ g'.out_tx = g.out_tx /\ g'.intentional = g.intentional
  BY DEF SInv, Leaves, SameConn
<1>2. g.dial_gen \in 0 .. MaxGen /\ MaxGen \in Nat
  BY InnerParts, ConstantFacts DEF SInv, IInv
<1>3. \A s \in Gens : reader'[s].pc = "none" <=> reader[s].pc = "none"
  BY DEF Leaves, SamePhase
<1>4. 1 .. g.dial_gen \subseteq Gens
  BY <1>2 DEF Gens
<1>5. \A d \in Dialing(driver') : d \in Dialing(driver) /\ driver'[d].gen = driver[d].gen
  BY DEF Leaves, Settles
<1>6. Fresh(driver', g'.dial_gen, reader')
  BY <1>1, <1>3, <1>4, <1>5 DEF Fresh
<1>7. {s \in Gens : reader'[s].pc # "none"} = {s \in Gens : reader[s].pc # "none"}
  BY <1>3
<1>8. UNCHANGED Sockets!connection
  BY <1>1, <1>7 DEF Sockets!connection
<1> QED BY <1>6, <1>8 DEF Abstract

\* Nothing but what this section is not about changes.
LEMMA Stays ==
  /\ Settles(driver, driver) /\ SameConn(g, g) /\ SamePhase(reader, reader)
  /\ UNCHANGED driver => Settles(driver, driver')
  /\ UNCHANGED g => SameConn(g, g')
  /\ UNCHANGED reader => SamePhase(reader, reader')
BY DEF Settles, SameConn, SamePhase

-----------------------------------------------------------------------------
(* The session record.                                                       *)

\* What the session forgets, begins or rejects is not its socket.
LEMMA ConnForget ==
  ASSUME NEW i \in Inner
  PROVE  /\ SameConn(i, FreshTrack(i)) /\ SameConn(i, ForgetTrack(i))
         /\ SameConn(i, RejectPending(i))
<1>1. SameConn(i, FreshTrack(i))
  BY Zenon DEF Inner, FreshTrack, SameConn
<1>2. SameConn(i, ForgetTrack(i))
  BY Zenon DEF Inner, ForgetTrack, SameConn
<1>3. SameConn(i, RejectPending(i))
  BY Zenon DEF Inner, RejectPending, SameConn
<1> QED BY <1>1, <1>2, <1>3

\* Nor are its flags, its waiters and its queue.
LEMMA ConnPut ==
  ASSUME NEW i \in Inner, NEW a, NEW b, NEW c
  PROVE  /\ SameConn(i, [i EXCEPT !.starting = a])
         /\ SameConn(i, [i EXCEPT !.queue = a])
         /\ SameConn(i, [i EXCEPT !.queue = a, !.last_assigned_seq = b])
         /\ SameConn(i, [i EXCEPT !.last_assigned_seq = a, !.queue = b])
         /\ SameConn(i, [i EXCEPT !.last_acked_seq = a, !.queue = b])
         /\ SameConn(i, [i EXCEPT !.start_wait = a])
         /\ SameConn(i, [i EXCEPT !.stop_wait = a])
         /\ SameConn(i, [i EXCEPT !.resume_wait = a])
         /\ SameConn(i, [i EXCEPT !.start_wait = a, !.starting = b])
         /\ SameConn(i, [i EXCEPT !.track_uid = a, !.last_assigned_seq = b, !.resume_wait = c])
<1>1. /\ SameConn(i, [i EXCEPT !.starting = a])
      /\ SameConn(i, [i EXCEPT !.queue = a])
      /\ SameConn(i, [i EXCEPT !.start_wait = a])
  BY Zenon DEF Inner, SameConn
<1>2. /\ SameConn(i, [i EXCEPT !.stop_wait = a])
      /\ SameConn(i, [i EXCEPT !.resume_wait = a])
      /\ SameConn(i, [i EXCEPT !.start_wait = a, !.starting = b])
  BY Zenon DEF Inner, SameConn
<1>3. /\ SameConn(i, [i EXCEPT !.queue = a, !.last_assigned_seq = b])
      /\ SameConn(i, [i EXCEPT !.last_assigned_seq = a, !.queue = b])
      /\ SameConn(i, [i EXCEPT !.last_acked_seq = a, !.queue = b])
  BY Zenon DEF Inner, SameConn
<1>4. SameConn(i, [i EXCEPT !.track_uid = a, !.last_assigned_seq = b, !.resume_wait = c])
  BY Zenon DEF Inner, SameConn
<1> QED BY <1>1, <1>2, <1>3, <1>4

\* One change after another.
LEMMA ConnThen ==
  ASSUME NEW i, NEW j, NEW k, SameConn(i, j), SameConn(j, k)
  PROVE  SameConn(i, k)
BY DEF SameConn

-----------------------------------------------------------------------------
(* Application calls.                                                        *)

\* A call that begins leaves the sockets alone.
LEMMA NewCallLeaves ==
  ASSUME SInv, NEW p \in Procs, NewCall(p)
  PROVE  Leaves
<1>0. InnerOK(g) /\ g \in Inner
  BY InnerParts DEF SInv, IInv
<1>1. UNCHANGED <<driver, reader>>
  BY DEF NewCall, PublishBegin, StartTrack, StopTrack, ManualResume, SendEvent, CloseBegin
<1>2. \/ UNCHANGED g \/ g' = FreshTrack(g) \/ g' = [FreshTrack(g) EXCEPT !.start_wait = p]
  BY Zenon DEF NewCall, PublishBegin, StartTrack, StopTrack, ManualResume, SendEvent, CloseBegin
<1>3. FreshTrack(g) \in Inner /\ SameConn(g, FreshTrack(g))
  BY <1>0, FreshTrackType, ConnForget DEF InnerOK
<1>4. SameConn(FreshTrack(g), [FreshTrack(g) EXCEPT !.start_wait = p])
  BY <1>3, ConnPut
<1>5. SameConn(g, g')
  BY <1>2, <1>3, <1>4, ConnThen, Stays
<1> QED BY <1>1, <1>5, Stays DEF Leaves

\* close() ends the session.
LEMMA CloseEnds ==
  ASSUME SInv, NEW p \in Procs, Close(p)
  PROVE  Fresh(driver', g'.dial_gen, reader') /\ Abstract
<1>0. InnerOK(g) /\ g \in Inner /\ DriversOK(driver)
  BY InnerParts DEF SInv, IInv
<1>1. /\ g' = [RejectPending(g) EXCEPT !.intentional = TRUE, !.state = "Closed",
                                       !.session_ready = FALSE, !.out_tx = None]
      /\ driver' = RejectedDrivers /\ UNCHANGED reader
  BY Zenon DEF Close
<1>2. RejectPending(g) \in Inner /\ RejectPending(g).dial_gen = g.dial_gen
  BY <1>0, RejectPendingType, ConnForget DEF InnerOK, SameConn
<1>3. g'.dial_gen = g.dial_gen /\ g'.intentional = TRUE /\ g'.out_tx = None
  BY <1>1, <1>2, Zenon DEF Inner
<1>4. Settles(driver, driver')
  BY <1>0, <1>1, SettlesTell DEF RejectedDrivers, Result
<1>5. Fresh(driver', g'.dial_gen, reader')
  BY <1>1, <1>3, <1>4 DEF SInv, Fresh, Settles
<1>6. Sockets!End
  BY <1>1, <1>3, Mapped DEF Sockets!End, None, Sockets!None
<1> QED BY <1>5, <1>6 DEF Abstract, Sockets!Next

\* Every other step of a call leaves the sockets alone.
LEMMA CallStepLeaves ==
  ASSUME SInv, NEW p \in Procs, CallStep(p), ~Close(p)
  PROVE  Leaves
<1>0. /\ InnerOK(g) /\ g \in Inner /\ DriversOK(driver) /\ ReadersOK(reader)
      /\ "err" \in Result
  BY InnerParts DEF SInv, IInv, Result
<1>2. CASE \/ PublishStart(p) \/ PublishSend(p) \/ StartSend(p) \/ StopSend(p)
           \/ CallReturns(p) \/ ManualSend(p) \/ ManualReturns(p) \/ EventSend(p)
           \/ CloseSend(p)
  <2>1. UNCHANGED <<g, driver, reader>>
    BY <1>2 DEF PublishStart, PublishSend, StartSend, StopSend, CallReturns, ManualSend,
                ManualReturns, EventSend, CloseSend
  <2> QED BY <2>1, Stays DEF Leaves
<1>3. CASE PublishStartFailed(p)
  BY <1>0, <1>3, ConnPut, Stays DEF PublishStartFailed, Leaves
<1>4. CASE PublishStage(p)
  <2>1. PICK q : g' = [g EXCEPT !.queue = q]
    BY <1>4, Zenon DEF PublishStage
  <2>2. SameConn(g, g')
    BY <1>0, <2>1, ConnPut
  <2> QED BY <1>4, <2>2, Stays DEF PublishStage, Leaves
<1>5. CASE PublishLive(p)
  <2>1. PICK n, q : g' = [g EXCEPT !.last_assigned_seq = n, !.queue = q]
    BY <1>5, Zenon DEF PublishLive
  <2>2. SameConn(g, g')
    BY <1>0, <2>1, ConnPut
  <2> QED BY <1>5, <2>2, Stays DEF PublishLive, Leaves
<1>6. CASE StartFailed(p)
  <2>1. SameConn(g, g')
    BY <1>0, <1>6, ConnPut DEF StartFailed
  <2>2. SamePhase(reader, reader')
    BY <1>0, <1>6, PhaseUnheard DEF StartFailed
  <2> QED BY <1>6, <2>1, <2>2, Stays DEF StartFailed, Leaves
<1>7. CASE StopRegister(p)
  BY <1>0, <1>7, ConnPut, Stays DEF StopRegister, Leaves
<1>8. CASE StopFailed(p)
  <2>1. SameConn(g, g')
    BY <1>0, <1>8, ConnPut DEF StopFailed
  <2>2. SamePhase(reader, reader')
    BY <1>0, <1>8, PhaseUnheard DEF StopFailed
  <2> QED BY <1>8, <2>1, <2>2, Stays DEF StopFailed, Leaves
<1>9. CASE ManualRegister(p)
  <2>1. SameConn(g, g')
    BY <1>0, <1>9, ConnPut DEF ManualRegister
  <2>2. Settles(driver, driver')
    BY <1>0, <1>9, SettlesTell DEF ManualRegister
  <2> QED BY <1>9, <2>1, <2>2, Stays DEF ManualRegister, Leaves
<1>10. CASE ManualFailed(p)
  <2>1. SameConn(g, g')
    BY <1>0, <1>10, ConnPut DEF ManualFailed
  <2>2. Settles(driver, driver')
    BY <1>0, <1>10, SettlesTell DEF ManualFailed
  <2>3. SamePhase(reader, reader')
    BY <1>0, <1>10, PhaseUnheard DEF ManualFailed
  <2> QED BY <2>1, <2>2, <2>3 DEF Leaves
<1> QED BY <1>2, <1>3, <1>4, <1>5, <1>6, <1>7, <1>8, <1>9, <1>10 DEF CallStep

-----------------------------------------------------------------------------
(* Read loops, the server and the network.                                   *)

\* Dispatch, flush_queue and the end of a socket.
LEMMA ReaderStepLeaves ==
  ASSUME SInv, NEW s \in Gens, ReaderStep(s)
  PROVE  Leaves
<1>0. /\ InnerOK(g) /\ g \in Inner /\ DriversOK(driver) /\ ReadersOK(reader)
      /\ {"ok", "err", "retry"} \subseteq Result
      /\ \A pc \in {"auth", "relocate", "closed"} : pc \notin DialingPc
  BY InnerParts DEF SInv, IInv, Result, DialingPc
<1>a. reader[s].pc # "none"
  BY DEF ReaderStep, OnResumeOk, OnTrackStarted, OnTrackStopped, OnAck, OnError, OnRelocate,
         FlushQueue, SendFrame, ReaderEnds, Receives
<1>1. CASE OnResumeOk(s)
  <2>1. PICK a, b, c, q : g' = [g EXCEPT !.track_uid = a, !.last_acked_seq = b,
                                  !.last_assigned_seq = c, !.queue = q,
                                  !.session_ready = TRUE, !.resume_wait = NoOne]
    BY <1>1, Zenon DEF OnResumeOk
  <2>2. SameConn(g, g')
    BY <1>0, <2>1, Zenon DEF Inner, SameConn
  <2>3. SamePhase(reader, reader')
    BY <1>0, <1>1, <1>a, PhaseFlush, Zenon DEF OnResumeOk
  <2> QED BY <1>1, <2>2, <2>3, Stays DEF OnResumeOk, Leaves
<1>2. CASE OnTrackStarted(s)
  <2>1. PICK a : g' = [g EXCEPT !.track_uid = a, !.last_assigned_seq = 0,
                    !.last_acked_seq = 0, !.session_ready = TRUE,
                    !.starting = FALSE, !.start_wait = NoOne]
    BY <1>2, Zenon DEF OnTrackStarted
  <2>2. SameConn(g, g')
    BY <1>0, <2>1, Zenon DEF Inner, SameConn
  <2>3. SamePhase(reader, reader')
    BY <1>0, <1>2, <1>a, PhaseFlush, Zenon DEF OnTrackStarted
  <2> QED BY <1>2, <2>2, <2>3, Stays DEF OnTrackStarted, Leaves
<1>3. CASE OnTrackStopped(s)
  <2>1. ForgetTrack(g) \in Inner /\ SameConn(g, ForgetTrack(g))
    BY <1>0, ForgetTrackType, ConnForget DEF InnerOK
  <2>2. /\ SameConn(g, [g EXCEPT !.stop_wait = NoOne])
        /\ SameConn(ForgetTrack(g), [ForgetTrack(g) EXCEPT !.stop_wait = NoOne])
    BY <1>0, <2>1, ConnPut
  <2>3. SameConn(g, g')
    BY <1>3, <2>1, <2>2, ConnThen DEF OnTrackStopped
  <2> QED BY <1>3, <2>3, Stays DEF OnTrackStopped, Leaves
<1>4. CASE OnAck(s)
  <2>1. PICK a, q : g' = [g EXCEPT !.last_acked_seq = a, !.queue = q]
    BY <1>4, Zenon DEF OnAck
  <2>2. SameConn(g, g')
    BY <1>0, <2>1, ConnPut
  <2>3. SamePhase(reader, reader')
    BY <1>0, <1>4, <1>a, PhaseFlush, Zenon DEF OnAck
  <2> QED BY <1>4, <2>2, <2>3, Stays DEF OnAck, Leaves
<1>5. ASSUME NEW code \in ErrorCodes, OnError(s, code)
      PROVE  Leaves
  <2> DEFINE answer == IF code = "TryAgain" THEN "retry" ELSE "err"
             fatal  == g.resume_wait # NoOne /\ code \in FatalResume
             cleared == IF fatal \/ code = "TrackNotFound" THEN ForgetTrack(g) ELSE g
             told   == TellDriver(driver, g.resume_wait, answer)
             fresh  == [IdleDriver EXCEPT !.pc = "auth"]
  <2>1. /\ \E b : g' = [RejectPending(cleared) EXCEPT !.starting = b]
        /\ SpawnIn(told, fresh) \/ driver' = told
        /\ UNCHANGED reader
    BY <1>5, Zenon DEF OnError
  <2>2. answer \in Result
    BY <1>0
  <2>3. InnerOK(cleared) /\ SameConn(g, cleared)
    BY <1>0, ForgetTrackType, ConnForget, Stays
  <2> HIDE DEF cleared, answer
  <2>4. DriversOK(told) /\ Settles(driver, told)
    BY <1>0, <2>2, TellDriverType, SettlesTell
  <2>5. fresh.pc = "auth"
    BY IdleDriverType, ConstantFacts, Zenon DEF Driver
  <2> HIDE DEF told, fresh
  <2>6. Settles(driver, driver')
    BY <1>0, <2>1, <2>4, <2>5, SettlesSpawn
  <2>7. RejectPending(cleared) \in Inner /\ SameConn(cleared, RejectPending(cleared))
    BY <2>3, RejectPendingType, ConnForget, InnerParts DEF InnerOK
  <2>8. \A b : SameConn(RejectPending(cleared), [RejectPending(cleared) EXCEPT !.starting = b])
    BY <2>7, ConnPut
  <2>9. SameConn(g, g')
    BY <2>1, <2>3, <2>7, <2>8, ConnThen
  <2> QED BY <2>1, <2>6, <2>9, Stays DEF Leaves
<1>6. CASE OnRelocate(s)
  <2> DEFINE v == [IdleDriver EXCEPT !.pc = "relocate", !.resume = TRUE]
  <2>1. v.pc = "relocate"
    BY IdleDriverType, ConstantFacts, Zenon DEF Driver
  <2>2. SpawnIn(driver, v) /\ UNCHANGED <<g, reader>>
    BY <1>6, Zenon DEF OnRelocate, Spawn
  <2> HIDE DEF v
  <2>3. Settles(driver, driver')
    BY <1>0, <2>1, <2>2, SettlesSpawn, Stays
  <2> QED BY <2>2, <2>3, Stays DEF Leaves
<1>b. ASSUME Wakeup(s) PROVE Settles(driver, driver') /\ SamePhase(reader, reader')
  <2>1. Settles(driver, driver')
    BY <1>0, <1>b, SettlesTell DEF Wakeup
  <2> QED BY <1>0, <1>a, <1>b, <2>1, PhaseFlush, Zenon
<1>7. CASE FlushQueue(s)
  <2>1. \/ /\ \E q, n : g' = [g EXCEPT !.queue = q, !.last_assigned_seq = n]
           /\ \E out : reader' = [reader EXCEPT ![s] = [@ EXCEPT !.pc = "send", !.out = out]]
           /\ UNCHANGED driver
        \/ Wakeup(s) /\ UNCHANGED g
    BY <1>7, Zenon DEF FlushQueue
  <2>2. CASE Wakeup(s) /\ UNCHANGED g
    BY <1>b, <2>2, Stays DEF Leaves
  <2>3. CASE /\ \E q, n : g' = [g EXCEPT !.queue = q, !.last_assigned_seq = n]
             /\ \E out : reader' = [reader EXCEPT ![s] = [@ EXCEPT !.pc = "send", !.out = out]]
             /\ UNCHANGED driver
    <3>0. PICK q, n : g' = [g EXCEPT !.queue = q, !.last_assigned_seq = n]
      BY <2>3
    <3>1. SameConn(g, g')
      BY <1>0, <3>0, ConnPut
    <3>2. SamePhase(reader, reader')
      BY <1>0, <1>a, <2>3, PhaseFlush, Zenon
    <3> QED BY <2>3, <3>1, <3>2, Stays DEF Leaves
  <2> QED BY <2>1, <2>2, <2>3
<1>8. CASE SendFrame(s)
  <2>1. UNCHANGED g
    BY <1>8, Zenon DEF SendFrame
  <2>2. CASE Wakeup(s)
    BY <1>b, <2>1, <2>2, Stays DEF Leaves
  <2>3. ASSUME UNCHANGED driver, NEW v, v.pc \notin {"none", "done"},
               reader' = [reader EXCEPT ![s] = v]
        PROVE  Leaves
    <3>1. SamePhase(reader, [reader EXCEPT ![s] = v])
      BY <1>0, <1>a, <2>3, PhasePut
    <3> QED BY <2>1, <2>3, <3>1, Stays DEF Leaves
  <2> QED BY <1>0, <1>8, <2>2, <2>3, SendsOn
<1>9. CASE ReaderEnds(s)
  <2> DEFINE v == [IdleDriver EXCEPT !.pc = "closed", !.origin = "reconnect", !.gen = s]
  <2>1. v.pc = "closed"
    BY IdleDriverType, ConstantFacts, Zenon DEF Driver
  <2>2. SpawnIn(driver, v) /\ UNCHANGED g /\ reader' = [reader EXCEPT ![s].pc = "done"]
    BY <1>9, Zenon DEF ReaderEnds, Spawn
  <2> HIDE DEF v
  <2>3. Settles(driver, driver')
    BY <1>0, <2>1, <2>2, SettlesSpawn, Stays
  <2>4. SamePhase(reader, reader')
    BY <1>0, <1>a, <2>2, PhaseFlush, Zenon
  <2> QED BY <2>2, <2>3, <2>4, Stays DEF Leaves
<1> QED BY <1>1, <1>2, <1>3, <1>4, <1>5, <1>6, <1>7, <1>8, <1>9 DEF ReaderStep

\* The server and the network know nothing of this.
LEMMA ServerLeaves ==
  ASSUME SInv, (\E s \in Gens : ServerStep(s) \/ Environment(s)) \/ ServerForgets
  PROVE  Leaves
<1>1. UNCHANGED <<g, driver, reader>>
  BY DEF ServerStep, ServerStarts, ServerRefusesStart, ServerResumes, ServerDefersResume,
         ServerTakesLoc, ServerTakesEvent, ServerStops, ServerCloses, Environment,
         ServerRelocates, ServerRejectsAuth, Drop, ServerForgets, Quiet
<1> QED BY <1>1, Stays DEF Leaves

-----------------------------------------------------------------------------
(* Dialing tasks.                                                            *)

\* on_socket_closed takes the socket from the session, or leaves it alone.
LEMMA SocketClosedLoses ==
  ASSUME SInv, NEW d \in Drivers, SocketClosed(d)
  PROVE  Fresh(driver', g'.dial_gen, reader') /\ Abstract
<1>0. InnerOK(g) /\ g \in Inner /\ DriversOK(driver) /\ "err" \in Result
  BY InnerParts DEF SInv, IInv, Result
<1> DEFINE lost == [g EXCEPT !.out_tx = None, !.session_ready = FALSE, !.queue = MarkUnsent(@)]
           v == [driver[d] EXCEPT !.pc = "sleep", !.resume = ResumeNeeded]
<1>1. UNCHANGED reader
  BY Zenon DEF SocketClosed
<1>2. \/ Finish(d) /\ UNCHANGED g
      \/ g' = [lost EXCEPT !.state = "Closed"] /\ Finish(d)
      \/ /\ g' = [RejectPending(lost) EXCEPT !.state = "Closed"]
         /\ driver' = [RejectedDrivers EXCEPT ![d] = IdleDriver]
      \/ /\ \E n : g' = [lost EXCEPT !.state = "Reconnecting", !.attempt = n]
         /\ driver' = [driver EXCEPT ![d] = v]
  BY Zenon DEF SocketClosed
<1>3. InnerOK(lost) /\ lost \in Inner
  BY <1>0, LostType DEF InnerOK
<1>4. lost.dial_gen = g.dial_gen /\ lost.intentional = g.intentional /\ lost.out_tx = None
  BY <1>0, Zenon DEF Inner
<1>5. v.pc = "sleep"
  BY <1>0, DriverParts, Zenon DEF Driver
<1> HIDE DEF lost, v
<1>6. RejectPending(lost) \in Inner /\ SameConn(lost, RejectPending(lost))
  BY <1>3, RejectPendingType, ConnForget DEF InnerOK
<1>7. Settles(driver, driver')
  <2>1. Settles(driver, [driver EXCEPT ![d] = v])
    BY <1>0, <1>5, SettlesPut, Stays DEF DialingPc
  <2>2. Settles(driver, [RejectedDrivers EXCEPT ![d] = IdleDriver])
    <3>1. Settles(driver, RejectedDrivers) /\ DriversOK(RejectedDrivers)
      BY <1>0, SettlesTell, TellDriverType DEF RejectedDrivers
    <3>2. IdleDriver.pc \notin DialingPc
      BY DEF IdleDriver, DialingPc
    <3> QED BY <1>0, <3>1, <3>2, SettlesPut
  <2> QED BY <1>0, <1>2, <2>1, <2>2, SettlesFinish
<1>8. CASE UNCHANGED g
  BY <1>1, <1>7, <1>8, Aside, Stays DEF Leaves
<1>9. CASE g'.dial_gen = g.dial_gen /\ g'.intentional = g.intentional /\ g'.out_tx = None
  <2>1. Fresh(driver', g'.dial_gen, reader')
    BY <1>1, <1>7, <1>9 DEF SInv, Fresh, Settles
  <2>2. Sockets!Lose
    BY <1>1, <1>9, Mapped DEF Sockets!Lose
  <2> QED BY <2>1, <2>2 DEF Abstract, Sockets!Next
<1>10. UNCHANGED g \/ (g'.dial_gen = g.dial_gen /\ g'.intentional = g.intentional
                        /\ g'.out_tx = None)
  <2> DEFINE Off(j) == /\ j.dial_gen = g.dial_gen /\ j.intentional = g.intentional
                       /\ j.out_tx = None
  <2>1. \A i \in Inner : Off(i) => Off([i EXCEPT !.state = "Closed"])
    BY Zenon DEF Inner
  <2>2. \A n : Off([lost EXCEPT !.state = "Reconnecting", !.attempt = n])
    BY <1>3, <1>4, Zenon DEF Inner
  <2>3. Off(lost) /\ Off(RejectPending(lost))
    BY <1>4, <1>6 DEF SameConn
  <2>4. Off(g') => /\ g'.dial_gen = g.dial_gen /\ g'.intentional = g.intentional
                  /\ g'.out_tx = None
    OBVIOUS
  <2> HIDE DEF Off
  <2>5. lost \in Inner /\ RejectPending(lost) \in Inner
    BY <1>3, <1>6, Zenon
  <2>6. \/ UNCHANGED g
        \/ g' = [lost EXCEPT !.state = "Closed"]
        \/ g' = [RejectPending(lost) EXCEPT !.state = "Closed"]
        \/ \E n : g' = [lost EXCEPT !.state = "Reconnecting", !.attempt = n]
    BY <1>2, Zenon
  <2>7. UNCHANGED g \/ Off(g')
    BY <2>1, <2>2, <2>3, <2>5, <2>6, Zenon
  <2> QED BY <2>4, <2>7, Zenon
<1> QED BY <1>8, <1>9, <1>10

\* dial_inner takes a generation that no other dial and no socket has.
LEMMA DialDials ==
  ASSUME SInv, NEW d \in Drivers, Dial(d)
  PROVE  Fresh(driver', g'.dial_gen, reader') /\ Abstract
<1>0. /\ InnerOK(g) /\ g \in Inner /\ DriversOK(driver) /\ ReadersOK(reader)
      /\ g.dial_gen \in 0 .. MaxGen /\ MaxGen \in Nat
  BY InnerParts, ConstantFacts DEF SInv, IInv
<1> DEFINE v == [driver[d] EXCEPT !.pc = "connecting", !.gen = g.dial_gen + 1]
<1>1. /\ \E st : g' = [g EXCEPT !.dial_gen = g.dial_gen + 1, !.session_ready = FALSE, !.state = st]
      /\ driver' = [driver EXCEPT ![d] = v] /\ UNCHANGED reader /\ g.dial_gen < MaxGen
  BY Zenon DEF Dial
<1>2. g'.dial_gen = g.dial_gen + 1 /\ g'.out_tx = g.out_tx /\ g'.intentional = g.intentional
  BY <1>0, <1>1, Zenon DEF Inner
<1>3. v.pc = "connecting" /\ v.gen = g.dial_gen + 1
  BY <1>0, DriverParts, Zenon DEF Driver
<1> HIDE DEF v
<1>4. \A e \in Drivers : driver'[e] = IF e = d THEN v ELSE driver[e]
  BY <1>0, <1>1 DEF DriversOK
<1>5. Fresh(driver, g.dial_gen, reader)
  BY DEF SInv
<1>6. g.dial_gen + 1 \in Gens
  BY <1>0, <1>1 DEF Gens
<1>7. Fresh(driver', g'.dial_gen, reader')
  <2>1. ASSUME NEW e \in Dialing(driver')
        PROVE  driver'[e].gen \in 1 .. g.dial_gen + 1 /\ reader[driver'[e].gen].pc = "none"
    <3>1. CASE e = d
      BY <1>0, <1>3, <1>4, <1>5, <1>6, <3>1 DEF Fresh, Dialing
    <3>2. CASE e # d
      BY <1>0, <1>4, <1>5, <2>1, <3>2 DEF Fresh, Dialing
    <3> QED BY <3>1, <3>2
  <2>2. ASSUME NEW e \in Dialing(driver'), NEW f \in Dialing(driver'),
               driver'[e].gen = driver'[f].gen
        PROVE  e = f
    BY <1>0, <1>3, <1>4, <1>5, <2>2 DEF Fresh, Dialing
  <2>3. \A s \in Gens : reader[s].pc # "none" => s <= g.dial_gen + 1
    BY <1>0, <1>5 DEF Fresh, Gens
  <2> QED BY <1>1, <1>2, <2>1, <2>2, <2>3 DEF Fresh
<1>8. Sockets!Dial
  BY <1>1, <1>2, Mapped DEF Sockets!Dial
<1> QED BY <1>7, <1>8 DEF Abstract, Sockets!Next

\* Only the newest dial of a session that is not over installs its socket.
LEMMA InstallInstalls ==
  ASSUME SInv, NEW d \in Drivers, Install(d)
  PROVE  Fresh(driver', g'.dial_gen, reader') /\ Abstract
<1>0. /\ InnerOK(g) /\ g \in Inner /\ DriversOK(driver) /\ ReadersOK(reader)
      /\ g.dial_gen \in 0 .. MaxGen /\ MaxGen \in Nat /\ g.intentional \in BOOLEAN
  BY InnerParts, ConstantFacts DEF SInv, IInv
<1> DEFINE s == driver[d].gen
           v == [reader[s] EXCEPT !.pc = "read"]
<1>1. CASE Superseded(d)
  <2>1. DialErr(d) /\ UNCHANGED <<g, reader>>
    BY <1>1, Zenon DEF Install
  <2>2. Settles(driver, driver')
    BY <1>0, <2>1, SettlesErr
  <2> QED BY <2>1, <2>2, Aside, Stays DEF Leaves
<1>2. CASE ~Superseded(d)
  <2>1. /\ g' = [g EXCEPT !.out_tx = s, !.state = "Open", !.attempt = 0]
        /\ reader' = [reader EXCEPT ![s] = v]
        /\ Step(d, "resume") \/ Finish(d)
    BY <1>2, Zenon DEF Install
  <2>2. g'.dial_gen = g.dial_gen /\ g'.out_tx = s /\ g'.intentional = g.intentional
    BY <1>0, <2>1, Zenon DEF Inner
  <2>3. Settles(driver, driver')
    BY <1>0, <2>1, SettlesStep, SettlesFinish DEF DialingPc
  <2>4. Fresh(driver, g.dial_gen, reader) /\ d \in Dialing(driver)
    BY DEF SInv, Install, Dialing, DialingPc
  <2>5. s = g.dial_gen /\ ~g.intentional
    BY <1>2 DEF Superseded
  <2>6. s \in Gens /\ reader[s].pc = "none"
    BY <1>0, <2>4, <2>5 DEF Fresh, Gens
  <2>7. v.pc = "read"
    BY <1>0, <2>6, ReaderParts, Zenon DEF Reader
  <2>8. d \notin Dialing(driver')
    <3>1. driver'[d].pc \in {"resume", "idle"}
      <4>1. CASE Finish(d)
        BY <1>0, <4>1 DEF Finish, IdleDriver, DriversOK
      <4>2. CASE Step(d, "resume")
        <5>1. [driver[d] EXCEPT !.pc = "resume"].pc = "resume"
          BY <1>0, DriverParts, Zenon DEF Driver
        <5>2. driver' = [driver EXCEPT ![d] = [driver[d] EXCEPT !.pc = "resume"]]
          BY <4>2, Zenon DEF Step
        <5>3. driver'[d] = [driver[d] EXCEPT !.pc = "resume"]
          BY <1>0, <5>2, Zenon DEF DriversOK
        <5> QED BY <5>1, <5>3
      <4> QED BY <2>1, <4>1, <4>2
    <3> QED BY <3>1 DEF Dialing, DialingPc
  <2> HIDE DEF v
  <2>9. \A r \in Gens : reader'[r] = IF r = s THEN v ELSE reader[r]
    BY <1>0, <2>1 DEF ReadersOK
  <2> HIDE DEF s
  <2>10. \A e \in Dialing(driver') : /\ e \in Dialing(driver) /\ driver'[e].gen = driver[e].gen
                                     /\ driver[e].gen # s
    BY <2>3, <2>4, <2>8 DEF Settles, Fresh, s
  <2>11. 1 .. g.dial_gen \subseteq Gens
    BY <1>0 DEF Gens
  <2>12. Fresh(driver', g'.dial_gen, reader')
    <3>1. \A e \in Dialing(driver') : /\ driver'[e].gen \in 1 .. g.dial_gen
                                      /\ reader'[driver'[e].gen].pc = "none"
      BY <2>4, <2>9, <2>10, <2>11 DEF Fresh
    <3>2. \A e, f \in Dialing(driver') : driver'[e].gen = driver'[f].gen => e = f
      BY <2>4, <2>10 DEF Fresh
    <3>3. \A r \in Gens : reader'[r].pc # "none" => r <= g.dial_gen
      BY <1>0, <2>4, <2>5, <2>9 DEF Fresh
    <3> QED BY <2>2, <3>1, <3>2, <3>3 DEF Fresh
  <2>13. {r \in Gens : reader'[r].pc # "none"} = {r \in Gens : reader[r].pc # "none"} \cup {s}
    BY <2>6, <2>7, <2>9
  <2>14. g.dial_gen # 0
    BY <1>0, <2>5, <2>6 DEF Gens
  <2>15. Sockets!Install
    BY <2>2, <2>5, <2>6, <2>13, <2>14 DEF Sockets!Install, Sockets!None
  <2> QED BY <2>12, <2>15 DEF Abstract, Sockets!Next
<1> QED BY <1>1, <1>2

\* handle_auth_error ends the session, or hangs up and dials anew.
LEMMA AuthEnds ==
  ASSUME SInv, NEW d \in Drivers, GiveUpAuth(d) \/ RefreshErr(d) \/ RefreshOk(d)
  PROVE  Fresh(driver', g'.dial_gen, reader') /\ Abstract
<1>0. /\ InnerOK(g) /\ g \in Inner /\ DriversOK(driver)
      /\ g.dial_gen \in 0 .. MaxGen /\ MaxGen \in Nat
  BY InnerParts, ConstantFacts DEF SInv, IInv
<1>1. UNCHANGED reader
  BY DEF GiveUpAuth, RefreshErr, RefreshOk
<1>2. Settles(driver, driver')
  <2> DEFINE v == [driver[d] EXCEPT !.pc = "dial", !.resume = ResumeNeeded]
  <2>1. Finish(d) \/ driver' = [driver EXCEPT ![d] = v]
    BY Zenon DEF GiveUpAuth, RefreshErr, RefreshOk
  <2>2. v.pc = "dial"
    BY <1>0, DriverParts, Zenon DEF Driver
  <2> HIDE DEF v
  <2>3. Settles(driver, [driver EXCEPT ![d] = v])
    BY <1>0, <2>2, SettlesPut, Stays DEF DialingPc
  <2> QED BY <1>0, <2>1, <2>3, SettlesFinish
<1>3. CASE GiveUpAuth(d) \/ RefreshErr(d)
  <2>1. g'.dial_gen = g.dial_gen /\ g'.intentional = TRUE /\ g'.out_tx \in {g.out_tx, 0}
    <3>1. \/ g' = [g EXCEPT !.intentional = TRUE, !.state = "Closed", !.out_tx = None]
          \/ g' = [g EXCEPT !.intentional = TRUE, !.state = "Closed"]
      BY <1>3, Zenon DEF GiveUpAuth, RefreshErr
    <3>2. g'.dial_gen = g.dial_gen /\ g'.intentional = TRUE
          /\ (g'.out_tx = g.out_tx \/ g'.out_tx = None)
      BY <1>0, <3>1, Zenon DEF Inner
    <3> QED BY <3>2 DEF None
  <2>2. Fresh(driver', g'.dial_gen, reader')
    BY <1>1, <1>2, <2>1 DEF SInv, Fresh, Settles
  <2>3. Sockets!End
    BY <1>1, <2>1 DEF Sockets!End, Sockets!None
  <2> QED BY <2>2, <2>3 DEF Abstract, Sockets!Next
<1>4. CASE RefreshOk(d)
  <2>1. g'.dial_gen = g.dial_gen + 1 /\ g'.intentional = g.intentional /\ g'.out_tx = 0
    <3>1. g' = [g EXCEPT !.dial_gen = g.dial_gen + 1, !.session_ready = FALSE, !.out_tx = None]
      BY <1>4, Zenon DEF RefreshOk
    <3>2. g'.dial_gen = g.dial_gen + 1 /\ g'.intentional = g.intentional /\ g'.out_tx = None
      BY <1>0, <3>1, Zenon DEF Inner
    <3> QED BY <3>2 DEF None
  <2>2. Fresh(driver', g'.dial_gen, reader')
    <3>1. Fresh(driver, g.dial_gen, reader)
      BY DEF SInv
    <3>2. \A e \in Dialing(driver') : /\ e \in Dialing(driver) /\ driver'[e].gen = driver[e].gen
      BY <1>2 DEF Settles
    <3>3. \A n \in 1 .. g.dial_gen : n \in 1 .. g.dial_gen + 1
      BY <1>0
    <3>4. \A s \in Gens : reader[s].pc # "none" => s <= g.dial_gen + 1
      BY <1>0, <3>1 DEF Fresh, Gens
    <3> QED BY <1>1, <2>1, <3>1, <3>2, <3>3, <3>4 DEF Fresh
  <2>3. Sockets!Dial
    BY <1>1, <2>1 DEF Sockets!Dial, Sockets!None
  <2> QED BY <2>2, <2>3 DEF Abstract, Sockets!Next
<1> QED BY <1>3, <1>4

\* The other steps of a dialing task leave the sockets alone.
LEMMA DriverStepAside ==
  ASSUME SInv, NEW d \in Drivers, DriverStep(d)
  PROVE  Fresh(driver', g'.dial_gen, reader') /\ Abstract
<1>0. /\ InnerOK(g) /\ g \in Inner /\ DriversOK(driver) /\ ReadersOK(reader)
      /\ driver[d] \in Driver /\ "err" \in Result
      /\ \A pc \in {"dial", "relocate", "resume", "retrySleep", "waitResume"} : pc \notin DialingPc
  BY InnerParts, DriverParts DEF SInv, IInv, Result, DialingPc
<1>a. ASSUME NEW v, v.pc \notin DialingPc, driver' = [driver EXCEPT ![d] = v]
      PROVE  Settles(driver, driver')
  BY <1>0, <1>a, SettlesPut, Stays
<1>1. CASE SocketClosed(d)
  BY <1>1, SocketClosedLoses
<1>2. CASE GiveUpAuth(d) \/ RefreshErr(d) \/ RefreshOk(d)
  BY <1>2, AuthEnds
<1>3. CASE Dial(d)
  BY <1>3, DialDials
<1>4. CASE Install(d)
  BY <1>4, InstallInstalls
<1>5. CASE Wake(d) \/ DialRelocated(d) \/ DialFails(d) \/ ResumeReturns(d) \/ ResumeRetry(d)
  <2>1. UNCHANGED <<g, reader>>
    BY <1>5 DEF Wake, DialRelocated, DialFails, ResumeReturns, ResumeRetry
  <2>2. \/ Finish(d) \/ DialErr(d) \/ Step(d, "dial") \/ Step(d, "relocate")
        \/ Step(d, "retrySleep") \/ Step(d, "resume")
    BY <1>5 DEF Wake, DialRelocated, DialFails, ResumeReturns, ResumeRetry
  <2>3. Settles(driver, driver')
    BY <1>0, <2>2, SettlesStep, SettlesFinish, SettlesErr
  <2> QED BY <2>1, <2>3, Aside, Stays DEF Leaves
<1>6. CASE HandleRelocate(d)
  <2> DEFINE v == [driver[d] EXCEPT !.pc = "dial", !.resume = driver[d].resume \/ ResumeNeeded]
  <2>1. /\ DialErr(d) \/ driver' = [driver EXCEPT ![d] = v]
        /\ UNCHANGED <<g, reader>>
    BY <1>6, Zenon DEF HandleRelocate
  <2>2. v.pc = "dial"
    BY <1>0, Zenon DEF Driver
  <2> HIDE DEF v
  <2>3. Settles(driver, driver')
    BY <1>0, <1>a, <2>1, <2>2, SettlesErr
  <2> QED BY <2>1, <2>3, Aside, Stays DEF Leaves
<1>7. CASE DialHello(d)
  <2> DEFINE v == [driver[d] EXCEPT !.pc = "install"]
  <2>1. driver' = [driver EXCEPT ![d] = v] /\ UNCHANGED <<g, reader>> /\ d \in Dialing(driver)
    BY <1>7, Zenon DEF DialHello, Step, Dialing, DialingPc
  <2>2. v.gen = driver[d].gen
    BY <1>0, Zenon DEF Driver
  <2> HIDE DEF v
  <2>3. \A e \in Drivers : driver'[e] = IF e = d THEN v ELSE driver[e]
    BY <1>0, <2>1 DEF DriversOK
  <2>4. Settles(driver, driver')
    BY <2>1, <2>2, <2>3 DEF Settles, Dialing
  <2> QED BY <2>1, <2>4, Aside, Stays DEF Leaves
<1>8. CASE ResumeRegister(d)
  <2> DEFINE v == [driver[d] EXCEPT !.pc = "sendResume", !.uid = g.track_uid, !.res = "pending"]
             told == TellDriver(driver, g.resume_wait, "err")
  <2>1. /\ UNCHANGED reader
        /\ \/ Finish(d) /\ UNCHANGED g
           \/ g' = [g EXCEPT !.resume_wait = d] /\ driver' = [told EXCEPT ![d] = v]
    BY <1>8, Zenon DEF ResumeRegister
  <2>2. v.pc = "sendResume"
    BY <1>0, Zenon DEF Driver
  <2>3. DriversOK(told) /\ Settles(driver, told)
    BY <1>0, TellDriverType, SettlesTell
  <2> HIDE DEF v, told
  <2>4. Settles(driver, [told EXCEPT ![d] = v])
    BY <1>0, <2>2, <2>3, SettlesPut DEF DialingPc
  <2>5. Settles(driver, driver')
    BY <1>0, <2>1, <2>4, SettlesFinish
  <2>6. SameConn(g, [g EXCEPT !.resume_wait = d]) /\ SameConn(g, g)
    BY <1>0, ConnPut, Stays
  <2>7. SameConn(g, g')
    BY <2>1, <2>6
  <2> QED BY <2>1, <2>5, <2>7, Aside, Stays DEF Leaves
<1>9. CASE ResumeSend(d)
  <2>1. \/ Step(d, "waitResume") /\ UNCHANGED reader
        \/ DialErr(d) /\ Unheard(d)
    BY <1>9 DEF ResumeSend
  <2>2. Settles(driver, driver')
    BY <1>0, <2>1, SettlesStep, SettlesErr
  <2>3. SamePhase(reader, reader')
    BY <1>0, <2>1, PhaseUnheard, Stays
  <2> QED BY <1>9, <2>2, <2>3, Aside, Stays DEF ResumeSend, Leaves
<1>10. CASE ReconnectFailed(d)
  <2> DEFINE v == [driver[d] EXCEPT !.pc = "closed", !.gen = g.dial_gen, !.origin = "reconnect"]
  <2>1. driver' = [driver EXCEPT ![d] = v] /\ UNCHANGED <<g, reader>>
    BY <1>10, Zenon DEF ReconnectFailed
  <2>2. v.pc = "closed"
    BY <1>0, Zenon DEF Driver
  <2> HIDE DEF v
  <2>3. Settles(driver, driver')
    BY <1>a, <2>1, <2>2 DEF DialingPc
  <2> QED BY <2>1, <2>3, Aside, Stays DEF Leaves
<1> QED BY <1>1, <1>2, <1>3, <1>4, <1>5, <1>6, <1>7, <1>8, <1>9, <1>10 DEF DriverStep

-----------------------------------------------------------------------------
(* The theorems.                                                             *)

\* connect() has dialed nothing yet.
LEMMA InitFresh ==
  ASSUME Init
  PROVE  SInv /\ Sockets!Init
<1>1. IInv
  BY InitType
<1>2. /\ g.dial_gen = 0 /\ g.out_tx = None /\ g.intentional = FALSE
      /\ reader = [s \in Gens |-> IdleReader]
  BY DEF Init
<1>3. \A s \in Gens : reader[s].pc = "none"
  BY <1>2 DEF IdleReader
<1>4. Dialing(driver) = {}
  <2>1. \A d \in Drivers : driver[d].pc \in {"dial", "idle"}
    <3> DEFINE first == [IdleDriver EXCEPT !.pc = "dial", !.origin = "connect"]
    <3>1. driver = [d \in Drivers |-> IF d = FirstDriver THEN first ELSE IdleDriver]
      BY Zenon DEF Init
    <3>2. first.pc = "dial" /\ IdleDriver.pc = "idle"
      BY DEF IdleDriver
    <3> HIDE DEF first
    <3> QED BY <3>1, <3>2
  <2> QED BY <2>1 DEF Dialing, DialingPc
<1>5. SInv
  BY <1>1, <1>2, <1>3, <1>4 DEF SInv, Fresh
<1> QED BY <1>2, <1>3, <1>5 DEF Sockets!Init, Sockets!None, None

\* Every step of every task is a step of Connection, or none of its steps.
LEMMA StepsKeepSockets ==
  ASSUME SInv, [Next]_vars
  PROVE  SInv' /\ Abstract
<1>1. IInv'
  BY StepsKeepIInv DEF SInv
<1>2. ASSUME NEW p \in Procs, NewCall(p) \/ CallStep(p)
      PROVE  Fresh(driver', g'.dial_gen, reader') /\ Abstract
  BY <1>2, NewCallLeaves, CallStepLeaves, CloseEnds, Aside
<1>3. ASSUME NEW d \in Drivers, DriverStep(d)
      PROVE  Fresh(driver', g'.dial_gen, reader') /\ Abstract
  BY <1>3, DriverStepAside
<1>4. ASSUME NEW s \in Gens, ReaderStep(s)
      PROVE  Fresh(driver', g'.dial_gen, reader') /\ Abstract
  BY <1>4, ReaderStepLeaves, Aside
<1>5. ASSUME (\E s \in Gens : ServerStep(s) \/ Environment(s)) \/ ServerForgets
      PROVE  Fresh(driver', g'.dial_gen, reader') /\ Abstract
  BY <1>5, ServerLeaves, Aside
<1>6. ASSUME UNCHANGED vars
      PROVE  Fresh(driver', g'.dial_gen, reader') /\ Abstract
  <2>1. UNCHANGED <<g, driver, reader>>
    BY <1>6 DEF vars
  <2> QED BY <2>1, Aside, Stays DEF Leaves
<1>7. Fresh(driver', g'.dial_gen, reader') /\ Abstract
  BY <1>2, <1>3, <1>4, <1>5, <1>6 DEF Next
<1> QED BY <1>1, <1>7 DEF SInv

\* connect, on_socket_closed, handle_relocate, handle_auth_error and close()
\* implement Connection, however many of them run at a time.
THEOREM ImplementsConnection == Spec => KeepsConnection
<1>1. Init => SInv /\ Sockets!Init
  BY InitFresh
<1>2. SInv /\ [Next]_vars => SInv' /\ [Sockets!Next]_(Sockets!connection)
  BY StepsKeepSockets DEF Abstract
<1> QED BY <1>1, <1>2, PTL DEF Spec, KeepsConnection, Sockets!Spec

\* What a step of Connection does to the socket that is sent on.
LEMMA SocketStep ==
  ASSUME SInv, Abstract
  PROVE  /\ g'.out_tx \notin {None, g.out_tx} =>
              /\ g'.out_tx = g'.dial_gen
              /\ \A s \in Gens : reader[s].pc # "none" => s < g'.out_tx
         /\ g.intentional => g'.intentional /\ g'.out_tx \in {None, g.out_tx}
<1>0. /\ \A s \in Gens : reader[s].pc # "none" => s <= g.dial_gen
      /\ g.dial_gen \in Nat /\ Gens \subseteq Nat
  BY InnerParts, ConstantFacts DEF SInv, IInv, Fresh, Gens
<1>1. CASE Sockets!Install
  <2>1. /\ g'.out_tx = g.dial_gen /\ g'.dial_gen = g.dial_gen /\ ~g.intentional
        /\ ~(g.dial_gen \in Gens /\ reader[g.dial_gen].pc # "none")
    BY <1>1 DEF Sockets!Install
  <2> QED BY <1>0, <2>1
<1>2. CASE \/ Sockets!Dial \/ Sockets!Lose \/ Sockets!End \/ UNCHANGED Sockets!connection
  BY <1>2, Mapped DEF Sockets!Dial, Sockets!Lose, Sockets!End, Sockets!connection
<1> QED BY <1>1, <1>2 DEF Abstract, Sockets!Next

\* dial_inner installs a socket once, and never after a newer one.
THEOREM NewestWins == Spec => NewestSocketWins
<1>1. Init => SInv
  BY InitFresh
<1>2. SInv /\ [Next]_vars => SInv'
  BY StepsKeepSockets
<1>3. SInv /\ [Next]_vars =>
        [g'.out_tx \notin {None, g.out_tx} =>
           /\ g'.out_tx = g'.dial_gen
           /\ \A s \in Gens : reader[s].pc # "none" => s < g'.out_tx]_vars
  BY StepsKeepSockets, SocketStep
<1> QED BY <1>1, <1>2, <1>3, PTL DEF Spec, NewestSocketWins

\* close() and a failed refresh of the credentials are final.
THEOREM StaysClosed == Spec => ClosedForGood
<1>1. Init => SInv
  BY InitFresh
<1>2. SInv /\ [Next]_vars => SInv'
  BY StepsKeepSockets
<1>3. SInv /\ [Next]_vars =>
        [g.intentional => g'.intentional /\ g'.out_tx \in {None, g.out_tx}]_vars
  BY StepsKeepSockets, SocketStep
<1> QED BY <1>1, <1>2, <1>3, PTL DEF Spec, ClosedForGood
-----------------------------------------------------------------------------
(* The session keeps itself alive.                                           *)

(* Driven once more, of given values.                                        *)
Engaged(v, n) == \/ v.pc \in {"sleep", "relocate", "dial", "failed", "gone"}
                 \/ v.pc \in {"closed", "connecting", "install"} /\ v.gen = n
Served(i, r)  == i.out_tx # None /\ i.out_tx = i.dial_gen /\ r[i.out_tx].pc # "done"
Over(i)       == i.intentional \/ i.state = "Closed"

(* Other tasks do not interfere: all but one stay where they are.            *)
Alike(v, u) == u.pc = v.pc /\ u.gen = v.gen /\ u.origin = v.origin
Follows(f, h, d) == \A e \in Drivers \ {d} : Alike(f[e], h[e])
Awake(r, q) == \A s \in Gens : q[s].pc = "done" => r[s].pc = "done"

-----------------------------------------------------------------------------
(* What the other tasks do.                                                  *)

\* The answer to a Resume moves nobody.
LEMMA FollowsTell ==
  ASSUME NEW f, DriversOK(f), NEW w, NEW r \in Result, NEW d
  PROVE  Follows(f, TellDriver(f, w, r), d)
<1>1. CASE ~(w \in Drivers /\ f[w].pc \in {"sendResume", "waitResume"})
  <2>1. TellDriver(f, w, r) = f
    BY <1>1, Zenon DEF TellDriver
  <2> QED BY <2>1 DEF Follows, Alike
<1>2. CASE w \in Drivers /\ f[w].pc \in {"sendResume", "waitResume"}
  <2> DEFINE v == [f[w] EXCEPT !.res = r]
  <2>1. Alike(f[w], v)
    BY <1>2, DriverParts, Zenon DEF Driver, Alike
  <2>2. TellDriver(f, w, r) = [f EXCEPT ![w] = v]
    BY <1>2, Zenon DEF TellDriver
  <2> HIDE DEF v
  <2>3. \A e \in Drivers : [f EXCEPT ![w] = v][e] = IF e = w THEN v ELSE f[e]
    BY DEF DriversOK
  <2> QED BY <2>1, <2>2, <2>3 DEF Follows, Alike
<1> QED BY <1>1, <1>2

\* A task that takes a step, ends or begins.
LEMMA FollowsPut ==
  ASSUME NEW f, NEW h, DriversOK(h), NEW d \in Drivers, Follows(f, h, d), NEW v
  PROVE  Follows(f, [h EXCEPT ![d] = v], d) /\ [h EXCEPT ![d] = v][d] = v
<1>1. \A e \in Drivers : [h EXCEPT ![d] = v][e] = IF e = d THEN v ELSE h[e]
  BY DEF DriversOK
<1> QED BY <1>1 DEF Follows

\* A new task takes a free slot.
LEMMA FollowsSpawn ==
  ASSUME NEW f, DriversOK(f), NEW h, DriversOK(h), \A d : Follows(f, h, d), NEW v, SpawnIn(h, v)
  PROVE  \E d \in Drivers : f[d].pc = "idle" /\ Follows(f, driver', d) /\ driver'[d] = v
<1>1. PICK d \in Drivers : h[d].pc = "idle" /\ driver' = [h EXCEPT ![d] = v]
  BY Zenon DEF SpawnIn
<1>2. f[d].pc = "idle"
  <2>1. 0 \notin Drivers
    BY ClientAssumption DEF ClientAssumption
  <2> QED BY <1>1, <2>1 DEF Follows, Alike
<1>3. Follows(f, [h EXCEPT ![d] = v], d) /\ [h EXCEPT ![d] = v][d] = v
  BY FollowsPut
<1> QED BY <1>1, <1>2, <1>3

\* Where a task is after a step of its own.
LEMMA OwnStep ==
  ASSUME DriversOK(driver), NEW d \in Drivers, NEW x, Step(d, x)
  PROVE  /\ Follows(driver, driver', d) /\ driver'[d].pc = x
         /\ driver'[d].gen = driver[d].gen /\ driver'[d].origin = driver[d].origin
<1> DEFINE v == [driver[d] EXCEPT !.pc = x]
<1>0. Follows(driver, driver, d)
  BY DEF Follows, Alike
<1>1. v.pc = x /\ v.gen = driver[d].gen /\ v.origin = driver[d].origin
  BY DriverParts, Zenon DEF Driver
<1>2. driver' = [driver EXCEPT ![d] = v]
  BY Zenon DEF Step
<1> HIDE DEF v
<1>3. Follows(driver, [driver EXCEPT ![d] = v], d) /\ [driver EXCEPT ![d] = v][d] = v
  BY <1>0, FollowsPut
<1> QED BY <1>1, <1>2, <1>3

\* The end of a task.
LEMMA OwnFinish ==
  ASSUME DriversOK(driver), NEW d \in Drivers, Finish(d)
  PROVE  Follows(driver, driver', d) /\ driver'[d].pc = "idle"
<1>0. Follows(driver, driver, d)
  BY DEF Follows, Alike
<1>1. IdleDriver.pc = "idle"
  BY DEF IdleDriver
<1>2. /\ Follows(driver, [driver EXCEPT ![d] = IdleDriver], d)
      /\ [driver EXCEPT ![d] = IdleDriver][d] = IdleDriver
  BY <1>0, FollowsPut
<1> QED BY <1>1, <1>2, Zenon DEF Finish

\* What becomes of a failed dial.
LEMMA OwnErr ==
  ASSUME DriversOK(driver), NEW d \in Drivers, DialErr(d)
  PROVE  /\ Follows(driver, driver', d)
         /\ \/ driver'[d].pc = "idle" /\ driver[d].origin = "ignore"
            \/ driver'[d].pc \in {"gone", "failed"}
<1>1. \/ Finish(d) /\ driver[d].origin = "ignore"
      \/ Step(d, "gone") /\ driver[d].origin = "connect"
      \/ Step(d, "failed")
  BY Zenon DEF DialErr
<1> QED BY <1>1, OwnStep, OwnFinish

-----------------------------------------------------------------------------
(* How the session stays driven.                                             *)

LEMMA DrivenMeans ==
  Driven <=> Over(g) \/ Served(g, reader) \/ \E d \in Drivers : Engaged(driver[d], g.dial_gen)
BY DEF Driven, Works, Over, Served, Engaged

\* A task is at work, or the session is over.
LEMMA AtWork ==
  ASSUME Over(g') \/ Served(g', reader') \/ \E d \in Drivers : Engaged(driver'[d], g'.dial_gen)
  PROVE  Driven'
BY DEF Driven, Works, Over, Served, Engaged

\* Whoever was at work is still at work.
LEMMA GoesOn ==
  ASSUME IInv, Driven, SameConn(g, g'), Awake(reader, reader'),
         NEW e, Follows(driver, driver', e), e \in Drivers => ~Engaged(driver[e], g.dial_gen)
  PROVE  Driven'
<1>0. g.dial_gen \in 0 .. MaxGen /\ MaxGen \in Nat
  BY InnerParts, ConstantFacts DEF IInv
<1>1. /\ g'.dial_gen = g.dial_gen /\ g'.out_tx = g.out_tx
      /\ g'.intentional = g.intentional /\ g'.state = g.state
  BY DEF SameConn
<1>2. CASE Over(g)
  BY <1>1, <1>2, AtWork DEF Over
<1>3. CASE Served(g, reader)
  <2>1. g.out_tx \in Gens
    BY <1>0, <1>3 DEF Gens, Served, None
  <2>2. Served(g', reader')
    BY <1>1, <1>3, <2>1 DEF Served, Awake
  <2> QED BY <2>2, AtWork
<1>4. CASE \E d \in Drivers : Engaged(driver[d], g.dial_gen)
  <2>1. PICK d \in Drivers : Engaged(driver[d], g.dial_gen)
    BY <1>4
  <2>2. Alike(driver[d], driver'[d])
    BY <2>1 DEF Follows
  <2>3. Engaged(driver'[d], g'.dial_gen)
    BY <1>1, <2>1, <2>2 DEF Engaged, Alike
  <2> QED BY <2>3, AtWork
<1> QED BY <1>2, <1>3, <1>4, DrivenMeans

\* A read loop that goes on, and a dropped receiver.
LEMMA AwakePut ==
  ASSUME ReadersOK(reader), NEW s \in Gens, NEW v, v.pc \notin {"none", "done"},
         reader' = [reader EXCEPT ![s] = v]
  PROVE  Awake(reader, reader')
BY DEF Awake, ReadersOK

LEMMA AwakeUnheard ==
  ASSUME ReadersOK(reader), NEW w, Unheard(w)
  PROVE  Awake(reader, reader')
<1>1. ASSUME NEW s \in Gens PROVE reader'[s].pc = reader[s].pc
  <2>1. [reader[s] EXCEPT !.wake = NoOne].pc = reader[s].pc
    BY ReaderParts, Zenon DEF Reader
  <2> QED BY <2>1, Zenon DEF Unheard
<1> QED BY <1>1 DEF Awake

-----------------------------------------------------------------------------
(* Every step keeps the session driven.                                      *)

\* Calls leave dialing to others, and close() ends the session.
LEMMA CallsDrive ==
  ASSUME SInv, Driven, NEW p \in Procs, NewCall(p) \/ CallStep(p)
  PROVE  Driven'
<1>0. /\ IInv /\ DriversOK(driver) /\ ReadersOK(reader)
      /\ g \in Inner /\ InnerOK(g) /\ "err" \in Result /\ 0 \notin Drivers
  BY InnerParts, ClientAssumption DEF SInv, IInv, Result, ClientAssumption
<1>1. Follows(driver, driver', 0)
  <2>1. UNCHANGED driver \/ \E w : driver' = TellDriver(driver, w, "err")
    <3>1. CASE NewCall(p)
      BY <3>1 DEF NewCall, PublishBegin, StartTrack, StopTrack, ManualResume, SendEvent, CloseBegin
    <3>2. CASE ManualRegister(p) \/ ManualFailed(p) \/ Close(p)
      BY <3>2, Zenon DEF ManualRegister, ManualFailed, Close, RejectedDrivers
    <3>3. CASE CallStep(p) /\ ~(ManualRegister(p) \/ ManualFailed(p) \/ Close(p))
      BY <3>3 DEF CallStep, PublishStart, PublishStartFailed, PublishStage, PublishLive,
         PublishSend, StartSend, StartFailed, StopRegister, StopSend, StopFailed, CallReturns,
         ManualSend, ManualReturns, EventSend, CloseSend
    <3> QED BY <3>1, <3>2, <3>3
  <2>2. UNCHANGED driver => Follows(driver, driver', 0)
    BY DEF Follows, Alike
  <2> QED BY <1>0, <2>1, <2>2, FollowsTell
<1>2. Awake(reader, reader')
  <2>1. UNCHANGED reader \/ Unheard(p)
    <3>1. CASE NewCall(p)
      BY <3>1 DEF NewCall, PublishBegin, StartTrack, StopTrack, ManualResume, SendEvent, CloseBegin
    <3>2. CASE StartFailed(p) \/ StopFailed(p) \/ ManualFailed(p)
      BY <3>2, Zenon DEF StartFailed, StopFailed, ManualFailed
    <3>3. CASE CallStep(p) /\ ~(StartFailed(p) \/ StopFailed(p) \/ ManualFailed(p))
      BY <3>3 DEF CallStep, PublishStart, PublishStartFailed, PublishStage, PublishLive,
         PublishSend, StartSend, StopRegister, StopSend, CallReturns, ManualRegister,
         ManualSend, ManualReturns, EventSend, CloseSend, Close
    <3> QED BY <3>1, <3>2, <3>3
  <2>2. UNCHANGED reader => Awake(reader, reader')
    BY DEF Awake
  <2> QED BY <1>0, <2>1, <2>2, AwakeUnheard
<1>3. CASE Close(p)
  <2>1. g' = [RejectPending(g) EXCEPT !.intentional = TRUE, !.state = "Closed",
                                      !.session_ready = FALSE, !.out_tx = None]
    BY <1>3, Zenon DEF Close
  <2>2. RejectPending(g) \in Inner
    BY <1>0, RejectPendingType DEF InnerOK
  <2>3. g'.state = "Closed"
    BY <2>1, <2>2, Zenon DEF Inner
  <2> QED BY <2>3, AtWork DEF Over
<1>4. CASE ~Close(p)
  <2>1. SameConn(g, g')
    BY <1>0, <1>4, NewCallLeaves, CallStepLeaves DEF Leaves
  <2> QED BY <1>0, <1>1, <1>2, <2>1, GoesOn
<1> QED BY <1>3, <1>4

\* A read loop that ends leaves a task that reconnects; the others go on.
LEMMA ReadersDrive ==
  ASSUME SInv, Driven, NEW s \in Gens, ReaderStep(s)
  PROVE  Driven'
<1>0. /\ IInv /\ DriversOK(driver) /\ ReadersOK(reader)
      /\ g \in Inner /\ InnerOK(g) /\ {"ok", "err", "retry"} \subseteq Result /\ 0 \notin Drivers
  BY InnerParts, ClientAssumption DEF SInv, IInv, Result, ClientAssumption
<1>1. SameConn(g, g')
  BY <1>0, ReaderStepLeaves DEF Leaves
<1>2. UNCHANGED driver => Follows(driver, driver', 0)
  BY DEF Follows, Alike
<1>3. UNCHANGED reader => Awake(reader, reader')
  BY DEF Awake
<1>a. ASSUME Awake(reader, reader'), Follows(driver, driver', 0) PROVE Driven'
  BY <1>0, <1>1, <1>a, GoesOn
<1>b. ASSUME NEW e \in Drivers, driver[e].pc = "idle", Follows(driver, driver', e),
             Awake(reader, reader')
      PROVE  Driven'
  <2>1. ~Engaged(driver[e], g.dial_gen)
    BY <1>b DEF Engaged
  <2> QED BY <1>0, <1>1, <1>b, <2>1, GoesOn
<1>c. ASSUME Wakeup(s) PROVE Awake(reader, reader') /\ Follows(driver, driver', 0)
  <2>1. Follows(driver, driver', 0)
    BY <1>0, <1>c, FollowsTell DEF Wakeup
  <2>2. PICK v : v.pc \notin {"none", "done"} /\ reader' = [reader EXCEPT ![s] = v]
    BY <1>0, <1>c, ReadsOn, Zenon
  <2> QED BY <1>0, <2>1, <2>2, AwakePut
<1>4. CASE OnResumeOk(s) \/ OnTrackStarted(s) \/ OnAck(s)
  <2>1. UNCHANGED driver /\ \E w : FlushThen(s, w)
    BY <1>4, Zenon DEF OnResumeOk, OnTrackStarted, OnAck
  <2>2. PICK v : v.pc \notin {"none", "done"} /\ reader' = [reader EXCEPT ![s] = v]
    BY <1>0, <1>4, <2>1, ReadsOn, Zenon
  <2>3. Awake(reader, reader')
    BY <1>0, <2>2, AwakePut
  <2> QED BY <1>2, <1>a, <2>1, <2>3
<1>5. CASE OnTrackStopped(s)
  <2>1. UNCHANGED <<driver, reader>>
    BY <1>5 DEF OnTrackStopped
  <2> QED BY <1>2, <1>3, <1>a, <2>1
<1>6. ASSUME NEW code \in ErrorCodes, OnError(s, code) PROVE Driven'
  <2> DEFINE answer == IF code = "TryAgain" THEN "retry" ELSE "err"
             told   == TellDriver(driver, g.resume_wait, answer)
             fresh  == [IdleDriver EXCEPT !.pc = "auth"]
  <2>1. /\ IF code \in AuthErrors THEN SpawnIn(told, fresh) ELSE driver' = told
        /\ UNCHANGED reader
    BY <1>6, Zenon DEF OnError
  <2>2. answer \in Result
    BY <1>0
  <2> HIDE DEF answer
  <2>3. DriversOK(told) /\ \A d : Follows(driver, told, d)
    BY <1>0, <2>2, TellDriverType, FollowsTell
  <2> HIDE DEF told, fresh
  <2>4. CASE code \in AuthErrors
    <3>1. PICK d \in Drivers : driver[d].pc = "idle" /\ Follows(driver, driver', d)
      BY <1>0, <2>1, <2>3, <2>4, FollowsSpawn
    <3> QED BY <1>3, <1>b, <2>1, <3>1
  <2>5. CASE code \notin AuthErrors
    BY <1>3, <1>a, <2>1, <2>3, <2>5
  <2> QED BY <2>4, <2>5
<1>7. CASE OnRelocate(s)
  <2>1. /\ SpawnIn(driver, [IdleDriver EXCEPT !.pc = "relocate", !.resume = TRUE])
        /\ UNCHANGED reader
    BY <1>7, Zenon DEF OnRelocate, Spawn
  <2>2. \A d : Follows(driver, driver, d)
    BY DEF Follows, Alike
  <2>3. PICK d \in Drivers : driver[d].pc = "idle" /\ Follows(driver, driver', d)
    BY <1>0, <2>1, <2>2, FollowsSpawn
  <2> QED BY <1>3, <1>b, <2>1, <2>3
<1>8. CASE FlushQueue(s)
  <2>1. \/ /\ \E out : reader' = [reader EXCEPT ![s] = [@ EXCEPT !.pc = "send", !.out = out]]
           /\ UNCHANGED driver
        \/ Wakeup(s)
    BY <1>8, Zenon DEF FlushQueue
  <2>2. PICK v : v.pc \notin {"none", "done"} /\ reader' = [reader EXCEPT ![s] = v]
    BY <1>0, <1>8, <2>1, ReadsOn, Zenon
  <2>3. Awake(reader, reader')
    BY <1>0, <2>2, AwakePut
  <2> QED BY <1>2, <1>a, <1>c, <2>1, <2>3
<1>9. CASE SendFrame(s)
  <2>1. CASE Wakeup(s)
    BY <1>a, <1>c, <2>1
  <2>2. ASSUME UNCHANGED driver, NEW v, v.pc \notin {"none", "done"},
               reader' = [reader EXCEPT ![s] = v]
        PROVE  Driven'
    BY <1>0, <1>2, <1>a, <2>2, AwakePut
  <2> QED BY <1>0, <1>9, <2>1, <2>2, SendsOn
<1>10. CASE ReaderEnds(s)
  <2> DEFINE v == [IdleDriver EXCEPT !.pc = "closed", !.origin = "reconnect", !.gen = s]
  <2>1. v.pc = "closed" /\ v.origin = "reconnect" /\ v.gen = s
    BY IdleDriverType, ConstantFacts, Zenon DEF Driver
  <2>2. /\ SpawnIn(driver, v) /\ UNCHANGED g
        /\ reader' = [reader EXCEPT ![s].pc = "done"]
    BY <1>10, Zenon DEF ReaderEnds, Spawn
  <2> HIDE DEF v
  <2>3. \A d : Follows(driver, driver, d)
    BY DEF Follows, Alike
  <2>4. PICK d \in Drivers : driver[d].pc = "idle" /\ Follows(driver, driver', d) /\ driver'[d] = v
    BY <1>0, <2>2, <2>3, FollowsSpawn
  <2>6. CASE s = g.dial_gen
    <3>1. Engaged(driver'[d], g'.dial_gen)
      BY <2>1, <2>2, <2>4, <2>6 DEF Engaged
    <3> QED BY <2>2, <3>1, AtWork
  <2>7. CASE s # g.dial_gen
    <3>1. \A n \in Gens : n # s => reader'[n] = reader[n]
      BY <1>0, <2>2 DEF ReadersOK
    <3>2. g.dial_gen \in 0 .. MaxGen /\ MaxGen \in Nat
      BY <1>0, InnerParts, ConstantFacts
    <3>3. CASE Served(g, reader)
      <4>1. reader'[g.out_tx] = reader[g.out_tx]
        BY <2>7, <3>1, <3>2, <3>3 DEF Gens, Served, None
      <4>2. Served(g', reader')
        BY <2>2, <3>3, <4>1 DEF Served
      <4> QED BY <4>2, AtWork
    <3>4. ASSUME NEW e \in Drivers, Engaged(driver[e], g.dial_gen) PROVE Driven'
      <4>1. e # d
        BY <2>4, <3>4 DEF Engaged
      <4>2. Alike(driver[e], driver'[e])
        BY <2>4, <4>1 DEF Follows
      <4>3. Engaged(driver'[e], g'.dial_gen)
        BY <2>2, <3>4, <4>2 DEF Engaged, Alike
      <4> QED BY <4>3, AtWork
    <3>5. CASE Over(g)
      BY <2>2, <3>5, AtWork
    <3> QED BY <3>3, <3>4, <3>5, DrivenMeans
  <2> QED BY <2>6, <2>7
<1> QED BY <1>4, <1>5, <1>6, <1>7, <1>8, <1>9, <1>10 DEF ReaderStep

\* on_socket_closed: a task for an old socket has no part in this, the one for
\* the newest closes the session or reconnects.
LEMMA SocketClosedDrives ==
  ASSUME SInv, Driven, NEW d \in Drivers, SocketClosed(d)
  PROVE  Driven'
<1>0. /\ IInv /\ InnerOK(g) /\ g \in Inner /\ DriversOK(driver) /\ "err" \in Result
      /\ driver[d] \in Driver /\ driver[d].pc = "closed"
  BY InnerParts, DriverParts DEF SInv, IInv, Result, SocketClosed
<1> DEFINE lost == [g EXCEPT !.out_tx = None, !.session_ready = FALSE, !.queue = MarkUnsent(@)]
           v == [driver[d] EXCEPT !.pc = "sleep", !.resume = ResumeNeeded]
<1>1. UNCHANGED reader
  BY Zenon DEF SocketClosed
<1>2. \/ driver[d].gen # g.dial_gen /\ Finish(d) /\ UNCHANGED g
      \/ g' = [lost EXCEPT !.state = "Closed"] /\ Finish(d)
      \/ /\ g' = [RejectPending(lost) EXCEPT !.state = "Closed"]
         /\ driver' = [RejectedDrivers EXCEPT ![d] = IdleDriver]
      \/ driver' = [driver EXCEPT ![d] = v]
  BY Zenon DEF SocketClosed
<1>3. InnerOK(lost) /\ lost \in Inner
  BY <1>0, LostType DEF InnerOK
<1>4. v.pc = "sleep"
  BY <1>0, Zenon DEF Driver
<1> HIDE DEF lost, v
<1>5. RejectPending(lost) \in Inner
  BY <1>3, RejectPendingType DEF InnerOK
<1>6. \A i \in Inner : [i EXCEPT !.state = "Closed"].state = "Closed"
  BY Zenon DEF Inner
<1>7. Follows(driver, driver', d)
  <2>1. Follows(driver, driver, d)
    BY DEF Follows, Alike
  <2>2. DriversOK(RejectedDrivers) /\ Follows(driver, RejectedDrivers, d)
    BY <1>0, TellDriverType, FollowsTell DEF RejectedDrivers
  <2>3. Follows(driver, [RejectedDrivers EXCEPT ![d] = IdleDriver], d)
    BY <2>2, FollowsPut
  <2>4. Follows(driver, [driver EXCEPT ![d] = v], d)
    BY <1>0, <2>1, FollowsPut
  <2>5. CASE Finish(d)
    BY <1>0, <2>5, OwnFinish
  <2>6. CASE driver' = [RejectedDrivers EXCEPT ![d] = IdleDriver]
    BY <2>3, <2>6, Zenon
  <2>7. CASE driver' = [driver EXCEPT ![d] = v]
    BY <2>4, <2>7, Zenon
  <2> QED BY <1>2, <2>5, <2>6, <2>7
<1>8. CASE driver[d].gen # g.dial_gen /\ Finish(d) /\ UNCHANGED g
  <2>1. ~Engaged(driver[d], g.dial_gen)
    BY <1>0, <1>8 DEF Engaged
  <2>2. SameConn(g, g') /\ Awake(reader, reader')
    BY <1>1, <1>8 DEF SameConn, Awake
  <2> QED BY <1>0, <1>7, <2>1, <2>2, GoesOn
<1>9. CASE g' = [lost EXCEPT !.state = "Closed"] \/ g' = [RejectPending(lost) EXCEPT !.state = "Closed"]
  <2>1. g'.state = "Closed"
    BY <1>3, <1>5, <1>6, <1>9
  <2> QED BY <2>1, AtWork DEF Over
<1>10. CASE driver' = [driver EXCEPT ![d] = v]
  <2>1. driver'[d] = v
    BY <1>0, <1>10 DEF DriversOK
  <2>2. Engaged(driver'[d], g'.dial_gen)
    BY <1>4, <2>1 DEF Engaged
  <2> QED BY <2>2, AtWork
<1> QED BY <1>2, <1>8, <1>9, <1>10

\* dial_inner installs the newest socket, or its task goes on or gives up.
LEMMA InstallDrives ==
  ASSUME SInv, Driven, NEW d \in Drivers, Install(d)
  PROVE  Driven'
<1>0. /\ IInv /\ g \in Inner /\ DriversOK(driver) /\ ReadersOK(reader)
      /\ g.dial_gen \in 0 .. MaxGen /\ MaxGen \in Nat
      /\ driver[d] \in Driver /\ driver[d].pc = "install"
  BY InnerParts, DriverParts, ConstantFacts DEF SInv, IInv, Install
<1> DEFINE s == driver[d].gen
           v == [reader[s] EXCEPT !.pc = "read"]
<1>1. CASE Superseded(d)
  <2>1. DialErr(d) /\ UNCHANGED <<g, reader>>
    BY <1>1, Zenon DEF Install
  <2>2. CASE g.intentional
    BY <2>1, <2>2, AtWork DEF Over
  <2>3. CASE s # g.dial_gen
    <3>1. ~Engaged(driver[d], g.dial_gen)
      BY <1>0, <2>3 DEF Engaged
    <3>2. SameConn(g, g') /\ Awake(reader, reader')
      BY <2>1 DEF SameConn, Awake
    <3>3. Follows(driver, driver', d)
      BY <1>0, <2>1, OwnErr
    <3> QED BY <1>0, <3>1, <3>2, <3>3, GoesOn
  <2> QED BY <1>1, <2>2, <2>3 DEF Superseded
<1>2. CASE ~Superseded(d)
  <2>1. /\ g' = [g EXCEPT !.out_tx = s, !.state = "Open", !.attempt = 0]
        /\ reader' = [reader EXCEPT ![s] = v]
    BY <1>2, Zenon DEF Install
  <2>2. g'.dial_gen = g.dial_gen /\ g'.out_tx = s
    BY <1>0, <2>1, Zenon DEF Inner
  <2>3. s = g.dial_gen
    BY <1>2 DEF Superseded
  <2>4. s \in Gens
    <3>1. d \in Dialing(driver) /\ Fresh(driver, g.dial_gen, reader)
      BY <1>0 DEF Dialing, DialingPc, SInv
    <3>2. s \in 1 .. g.dial_gen
      BY <3>1 DEF Fresh
    <3> QED BY <1>0, <3>2 DEF Gens
  <2>5. v.pc = "read"
    <3>1. reader[s] \in Reader
      BY <1>0, <2>4, ReaderParts
    <3> QED BY <3>1, Zenon DEF Reader
  <2> HIDE DEF v
  <2>6. reader'[s] = v
    BY <1>0, <2>1, <2>4 DEF ReadersOK
  <2>7. Served(g', reader')
    BY <2>2, <2>3, <2>4, <2>5, <2>6 DEF Served, Gens, None
  <2> QED BY <2>7, AtWork
<1> QED BY <1>1, <1>2

\* A failed dial is followed up, unless its task is one that drops the error;
\* a dial that is not the newest any more is not waited for.
LEMMA DialFailsDrives ==
  ASSUME SInv, Driven, NEW d \in Drivers, DialFails(d)
  PROVE  Driven' \/ DialErrorDropped
<1>0. IInv /\ DriversOK(driver) /\ driver[d].pc = "connecting"
  BY DEF SInv, IInv, DialFails
<1>1. DialErr(d) /\ UNCHANGED <<g, reader>>
  BY DEF DialFails
<1>2. /\ Follows(driver, driver', d)
      /\ \/ driver'[d].pc = "idle" /\ driver[d].origin = "ignore"
         \/ driver'[d].pc \in {"gone", "failed"}
  BY <1>0, <1>1, OwnErr
<1>3. CASE driver'[d].pc \in {"gone", "failed"}
  BY <1>3, AtWork DEF Engaged
<1>4. CASE driver[d].origin = "ignore" /\ driver[d].gen = g.dial_gen
  BY <1>4 DEF DialErrorDropped
<1>5. CASE driver[d].gen # g.dial_gen
  <2>1. ~Engaged(driver[d], g.dial_gen)
    BY <1>0, <1>5 DEF Engaged
  <2>2. SameConn(g, g') /\ Awake(reader, reader')
    BY <1>1 DEF SameConn, Awake
  <2> QED BY <1>0, <1>2, <2>1, <2>2, GoesOn
<1> QED BY <1>2, <1>3, <1>4, <1>5

\* The steps of a dialing task.
LEMMA DriversDrive ==
  ASSUME SInv, Driven, NEW d \in Drivers, DriverStep(d)
  PROVE  Driven' \/ DialErrorDropped
<1>0. /\ IInv /\ InnerOK(g) /\ g \in Inner /\ DriversOK(driver)
      /\ ReadersOK(reader) /\ driver[d] \in Driver /\ "err" \in Result
  BY InnerParts, DriverParts DEF SInv, IInv, Result
<1>a. ASSUME Engaged(driver'[d], g'.dial_gen) PROVE Driven'
  BY <1>a, AtWork
<1>b. ASSUME NEW v, driver' = [driver EXCEPT ![d] = v] PROVE driver'[d] = v
  BY <1>0, <1>b DEF DriversOK
<1>1. CASE SocketClosed(d) \/ Install(d) \/ DialFails(d)
  BY <1>1, SocketClosedDrives, InstallDrives, DialFailsDrives
<1>2. CASE Wake(d)
  <2>1. (g.intentional /\ UNCHANGED g) \/ Step(d, "dial")
    BY <1>2 DEF Wake
  <2>2. CASE Step(d, "dial")
    <3>1. driver'[d].pc = "dial"
      BY <1>0, <2>2, OwnStep
    <3> QED BY <1>a, <3>1 DEF Engaged
  <2> QED BY <2>1, <2>2, AtWork DEF Over
<1>3. CASE HandleRelocate(d)
  <2> DEFINE v == [driver[d] EXCEPT !.pc = "dial", !.resume = driver[d].resume \/ ResumeNeeded]
  <2>1. (g.intentional /\ UNCHANGED g) \/ driver' = [driver EXCEPT ![d] = v]
    BY <1>3, Zenon DEF HandleRelocate
  <2>2. v.pc = "dial"
    BY <1>0, Zenon DEF Driver
  <2> HIDE DEF v
  <2>3. CASE driver' = [driver EXCEPT ![d] = v]
    BY <1>a, <1>b, <2>2, <2>3 DEF Engaged
  <2> QED BY <2>1, <2>3, AtWork DEF Over
<1>4. CASE GiveUpAuth(d) \/ RefreshErr(d)
  <2>1. \/ g' = [g EXCEPT !.intentional = TRUE, !.state = "Closed", !.out_tx = None]
        \/ g' = [g EXCEPT !.intentional = TRUE, !.state = "Closed"]
    BY <1>4, Zenon DEF GiveUpAuth, RefreshErr
  <2>2. g'.state = "Closed"
    BY <1>0, <2>1, Zenon DEF Inner
  <2> QED BY <2>2, AtWork DEF Over
<1>5. CASE RefreshOk(d)
  <2> DEFINE v == [driver[d] EXCEPT !.pc = "dial", !.resume = ResumeNeeded]
  <2>1. g.intentional \/ driver' = [driver EXCEPT ![d] = v]
    BY <1>5, Zenon DEF RefreshOk
  <2>2. g' = [g EXCEPT !.dial_gen = g.dial_gen + 1, !.session_ready = FALSE, !.out_tx = None]
    BY <1>5, Zenon DEF RefreshOk
  <2>3. v.pc = "dial"
    BY <1>0, Zenon DEF Driver
  <2> HIDE DEF v
  <2>4. g'.intentional = g.intentional
    BY <1>0, <2>2, Zenon DEF Inner
  <2>5. CASE driver' = [driver EXCEPT ![d] = v]
    BY <1>a, <1>b, <2>3, <2>5 DEF Engaged
  <2> QED BY <2>1, <2>4, <2>5, AtWork DEF Over
<1>6. CASE Dial(d)
  <2> DEFINE v == [driver[d] EXCEPT !.pc = "connecting", !.gen = g.dial_gen + 1]
  <2>1. /\ \E st : g' = [g EXCEPT !.dial_gen = g.dial_gen + 1, !.session_ready = FALSE, !.state = st]
        /\ driver' = [driver EXCEPT ![d] = v]
    BY <1>6, Zenon DEF Dial
  <2>2. g'.dial_gen = g.dial_gen + 1
    BY <1>0, <2>1, Zenon DEF Inner
  <2>3. v.pc = "connecting" /\ v.gen = g.dial_gen + 1
    BY <1>0, Zenon DEF Driver
  <2> HIDE DEF v
  <2> QED BY <1>a, <1>b, <2>1, <2>2, <2>3 DEF Engaged
<1>7. CASE DialHello(d)
  <2>1. Step(d, "install") /\ UNCHANGED <<g, reader>> /\ driver[d].pc = "connecting"
    BY <1>7 DEF DialHello
  <2>2. /\ Follows(driver, driver', d) /\ driver'[d].pc = "install"
        /\ driver'[d].gen = driver[d].gen
    BY <1>0, <2>1, OwnStep
  <2>3. CASE Engaged(driver[d], g.dial_gen)
    <3>1. Engaged(driver'[d], g'.dial_gen)
      BY <2>1, <2>2, <2>3 DEF Engaged
    <3> QED BY <1>a, <3>1
  <2>4. CASE ~Engaged(driver[d], g.dial_gen)
    <3>1. SameConn(g, g') /\ Awake(reader, reader')
      BY <2>1 DEF SameConn, Awake
    <3> QED BY <1>0, <2>2, <2>4, <3>1, GoesOn
  <2> QED BY <2>3, <2>4
<1>8. CASE DialRelocated(d)
  <2>1. driver'[d].pc = "relocate"
    BY <1>0, <1>8, OwnStep DEF DialRelocated
  <2> QED BY <1>a, <2>1 DEF Engaged
<1>9. CASE ReconnectFailed(d)
  <2> DEFINE v == [driver[d] EXCEPT !.pc = "closed", !.gen = g.dial_gen, !.origin = "reconnect"]
  <2>1. driver' = [driver EXCEPT ![d] = v] /\ UNCHANGED g
    BY <1>9, Zenon DEF ReconnectFailed
  <2>2. v.pc = "closed" /\ v.gen = g.dial_gen
    BY <1>0, Zenon DEF Driver
  <2> HIDE DEF v
  <2> QED BY <1>a, <1>b, <2>1, <2>2 DEF Engaged
<1>c. ASSUME driver[d].pc \in {"resume", "sendResume", "waitResume", "retrySleep"},
             Follows(driver, driver', d), SameConn(g, g'), Awake(reader, reader')
      PROVE  Driven'
  <2>1. ~Engaged(driver[d], g.dial_gen)
    BY <1>c DEF Engaged
  <2> QED BY <1>0, <1>c, <2>1, GoesOn
<1>10. CASE ResumeRegister(d)
  <2> DEFINE v == [driver[d] EXCEPT !.pc = "sendResume", !.uid = g.track_uid, !.res = "pending"]
             told == TellDriver(driver, g.resume_wait, "err")
  <2>1. /\ UNCHANGED reader /\ driver[d].pc = "resume"
        /\ \/ Finish(d) /\ UNCHANGED g
           \/ g' = [g EXCEPT !.resume_wait = d] /\ driver' = [told EXCEPT ![d] = v]
    BY <1>10, Zenon DEF ResumeRegister
  <2>2. DriversOK(told) /\ Follows(driver, told, d)
    BY <1>0, TellDriverType, FollowsTell
  <2> HIDE DEF v, told
  <2>3. Follows(driver, [told EXCEPT ![d] = v], d)
    BY <2>2, FollowsPut
  <2>4. SameConn(g, [g EXCEPT !.resume_wait = d]) /\ SameConn(g, g)
    BY <1>0, ConnPut, Stays
  <2>5. SameConn(g, g') /\ Awake(reader, reader')
    BY <2>1, <2>4 DEF Awake
  <2>6. Follows(driver, driver', d)
    <3>1. CASE Finish(d)
      BY <1>0, <3>1, OwnFinish
    <3>2. CASE driver' = [told EXCEPT ![d] = v]
      BY <2>3, <3>2, Zenon
    <3> QED BY <2>1, <3>1, <3>2
  <2> QED BY <1>c, <2>1, <2>5, <2>6
<1>11. CASE ResumeSend(d)
  <2>1. /\ \/ Step(d, "waitResume") /\ UNCHANGED reader
           \/ DialErr(d) /\ Unheard(d)
        /\ driver[d].pc = "sendResume" /\ UNCHANGED g
    BY <1>11 DEF ResumeSend
  <2>2. SameConn(g, g') /\ (UNCHANGED reader => Awake(reader, reader'))
    BY <2>1 DEF SameConn, Awake
  <2>3. Awake(reader, reader')
    BY <1>0, <2>1, <2>2, AwakeUnheard
  <2>4. Follows(driver, driver', d)
    BY <1>0, <2>1, OwnStep, OwnErr
  <2> QED BY <1>c, <2>1, <2>2, <2>3, <2>4
<1>12. CASE ResumeReturns(d) \/ ResumeRetry(d)
  <2>1. /\ UNCHANGED <<g, reader>> /\ driver[d].pc \in {"waitResume", "retrySleep"}
        /\ \/ Finish(d) \/ DialErr(d) \/ Step(d, "retrySleep") \/ Step(d, "resume")
    BY <1>12 DEF ResumeReturns, ResumeRetry
  <2>2. SameConn(g, g') /\ Awake(reader, reader')
    BY <2>1 DEF SameConn, Awake
  <2>3. Follows(driver, driver', d)
    BY <1>0, <2>1, OwnStep, OwnErr, OwnFinish
  <2> QED BY <1>c, <2>1, <2>2, <2>3
<1> QED BY <1>1, <1>2, <1>3, <1>4, <1>5, <1>6, <1>7, <1>8, <1>9, <1>10, <1>11, <1>12 DEF DriverStep

\* The server and the network touch no task.
LEMMA ServerDrives ==
  ASSUME SInv, Driven, (\E s \in Gens : ServerStep(s) \/ Environment(s)) \/ ServerForgets
  PROVE  Driven'
<1>1. IInv /\ 0 \notin Drivers
  BY ClientAssumption DEF SInv, ClientAssumption
<1>2. UNCHANGED <<g, driver, reader>>
  BY DEF ServerStep, ServerStarts, ServerRefusesStart, ServerResumes, ServerDefersResume,
         ServerTakesLoc, ServerTakesEvent, ServerStops, ServerCloses, Environment,
         ServerRelocates, ServerRejectsAuth, Drop, ServerForgets, Quiet
<1>3. SameConn(g, g') /\ Awake(reader, reader') /\ Follows(driver, driver', 0)
  BY <1>2 DEF SameConn, Awake, Follows, Alike
<1> QED BY <1>1, <1>3, GoesOn

\* "The SDK reconnects": on_socket_closed, handle_relocate, handle_auth_error and
\* the read loops leave a session that is not over with a task that dials or with a
\* socket that is read, whatever interrupts them; only a task that drops the error
\* of its dial, when that dial is the newest, leaves it without either.
THEOREM StaysDriven == Spec => SessionStaysDriven
<1>1. Init => SInv
  BY InitFresh
<1>2. SInv /\ [Next]_vars => SInv'
  BY StepsKeepSockets
<1>3. SInv /\ [Next]_vars => [Driven => Driven' \/ DialErrorDropped]_vars
  <2> SUFFICES ASSUME SInv, Next, Driven PROVE Driven' \/ DialErrorDropped
    OBVIOUS
  <2>1. ASSUME NEW p \in Procs, NewCall(p) \/ CallStep(p) PROVE Driven'
    BY <2>1, CallsDrive
  <2>2. ASSUME NEW d \in Drivers, DriverStep(d) PROVE Driven' \/ DialErrorDropped
    BY <2>2, DriversDrive
  <2>3. ASSUME NEW s \in Gens, ReaderStep(s) PROVE Driven'
    BY <2>3, ReadersDrive
  <2>4. ASSUME (\E s \in Gens : ServerStep(s) \/ Environment(s)) \/ ServerForgets PROVE Driven'
    BY <2>4, ServerDrives
  <2> QED BY <2>1, <2>2, <2>3, <2>4 DEF Next
<1> QED BY <1>1, <1>2, <1>3, PTL DEF Spec, SessionStaysDriven
===============================================================================
