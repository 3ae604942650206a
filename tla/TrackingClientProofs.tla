------------------------- MODULE TrackingClientProofs -------------------------
(***************************************************************************)
(* Every state of the tracking session is well typed, its buffer stays     *)
(* within max_size and the send window, and it is ready only with a track, *)
(* for every number of tasks, sockets and samples.                         *)
(***************************************************************************)
EXTENDS TrackingClient, OfflineQueueProofs

(* The inductive invariant: TypeOK, plus the caps of the queue, what keeps a *)
(* sample a point (a call that is about to stage or send one holds one, and  *)
(* no more samples are taken than there are), and that a read loop that is   *)
(* sending has a frame left.                                                 *)
InnerOK(i)   == i \in Inner /\ Bounded(i.queue)
DriversOK(f) == f \in [Drivers -> Driver]
CallsOK(f)   == /\ f \in [Procs -> Call]
                /\ \A p \in Procs : f[p].pc \in {"pub", "pubSend"} => f[p].pt \in Points
ReadersOK(f) == /\ f \in [Gens -> Reader]
                /\ \A s \in Gens : f[s].pc = "send" => f[s].out # <<>>
WiresOK(f)   == f \in [Gens -> Wire]
ServerOK(r)  == r \in Server
LeftOK(f)    == f \in [Acts -> Nat] /\ f["publish"] <= Budget["publish"]

IInv == /\ InnerOK(g) /\ DriversOK(driver) /\ CallsOK(call) /\ ReadersOK(reader)
        /\ WiresOK(wire) /\ ServerOK(srv) /\ LeftOK(left)

-----------------------------------------------------------------------------
(* Messages and sockets.                                                     *)

\* Every message the client or the server builds is a message.
LEMMA Messages ==
  ASSUME NEW t \in MsgType, NEW uid \in Nat, NEW seq \in Nat, NEW pts \in Seq(Points)
  PROVE  /\ M(t) \in Msg /\ Resume(uid) \in Msg /\ Loc(seq, pts) \in Msg
         /\ TrackStarted(uid) \in Msg /\ TrackStopped(uid) \in Msg
         /\ ResumeOk(uid, seq) \in Msg /\ Ack(seq) \in Msg
<1>1. <<>> \in Seq(Points) /\ 0 \in Nat /\ None \in Nat
  BY DEF None
<1>2. \A u \in MsgType : M(u) \in Msg
  BY <1>1 DEF M, Msg
<1>3. /\ M("Resume") \in Msg /\ M("Loc") \in Msg /\ M("TrackStarted") \in Msg
      /\ M("TrackStopped") \in Msg /\ M("ResumeOk") \in Msg /\ M("Ack") \in Msg
  <2>1. {"Resume", "Loc", "TrackStarted", "TrackStopped", "ResumeOk", "Ack"} \subseteq MsgType
    BY DEF MsgType
  <2> QED BY <1>2, <2>1
<1>4. \A m \in Msg : /\ [m EXCEPT !.uid = uid] \in Msg /\ [m EXCEPT !.seq = seq] \in Msg
                     /\ [m EXCEPT !.seq = seq, !.pts = pts] \in Msg
                     /\ [m EXCEPT !.uid = uid, !.seq = seq] \in Msg
  BY Zenon DEF Msg
<1> QED BY <1>2, <1>3, <1>4, Zenon
        DEF Resume, Loc, TrackStarted, TrackStopped, ResumeOk, Ack

\* The parts of a message.
LEMMA MsgParts ==
  ASSUME NEW m \in Msg
  PROVE  m.type \in MsgType /\ m.uid \in Nat /\ m.seq \in Nat /\ m.pts \in Seq(Points)
BY DEF Msg

\* The parts of a socket.
LEMMA WireParts ==
  ASSUME NEW w, WiresOK(w), NEW s \in Gens
  PROVE  /\ w[s] \in Wire /\ w[s].up \in BOOLEAN /\ w[s].bound \in Nat
         /\ w[s].c2s \in Seq(Msg) /\ w[s].s2c \in Seq(Msg)
BY Zenon DEF WiresOK, Wire

\* A changed socket is still a socket, whichever its number.
LEMMA WireUpdate ==
  ASSUME NEW w, WiresOK(w), NEW s, NEW v, s \in Gens => v \in Wire
  PROVE  WiresOK([w EXCEPT ![s] = v])
BY Zenon DEF WiresOK

\* A changed field of a socket.
LEMMA WireFields ==
  ASSUME NEW w \in Wire, NEW a \in Seq(Msg), NEW b \in Seq(Msg), NEW n \in Nat,
         NEW x \in BOOLEAN
  PROVE  /\ [w EXCEPT !.c2s = a] \in Wire /\ [w EXCEPT !.s2c = a] \in Wire
         /\ [w EXCEPT !.bound = n] \in Wire /\ [w EXCEPT !.up = x] \in Wire
         /\ [w EXCEPT !.c2s = a, !.s2c = b] \in Wire
         /\ [w EXCEPT !.up = x, !.c2s = a, !.bound = n] \in Wire
BY Zenon DEF Wire

\* A closed socket.
LEMMA ClosedWireType == ClosedWire \in Wire
BY DEF ClosedWire, Wire, None

\* Sending on a socket, live or dead.
LEMMA PushType ==
  ASSUME WiresOK(wire), NEW s, NEW m \in Msg
  PROVE  WiresOK(Push(s, m))
<1> DEFINE out == IF wire[s].up THEN Append(wire[s].c2s, m) ELSE wire[s].c2s
<1>1. s \in Gens => out \in Seq(Msg)
  BY WireParts
<1>2. s \in Gens => [wire[s] EXCEPT !.c2s = out] \in Wire
  BY <1>1, WireParts, WireFields
<1>3. Push(s, m) = [wire EXCEPT ![s] = [wire[s] EXCEPT !.c2s = out]]
  BY Zenon DEF Push
<1> DEFINE v == [wire[s] EXCEPT !.c2s = out]
<1> HIDE DEF out, v
<1>4. WiresOK([wire EXCEPT ![s] = v])
  BY <1>2, WireUpdate DEF v
<1> QED BY <1>3, <1>4, Zenon DEF v

\* send_bin and the Close frame leave every socket a socket.
LEMMA SentType ==
  ASSUME WiresOK(wire), NEW m \in Msg, Sent(m)
  PROVE  WiresOK(wire')
BY PushType DEF Sent

\* Outbound::Close to the current socket.
LEMMA HangUpType ==
  ASSUME WiresOK(wire)
  PROVE  WiresOK(HangUp)
<1>1. M("Close") \in Msg
  BY Messages, EmptySeq DEF MsgType
<1> QED BY <1>1, PushType DEF HangUp

-----------------------------------------------------------------------------
(* Calls.                                                                    *)

\* A call that is about to stage or send a sample holds one.
Holds(c) == c.pc \in {"pub", "pubSend"} => c.pt \in Points

\* The record of one call is replaced.
LEMMA CallPut ==
  ASSUME NEW f, CallsOK(f), NEW p \in Procs, NEW c \in Call, Holds(c)
  PROVE  CallsOK([f EXCEPT ![p] = c])
<1> DEFINE h == [f EXCEPT ![p] = c]
<1>1. h \in [Procs -> Call]
  BY Zenon DEF CallsOK
<1>2. \A q \in Procs : Holds(h[q])
  BY Zenon DEF CallsOK, Holds
<1> QED BY <1>1, <1>2, Zenon DEF CallsOK, Holds

\* The record of one call.
LEMMA CallParts ==
  ASSUME NEW f, CallsOK(f), NEW p \in Procs
  PROVE  /\ f[p] \in Call /\ Holds(f[p]) /\ f[p].pc \in CallPc /\ f[p].seq \in Nat
         /\ f[p].pt \in Points \cup {0} /\ f[p].res \in Result /\ f[p].uid \in Nat
<1>1. f[p] \in Call /\ Holds(f[p])
  BY Zenon DEF CallsOK, Holds
<1> QED BY <1>1, Zenon DEF Call

\* A finished call.
LEMMA CallEnds ==
  ASSUME NEW f, CallsOK(f), NEW p \in Procs
  PROVE  CallsOK([f EXCEPT ![p] = IdleCall])
<1>1. IdleCall \in Call
  BY DEF IdleCall, Call, CallPc, Result, None
<1>2. Holds(IdleCall)
  BY DEF IdleCall, Holds
<1> QED BY <1>1, <1>2, CallPut

\* A call moves on without taking a new sample.
LEMMA CallMoves ==
  ASSUME NEW f, CallsOK(f), NEW p \in Procs, NEW x \in CallPc, x \notin {"pub", "pubSend"}
  PROVE  CallsOK([f EXCEPT ![p].pc = x])
<1> DEFINE c == [f[p] EXCEPT !.pc = x]
<1>1. c \in Call /\ c.pc = x
  BY CallParts, Zenon DEF Call
<1>2. [f EXCEPT ![p].pc = x] = [f EXCEPT ![p] = c]
  BY Zenon
<1> HIDE DEF c
<1>3. Holds(c)
  BY <1>1 DEF Holds
<1> QED BY <1>1, <1>2, <1>3, CallPut

\* A oneshot result reaches a call.
LEMMA TellCallType ==
  ASSUME NEW f, CallsOK(f), NEW p, NEW r \in Result
  PROVE  CallsOK(TellCall(f, p, r))
<1>1. CASE ~(p \in Procs /\ f[p].pc \in Awaiting)
  BY <1>1, Zenon DEF TellCall
<1>2. CASE p \in Procs /\ f[p].pc \in Awaiting
  <2> DEFINE c == [f[p] EXCEPT !.res = r]
  <2>1. c \in Call /\ c.pc = f[p].pc /\ c.pt = f[p].pt
    BY <1>2, CallParts, Zenon DEF Call
  <2>2. TellCall(f, p, r) = [f EXCEPT ![p] = c]
    BY <1>2, Zenon DEF TellCall
  <2> HIDE DEF c
  <2>3. Holds(c)
    BY <1>2, <2>1, CallParts DEF Holds
  <2>4. CallsOK([f EXCEPT ![p] = c])
    <3>1. p \in Procs
      BY <1>2
    <3> QED BY <2>1, <2>3, <3>1, CallPut
  <2> QED BY <2>2, <2>4, Zenon
<1> QED BY <1>1, <1>2

\* An Error event answers the waiting calls.
LEMMA AnsweredCallsType ==
  ASSUME CallsOK(call), NEW r \in Result
  PROVE  CallsOK(AnsweredCalls(r))
<1>1. "err" \in Result
  BY DEF Result
<1>2. CallsOK(TellCall(TellCall(call, g.start_wait, "err"), g.stop_wait, "err"))
  BY <1>1, TellCallType
<1> QED BY <1>2, TellCallType DEF AnsweredCalls

\* reject_pending_locked gives the waiting calls an error.
LEMMA RejectedCallsType ==
  ASSUME CallsOK(call)
  PROVE  CallsOK(RejectedCalls)
BY AnsweredCallsType DEF RejectedCalls, Result

-----------------------------------------------------------------------------
(* Dialing tasks.                                                            *)

\* The record of one dialing task is replaced.
LEMMA DriverPut ==
  ASSUME NEW f, DriversOK(f), NEW d \in Drivers, NEW v \in Driver
  PROVE  DriversOK([f EXCEPT ![d] = v])
BY Zenon DEF DriversOK

\* The record of one dialing task.
LEMMA DriverParts ==
  ASSUME NEW f, DriversOK(f), NEW d \in Drivers
  PROVE  /\ f[d] \in Driver /\ f[d].pc \in DriverPc /\ f[d].gen \in 0 .. MaxGen
         /\ f[d].resume \in BOOLEAN /\ f[d].uid \in Nat /\ f[d].res \in Result
         /\ f[d].origin \in {"connect", "reconnect", "ignore"}
BY Zenon DEF DriversOK, Driver

\* Fields of one dialing task.
LEMMA DriverFields ==
  ASSUME NEW v \in Driver, NEW x \in DriverPc, NEW n \in 0 .. MaxGen, NEW b \in BOOLEAN,
         NEW u \in Nat, NEW r \in Result, NEW o \in {"connect", "reconnect", "ignore"}
  PROVE  /\ [v EXCEPT !.pc = x] \in Driver /\ [v EXCEPT !.res = r] \in Driver
         /\ [v EXCEPT !.pc = x, !.resume = b] \in Driver
         /\ [v EXCEPT !.pc = x, !.gen = n] \in Driver
         /\ [v EXCEPT !.pc = x, !.uid = u, !.res = r] \in Driver
         /\ [v EXCEPT !.pc = x, !.gen = n, !.origin = o] \in Driver
         /\ [v EXCEPT !.pc = x, !.origin = o, !.resume = b] \in Driver
BY Zenon DEF Driver

\* A free slot.
LEMMA IdleDriverType == MaxGen \in Nat => IdleDriver \in Driver
<1>1. /\ "idle" \in DriverPc /\ "ignore" \in {"connect", "reconnect", "ignore"}
      /\ "pending" \in Result /\ FALSE \in BOOLEAN /\ None \in Nat
  BY DEF DriverPc, Result, None
<1>2. MaxGen \in Nat => 0 \in 0 .. MaxGen
  OBVIOUS
<1> QED BY <1>1, <1>2, Zenon DEF IdleDriver, Driver

\* A task moves on.
LEMMA StepType ==
  ASSUME DriversOK(driver), NEW d \in Drivers, NEW x \in DriverPc, Step(d, x)
  PROVE  DriversOK(driver')
<1> DEFINE v == [driver[d] EXCEPT !.pc = x]
<1>1. v \in Driver
  BY DriverParts, Zenon DEF Driver
<1>2. driver' = [driver EXCEPT ![d] = v]
  BY Zenon DEF Step
<1> HIDE DEF v
<1> QED BY <1>1, <1>2, DriverPut

\* A task ends.
LEMMA FinishType ==
  ASSUME DriversOK(driver), NEW d \in Drivers, Finish(d), MaxGen \in Nat
  PROVE  DriversOK(driver')
BY IdleDriverType, DriverPut DEF Finish

\* A dial fails.
LEMMA DialErrType ==
  ASSUME DriversOK(driver), NEW d \in Drivers, DialErr(d), MaxGen \in Nat
  PROVE  DriversOK(driver')
<1>1. "gone" \in DriverPc /\ "failed" \in DriverPc
  BY DEF DriverPc
<1>2. \/ Finish(d) \/ Step(d, "gone") \/ Step(d, "failed")
  BY Zenon DEF DialErr
<1> QED BY <1>1, <1>2, StepType, FinishType

\* The answer to a Resume reaches the task that waits for it.
LEMMA TellDriverType ==
  ASSUME NEW f, DriversOK(f), NEW d, NEW r \in Result
  PROVE  DriversOK(TellDriver(f, d, r))
<1>1. CASE ~(d \in Drivers /\ f[d].pc \in {"sendResume", "waitResume"})
  BY <1>1, Zenon DEF TellDriver
<1>2. CASE d \in Drivers /\ f[d].pc \in {"sendResume", "waitResume"}
  <2> DEFINE v == [f[d] EXCEPT !.res = r]
  <2>1. v \in Driver
    BY <1>2, DriverParts, Zenon DEF Driver
  <2>2. TellDriver(f, d, r) = [f EXCEPT ![d] = v]
    BY <1>2, Zenon DEF TellDriver
  <2> HIDE DEF v
  <2>3. DriversOK([f EXCEPT ![d] = v])
    <3>1. d \in Drivers
      BY <1>2
    <3> QED BY <2>1, <3>1, DriverPut
  <2> QED BY <2>2, <2>3, Zenon
<1> QED BY <1>1, <1>2

\* A new dialing task takes a free slot.
LEMMA SpawnType ==
  ASSUME NEW f, DriversOK(f), NEW v \in Driver, SpawnIn(f, v)
  PROVE  DriversOK(driver')
<1>1. PICK d \in Drivers : driver' = [f EXCEPT ![d] = v]
  BY Zenon DEF SpawnIn
<1>2. DriversOK([f EXCEPT ![d] = v])
  BY DriverPut
<1> QED BY <1>1, <1>2, Zenon

-----------------------------------------------------------------------------
(* Read loops.                                                               *)

\* A read loop that sends has a frame left.
Busy(v) == v.pc = "send" => v.out # <<>>

\* A changed read loop, whichever its number.
LEMMA ReaderUpdate ==
  ASSUME NEW f, ReadersOK(f), NEW s, NEW v, s \in Gens => v \in Reader /\ Busy(v)
  PROVE  ReadersOK([f EXCEPT ![s] = v])
<1> DEFINE h == [f EXCEPT ![s] = v]
<1>1. h \in [Gens -> Reader]
  BY Zenon DEF ReadersOK
<1>2. \A r \in Gens : Busy(h[r])
  BY Zenon DEF ReadersOK, Busy
<1> QED BY <1>1, <1>2, Zenon DEF ReadersOK, Busy

\* The record of one read loop.
LEMMA ReaderParts ==
  ASSUME NEW f, ReadersOK(f), NEW s \in Gens
  PROVE  /\ f[s] \in Reader /\ Busy(f[s]) /\ f[s].out \in Seq(Frame)
         /\ f[s].wake \in Procs \cup Drivers \cup {NoOne}
BY Zenon DEF ReadersOK, Reader, Busy

\* A waiter whose receiver is dropped is nobody's waiter.
LEMMA UnheardType ==
  ASSUME ReadersOK(reader), NEW w, Unheard(w)
  PROVE  ReadersOK(reader')
<1> DEFINE v(s) == [reader[s] EXCEPT !.wake = NoOne]
           h(s) == IF reader[s].wake = w THEN v(s) ELSE reader[s]
<1>1. reader' = [s \in Gens |-> h(s)]
  BY Zenon DEF Unheard
<1>2. ASSUME NEW s \in Gens PROVE h(s) \in Reader /\ Busy(h(s))
  <2>1. reader[s] \in Reader /\ Busy(reader[s])
    BY ReaderParts
  <2>2. v(s) \in Reader /\ v(s).pc = reader[s].pc /\ v(s).out = reader[s].out
    BY <2>1, Zenon DEF Reader
  <2> HIDE DEF v
  <2> QED BY <2>1, <2>2 DEF Busy
<1> HIDE DEF h
<1> QED BY <1>1, <1>2 DEF ReadersOK, Busy

-----------------------------------------------------------------------------
(* Budgets.                                                                  *)

\* An act that is used up.
LEMMA SpendType ==
  ASSUME LeftOK(left), NEW act \in Acts, Spend(act)
  PROVE  LeftOK(left')
<1>1. left \in [Acts -> Nat] /\ left["publish"] <= Budget["publish"] /\ left[act] > 0
  BY Zenon DEF LeftOK, Spend
<1>2. Budget["publish"] \in Nat /\ left["publish"] \in Nat /\ left[act] - 1 \in Nat
  <2>1. Budget \in [Acts -> Nat] /\ "publish" \in Acts
    BY ClientAssumption DEF ClientAssumption, Acts
  <2> QED BY <1>1, <2>1
<1>3. left' = [left EXCEPT ![act] = left[act] - 1]
  BY Zenon DEF Spend
<1>4. left' \in [Acts -> Nat]
  BY <1>1, <1>2, <1>3
<1>5. left'["publish"] = IF act = "publish" THEN left["publish"] - 1 ELSE left["publish"]
  BY <1>1, <1>3 DEF Acts
<1>6. left'["publish"] <= Budget["publish"]
  BY <1>1, <1>2, <1>5
<1> QED BY <1>4, <1>6 DEF LeftOK

Within(f) == \A act \in Acts : f[act] <= Budget[act]

\* Every step uses up one act or none.
LEMMA StepsSpend ==
  ASSUME [Next]_vars
  PROVE  UNCHANGED left \/ \E act \in Acts : Spend(act)
<1>1. ASSUME NEW p \in Procs, NewCall(p) PROVE \E act \in Acts : Spend(act)
  BY <1>1, Zenon DEF NewCall, PublishBegin, StartTrack, StopTrack, ManualResume, SendEvent,
     CloseBegin, Begin, Acts
<1>2. ASSUME NEW p \in Procs, CallStep(p) PROVE UNCHANGED left
  BY <1>2 DEF CallStep, PublishStart, PublishStartFailed, PublishStage, PublishLive,
     PublishSend, StartSend, StartFailed, StopRegister, StopSend, StopFailed, CallReturns,
     ManualRegister, ManualSend, ManualFailed, ManualReturns, EventSend, CloseSend, Close
<1>3. ASSUME NEW d \in Drivers, DriverStep(d)
      PROVE  UNCHANGED left \/ \E act \in Acts : Spend(act)
  <2>1. CASE RefreshErr(d) \/ DialRelocated(d) \/ DialFails(d)
    BY <2>1, Zenon DEF RefreshErr, DialRelocated, DialFails, Acts
  <2>2. CASE ~(RefreshErr(d) \/ DialRelocated(d) \/ DialFails(d))
    BY <1>3, <2>2 DEF DriverStep, SocketClosed, Wake, HandleRelocate, GiveUpAuth, RefreshOk, Dial,
       DialHello, Install, ResumeRegister, ResumeSend, ResumeReturns, ResumeRetry, ReconnectFailed
  <2> QED BY <2>1, <2>2
<1>4. ASSUME NEW s \in Gens, ReaderStep(s) PROVE UNCHANGED left
  BY <1>4 DEF ReaderStep, OnResumeOk, OnTrackStarted, OnTrackStopped, OnAck, OnError, OnRelocate,
     FlushQueue, SendFrame, ReaderEnds
<1>5. ASSUME NEW s \in Gens, ServerStep(s) \/ Environment(s)
      PROVE  UNCHANGED left \/ \E act \in Acts : Spend(act)
  <2>1. CASE \/ ServerRefusesStart(s) \/ ServerDefersResume(s) \/ ServerRelocates(s)
             \/ ServerRejectsAuth(s) \/ Drop(s)
    BY <2>1, Zenon DEF ServerRefusesStart, ServerDefersResume, ServerRelocates,
       ServerRejectsAuth, Drop, Acts
  <2>2. CASE ~(\/ ServerRefusesStart(s) \/ ServerDefersResume(s) \/ ServerRelocates(s)
               \/ ServerRejectsAuth(s) \/ Drop(s))
    BY <1>5, <2>2 DEF ServerStep, Environment, ServerStarts, ServerResumes, ServerTakesLoc,
       ServerTakesEvent, ServerStops, ServerCloses
  <2> QED BY <2>1, <2>2
<1>6. ASSUME ServerForgets PROVE \E act \in Acts : Spend(act)
  BY <1>6, Zenon DEF ServerForgets, Acts
<1>7. ASSUME UNCHANGED vars PROVE UNCHANGED left
  BY <1>7 DEF vars
<1> QED BY <1>1, <1>2, <1>3, <1>4, <1>5, <1>6, <1>7 DEF Next

\* No act is done more often than its budget allows.
LEMMA BudgetsFall ==
  ASSUME LeftOK(left), Within(left), [Next]_vars
  PROVE  /\ Within(left') /\ \A a \in Acts : left'[a] \in Int /\ left'[a] <= left[a]
         /\ \A act \in Acts : Spend(act) => left'[act] < Budget[act]
<1>0. left \in [Acts -> Nat] /\ Budget \in [Acts -> Nat]
  BY ClientAssumption DEF LeftOK, ClientAssumption
<1>1. ASSUME NEW act \in Acts, Spend(act)
      PROVE  /\ \A a \in Acts : left'[a] = IF a = act THEN left[a] - 1 ELSE left[a]
             /\ left[act] > 0
  BY <1>0, <1>1 DEF Spend
<1>2. \A a \in Acts : left'[a] <= left[a] /\ left'[a] \in Int
  BY <1>0, <1>1, StepsSpend
<1>3. \A act \in Acts : Spend(act) => left'[act] < Budget[act]
  BY <1>0, <1>1 DEF Within
<1>4. Within(left')
  BY <1>0, <1>2 DEF Within
<1> QED BY <1>2, <1>3, <1>4

-----------------------------------------------------------------------------
(* The session record.                                                       *)

\* The parts of Inner.
LEMMA InnerParts ==
  ASSUME NEW i, InnerOK(i)
  PROVE  /\ i \in Inner /\ i.state \in {"Connecting", "Open", "Reconnecting", "Closed"}
         /\ i.track_uid \in Nat /\ i.last_assigned_seq \in Nat /\ i.last_acked_seq \in Nat
         /\ i.queue \in Queue /\ Bounded(i.queue) /\ i.session_ready \in BOOLEAN
         /\ i.starting \in BOOLEAN /\ i.intentional \in BOOLEAN
         /\ i.dial_gen \in 0 .. MaxGen /\ i.out_tx \in 0 .. MaxGen
         /\ i.start_wait \in Procs \cup {NoOne} /\ i.stop_wait \in Procs \cup {NoOne}
         /\ i.resume_wait \in Procs \cup Drivers \cup {NoOne} /\ i.attempt \in 0 .. MaxAttempts
BY Zenon DEF InnerOK, Inner

\* What the constants are.
LEMMA ConstantFacts ==
  /\ MaxGen \in Nat /\ 0 \in 0 .. MaxGen /\ None \in 0 .. MaxGen /\ None \in Nat /\ 0 \in Nat
  /\ NoOne \in Procs \cup {NoOne} /\ NoOne \in Procs \cup Drivers \cup {NoOne}
  /\ MaxAttempts \in Nat /\ 0 \in 0 .. MaxAttempts
BY ClientAssumption DEF ClientAssumption, None

\* publish and start_track begin a track with an empty queue.
LEMMA FreshTrackType ==
  ASSUME NEW i, InnerOK(i)
  PROVE  InnerOK(FreshTrack(i))
<1>1. FreshTrack(i) \in Inner /\ FreshTrack(i).queue = EmptyQueue
  <2>1. /\ i \in Inner /\ EmptyQueue \in Queue /\ 0 \in Nat /\ None \in Nat
        /\ TRUE \in BOOLEAN /\ FALSE \in BOOLEAN
    BY EmptyQueueBounded DEF InnerOK, None
  <2> QED BY <2>1, Zenon DEF FreshTrack, Inner
<1> QED BY <1>1, EmptyQueueBounded DEF InnerOK

\* A track that is gone takes its queue along.
LEMMA ForgetTrackType ==
  ASSUME NEW i, InnerOK(i)
  PROVE  InnerOK(ForgetTrack(i))
<1>1. ForgetTrack(i) \in Inner /\ ForgetTrack(i).queue = EmptyQueue
  <2>1. /\ i \in Inner /\ EmptyQueue \in Queue /\ 0 \in Nat /\ None \in Nat
        /\ TRUE \in BOOLEAN /\ FALSE \in BOOLEAN
    BY EmptyQueueBounded DEF InnerOK, None
  <2> QED BY <2>1, Zenon DEF ForgetTrack, Inner
<1> QED BY <1>1, EmptyQueueBounded DEF InnerOK

(* The waiter slots, the sockets and the flags do not touch the queue: one    *)
(* lemma for each set of fields that a step writes together.                 *)
SessionState == {"Connecting", "Open", "Reconnecting", "Closed"}

\* A record of Inner with the same queue is as good.
LEMMA SameQueue ==
  ASSUME NEW i, InnerOK(i), NEW j \in Inner, j.queue = i.queue
  PROVE  InnerOK(j)
BY Zenon DEF InnerOK

LEMMA PutStarting ==
  ASSUME NEW i, InnerOK(i), NEW b \in BOOLEAN
  PROVE  InnerOK([i EXCEPT !.starting = b])
<1>1. i \in Inner
  BY DEF InnerOK
<1>2. [i EXCEPT !.starting = b] \in Inner
  BY <1>1, Zenon DEF Inner
<1>3. [i EXCEPT !.starting = b].queue = i.queue
  BY <1>1, Zenon DEF Inner
<1> QED BY <1>2, <1>3, SameQueue, Zenon

LEMMA PutStartWait ==
  ASSUME NEW i, InnerOK(i), NEW p \in Procs \cup {NoOne}
  PROVE  InnerOK([i EXCEPT !.start_wait = p])
<1>1. i \in Inner
  BY DEF InnerOK
<1>2. [i EXCEPT !.start_wait = p] \in Inner
  BY <1>1, Zenon DEF Inner
<1>3. [i EXCEPT !.start_wait = p].queue = i.queue
  BY <1>1, Zenon DEF Inner
<1> QED BY <1>2, <1>3, SameQueue, Zenon

LEMMA PutStopWait ==
  ASSUME NEW i, InnerOK(i), NEW p \in Procs \cup {NoOne}
  PROVE  InnerOK([i EXCEPT !.stop_wait = p])
<1>1. i \in Inner
  BY DEF InnerOK
<1>2. [i EXCEPT !.stop_wait = p] \in Inner
  BY <1>1, Zenon DEF Inner
<1>3. [i EXCEPT !.stop_wait = p].queue = i.queue
  BY <1>1, Zenon DEF Inner
<1> QED BY <1>2, <1>3, SameQueue, Zenon

LEMMA PutStartEnd ==
  ASSUME NEW i, InnerOK(i), NEW p \in Procs \cup {NoOne}, NEW b \in BOOLEAN
  PROVE  InnerOK([i EXCEPT !.start_wait = p, !.starting = b])
<1>1. i \in Inner
  BY DEF InnerOK
<1>2. [i EXCEPT !.start_wait = p, !.starting = b] \in Inner
  BY <1>1, Zenon DEF Inner
<1>3. [i EXCEPT !.start_wait = p, !.starting = b].queue = i.queue
  BY <1>1, Zenon DEF Inner
<1> QED BY <1>2, <1>3, SameQueue, Zenon

LEMMA PutResumeWait ==
  ASSUME NEW i, InnerOK(i), NEW d \in Procs \cup Drivers \cup {NoOne}
  PROVE  InnerOK([i EXCEPT !.resume_wait = d])
<1>1. i \in Inner
  BY DEF InnerOK
<1>2. [i EXCEPT !.resume_wait = d] \in Inner
  BY <1>1, Zenon DEF Inner
<1>3. [i EXCEPT !.resume_wait = d].queue = i.queue
  BY <1>1, Zenon DEF Inner
<1> QED BY <1>2, <1>3, SameQueue, Zenon

LEMMA PutManual ==
  ASSUME NEW i, InnerOK(i), NEW u \in Nat, NEW n \in Nat, NEW w \in Procs \cup Drivers \cup {NoOne}
  PROVE  InnerOK([i EXCEPT !.track_uid = u, !.last_assigned_seq = n, !.resume_wait = w])
<1>1. i \in Inner
  BY DEF InnerOK
<1>2. [i EXCEPT !.track_uid = u, !.last_assigned_seq = n, !.resume_wait = w] \in Inner
  BY <1>1, Zenon DEF Inner
<1>3. [i EXCEPT !.track_uid = u, !.last_assigned_seq = n, !.resume_wait = w].queue = i.queue
  BY <1>1, Zenon DEF Inner
<1> QED BY <1>2, <1>3, SameQueue, Zenon

LEMMA PutState ==
  ASSUME NEW i, InnerOK(i), NEW st \in SessionState
  PROVE  InnerOK([i EXCEPT !.state = st])
<1>1. i \in Inner
  BY DEF InnerOK
<1>2. [i EXCEPT !.state = st] \in Inner
  BY <1>1, Zenon DEF Inner, SessionState
<1>3. [i EXCEPT !.state = st].queue = i.queue
  BY <1>1, Zenon DEF Inner
<1> QED BY <1>2, <1>3, SameQueue, Zenon

LEMMA PutIntentional ==
  ASSUME NEW i, InnerOK(i), NEW b \in BOOLEAN, NEW st \in SessionState
  PROVE  InnerOK([i EXCEPT !.intentional = b, !.state = st])
<1>1. i \in Inner
  BY DEF InnerOK
<1>2. [i EXCEPT !.intentional = b, !.state = st] \in Inner
  BY <1>1, Zenon DEF Inner, SessionState
<1>3. [i EXCEPT !.intentional = b, !.state = st].queue = i.queue
  BY <1>1, Zenon DEF Inner
<1> QED BY <1>2, <1>3, SameQueue, Zenon

LEMMA PutGivenUp ==
  ASSUME NEW i, InnerOK(i), NEW b \in BOOLEAN, NEW st \in SessionState, NEW n \in 0 .. MaxGen
  PROVE  InnerOK([i EXCEPT !.intentional = b, !.state = st, !.out_tx = n])
<1>1. i \in Inner
  BY DEF InnerOK
<1>2. [i EXCEPT !.intentional = b, !.state = st, !.out_tx = n] \in Inner
  BY <1>1, Zenon DEF Inner, SessionState
<1>3. [i EXCEPT !.intentional = b, !.state = st, !.out_tx = n].queue = i.queue
  BY <1>1, Zenon DEF Inner
<1> QED BY <1>2, <1>3, SameQueue, Zenon

LEMMA PutClosed ==
  ASSUME NEW i, InnerOK(i), NEW b \in BOOLEAN, NEW st \in SessionState, NEW c \in BOOLEAN,
         NEW n \in 0 .. MaxGen
  PROVE  InnerOK([i EXCEPT !.intentional = b, !.state = st, !.session_ready = c, !.out_tx = n])
<1>1. i \in Inner
  BY DEF InnerOK
<1>2. [i EXCEPT !.intentional = b, !.state = st, !.session_ready = c, !.out_tx = n] \in Inner
  BY <1>1, Zenon DEF Inner, SessionState
<1>3. [i EXCEPT !.intentional = b, !.state = st, !.session_ready = c, !.out_tx = n].queue = i.queue
  BY <1>1, Zenon DEF Inner
<1> QED BY <1>2, <1>3, SameQueue, Zenon

LEMMA PutAttempt ==
  ASSUME NEW i, InnerOK(i), NEW st \in SessionState, NEW a \in 0 .. MaxAttempts
  PROVE  InnerOK([i EXCEPT !.state = st, !.attempt = a])
<1>1. i \in Inner
  BY DEF InnerOK
<1>2. [i EXCEPT !.state = st, !.attempt = a] \in Inner
  BY <1>1, Zenon DEF Inner, SessionState
<1>3. [i EXCEPT !.state = st, !.attempt = a].queue = i.queue
  BY <1>1, Zenon DEF Inner
<1> QED BY <1>2, <1>3, SameQueue, Zenon

LEMMA PutInstalled ==
  ASSUME NEW i, InnerOK(i), NEW n \in 0 .. MaxGen, NEW st \in SessionState, NEW a \in 0 .. MaxAttempts
  PROVE  InnerOK([i EXCEPT !.out_tx = n, !.state = st, !.attempt = a])
<1>1. i \in Inner
  BY DEF InnerOK
<1>2. [i EXCEPT !.out_tx = n, !.state = st, !.attempt = a] \in Inner
  BY <1>1, Zenon DEF Inner, SessionState
<1>3. [i EXCEPT !.out_tx = n, !.state = st, !.attempt = a].queue = i.queue
  BY <1>1, Zenon DEF Inner
<1> QED BY <1>2, <1>3, SameQueue, Zenon

LEMMA PutRefreshed ==
  ASSUME NEW i, InnerOK(i), NEW m \in 0 .. MaxGen, NEW b \in BOOLEAN, NEW n \in 0 .. MaxGen
  PROVE  InnerOK([i EXCEPT !.dial_gen = m, !.session_ready = b, !.out_tx = n])
<1>1. i \in Inner
  BY DEF InnerOK
<1>2. [i EXCEPT !.dial_gen = m, !.session_ready = b, !.out_tx = n] \in Inner
  BY <1>1, Zenon DEF Inner
<1>3. [i EXCEPT !.dial_gen = m, !.session_ready = b, !.out_tx = n].queue = i.queue
  BY <1>1, Zenon DEF Inner
<1> QED BY <1>2, <1>3, SameQueue, Zenon

LEMMA PutDialing ==
  ASSUME NEW i, InnerOK(i), NEW m \in 0 .. MaxGen, NEW b \in BOOLEAN, NEW st \in SessionState
  PROVE  InnerOK([i EXCEPT !.dial_gen = m, !.session_ready = b, !.state = st])
<1>1. i \in Inner
  BY DEF InnerOK
<1>2. [i EXCEPT !.dial_gen = m, !.session_ready = b, !.state = st] \in Inner
  BY <1>1, Zenon DEF Inner, SessionState
<1>3. [i EXCEPT !.dial_gen = m, !.session_ready = b, !.state = st].queue = i.queue
  BY <1>1, Zenon DEF Inner
<1> QED BY <1>2, <1>3, SameQueue, Zenon

\* reject_pending_locked empties the waiter slots.
LEMMA RejectPendingType ==
  ASSUME NEW i, InnerOK(i)
  PROVE  InnerOK(RejectPending(i))
<1>1. i \in Inner
  BY DEF InnerOK
<1>2. RejectPending(i) \in Inner /\ RejectPending(i).queue = i.queue
  BY <1>1, ConstantFacts, Zenon DEF Inner, RejectPending
<1> QED BY <1>2, SameQueue, Zenon

-----------------------------------------------------------------------------
(* Application calls keep the invariant.                                     *)

\* A call begins; a publish takes the sample it publishes.
LEMMA BeginType ==
  ASSUME CallsOK(call), LeftOK(left), NEW p \in Procs, NEW act \in Acts, NEW pc \in CallPc,
         pc \in {"pub", "pubSend"} => act = "publish", Begin(p, act, pc)
  PROVE  CallsOK(call') /\ LeftOK(left')
<1>1. LeftOK(left')
  BY SpendType, Zenon DEF Begin
<1> DEFINE pt == IF act = "publish" THEN left["publish"] ELSE 0
           c == [call[p] EXCEPT !.pc = pc, !.pt = pt]
<1>2. call' = [call EXCEPT ![p] = c]
  BY Zenon DEF Begin
<1>3. left[act] > 0
  BY Zenon DEF Begin, Spend
<1>4. act = "publish" => left["publish"] \in Points
  <2>1. "publish" \in Acts
    BY DEF Acts
  <2>2. left \in [Acts -> Nat] /\ left["publish"] <= Budget["publish"]
    BY Zenon DEF LeftOK
  <2>3. Budget \in [Acts -> Nat] /\ Points = 1 .. Budget["publish"]
    BY ClientAssumption DEF ClientAssumption
  <2> QED BY <1>3, <2>1, <2>2, <2>3
<1>5. pt \in Points \cup {0}
  BY <1>4
<1> HIDE DEF pt
<1>6. c \in Call /\ c.pc = pc /\ c.pt = pt
  BY <1>5, CallParts, Zenon DEF Call
<1> HIDE DEF c
<1>7. Holds(c)
  BY <1>4, <1>6 DEF Holds, pt
<1> QED BY <1>1, <1>2, <1>6, <1>7, CallPut

\* publish, start_track, stop_track, resume, send_event and close begin.
LEMMA NewCallType ==
  ASSUME IInv, NEW p \in Procs, NewCall(p)
  PROVE  IInv'
<1>0. /\ InnerOK(g) /\ DriversOK(driver) /\ CallsOK(call) /\ ReadersOK(reader)
      /\ WiresOK(wire) /\ ServerOK(srv) /\ LeftOK(left)
  BY Zenon DEF IInv
<1>a. /\ {"publish", "start", "stop", "resume", "event", "close"} \subseteq Acts
      /\ {"pubStart", "pub", "startSend", "stop", "resume", "eventSend", "closeSend",
          "close"} \subseteq CallPc
  BY DEF Acts, CallPc
<1>1. CASE PublishBegin(p)
  <2>1. CASE Begin(p, "publish", "pubStart") /\ g' = FreshTrack(g)
    <3>1. CallsOK(call') /\ LeftOK(left')
      BY <1>0, <1>a, <2>1, BeginType
    <3>2. InnerOK(g')
      BY <1>0, <2>1, FreshTrackType
    <3> QED BY <1>0, <1>1, <3>1, <3>2 DEF PublishBegin, IInv
  <2>2. CASE Begin(p, "publish", "pub") /\ UNCHANGED g
    <3>1. CallsOK(call') /\ LeftOK(left')
      BY <1>0, <1>a, <2>2, BeginType
    <3> QED BY <1>0, <1>1, <2>2, <3>1 DEF PublishBegin, IInv
  <2> QED BY <1>1, <2>1, <2>2 DEF PublishBegin
<1>2. CASE StartTrack(p)
  <2>1. LeftOK(left')
    BY <1>0, <1>a, <1>2, SpendType DEF StartTrack
  <2>2. InnerOK([FreshTrack(g) EXCEPT !.start_wait = p])
    BY <1>0, FreshTrackType, PutStartWait, ConstantFacts
  <2>3. CallsOK([TellCall(call, g.start_wait, "err") EXCEPT ![p].pc = "startSend"])
    <3>1. CallsOK(TellCall(call, g.start_wait, "err"))
      BY <1>0, TellCallType DEF Result
    <3> QED BY <1>a, <3>1, CallMoves
  <2> QED BY <1>0, <1>2, <2>1, <2>2, <2>3 DEF StartTrack, IInv
<1>3. CASE StopTrack(p)
  <2>1. CallsOK(call') /\ LeftOK(left')
    BY <1>0, <1>a, <1>3, BeginType DEF StopTrack
  <2> QED BY <1>0, <1>3, <2>1 DEF StopTrack, IInv
<1>4. CASE CloseBegin(p)
  <2>1. CallsOK(call') /\ LeftOK(left')
    BY <1>0, <1>a, <1>4, BeginType DEF CloseBegin
  <2> QED BY <1>0, <1>4, <2>1 DEF CloseBegin, IInv
<1>5. CASE ManualResume(p)
  <2>1. PICK arg \in ResumeArgs :
          call' = [call EXCEPT ![p] = [call[p] EXCEPT !.pc = "resume", !.uid = arg[1], !.seq = arg[2]]]
    BY <1>5, Zenon DEF ManualResume
  <2> DEFINE uid == arg[1]
             seq == arg[2]
  <2>2. uid \in Nat /\ seq \in Nat
    BY ClientAssumption DEF ClientAssumption
  <2> HIDE DEF uid, seq
  <2> DEFINE c == [call[p] EXCEPT !.pc = "resume", !.uid = uid, !.seq = seq]
  <2>3. c \in Call /\ c.pc = "resume"
    <3>1. "resume" \in CallPc
      BY <1>a
    <3> QED BY <1>0, <2>2, <3>1, CallParts, Zenon DEF Call
  <2> HIDE DEF c
  <2>4. Holds(c)
    BY <2>3 DEF Holds
  <2>5. CallsOK(call')
    BY <1>0, <2>1, <2>3, <2>4, CallPut DEF c, uid, seq
  <2>6. LeftOK(left')
    BY <1>0, <1>a, <1>5, SpendType DEF ManualResume
  <2> QED BY <1>0, <1>5, <2>5, <2>6 DEF ManualResume, IInv
<1>6. CASE SendEvent(p)
  <2>1. CallsOK(call') /\ LeftOK(left')
    BY <1>0, <1>a, <1>6, BeginType DEF SendEvent
  <2> QED BY <1>0, <1>6, <2>1 DEF SendEvent, IInv
<1> QED BY <1>1, <1>2, <1>3, <1>4, <1>5, <1>6 DEF NewCall

\* A live publish numbers its point and records it as a frame.
LEMMA PublishLiveType ==
  ASSUME IInv, NEW p \in Procs, PublishLive(p)
  PROVE  IInv'
<1>0. /\ InnerOK(g) /\ DriversOK(driver) /\ CallsOK(call) /\ ReadersOK(reader)
      /\ WiresOK(wire) /\ ServerOK(srv) /\ LeftOK(left)
  BY Zenon DEF IInv
<1> DEFINE seq == g.last_assigned_seq + 1
<1>1. g \in Inner /\ g.queue \in Queue /\ Bounded(g.queue) /\ g.last_assigned_seq \in Nat
  BY <1>0, InnerParts
<1>2. seq \in Nat
  BY <1>1
<1>3. call[p].pt \in Points
  <2>1. Holds(call[p]) /\ call[p].pc = "pub"
    BY <1>0, CallParts DEF PublishLive
  <2> QED BY <2>1 DEF Holds
<1>4. PICK q \in Enqueue(g.queue, seq, call[p].pt) :
             g' = [g EXCEPT !.last_assigned_seq = seq, !.queue = RecordFrames(q, <<seq>>)]
  BY Zenon DEF PublishLive
<1>5. call' = [call EXCEPT ![p] = [call[p] EXCEPT !.pc = "pubSend", !.seq = seq]]
  BY Zenon DEF PublishLive
<1>6. ~WindowFull(g.queue) /\ UNCHANGED <<driver, reader, wire, srv, left>>
  BY Zenon DEF PublishLive
<1> HIDE DEF seq
<1>7. q \in Queue /\ Size(q) <= MaxQueue /\ q.frames = g.queue.frames
  BY <1>1, <1>2, <1>3, EnqueueBounded
<1> DEFINE r == RecordFrames(q, <<seq>>)
<1>8. r \in Queue /\ Bounded(r)
  <2>1. <<seq>> \in Seq(Nat) /\ Len(<<seq>>) = 1
    BY <1>2
  <2>2. r \in Queue /\ Size(r) = Size(q) /\ Len(r.frames) = Len(q.frames) + 1
    BY <1>7, <2>1, RecordFramesAdds
  <2>3. Len(g.queue.frames) < Window /\ Len(g.queue.frames) \in Nat /\ Window \in Nat
    <3>1. Len(g.queue.frames) \in Nat /\ Window \in Nat
      BY <1>1, QueueParts, QueueAssumption DEF QueueAssumption
    <3> QED BY <1>6, <3>1 DEF WindowFull
  <2> HIDE DEF r
  <2>4. Len(r.frames) <= Window
    BY <1>7, <2>2, <2>3
  <2> QED BY <1>7, <2>2, <2>4 DEF Bounded
<1> HIDE DEF r
<1>9. InnerOK(g')
  <2>1. g' = [g EXCEPT !.last_assigned_seq = seq, !.queue = r]
    BY <1>4 DEF r
  <2>2. g' \in Inner /\ g'.queue = r
    BY <1>1, <1>2, <1>8, <2>1, Zenon DEF Inner
  <2> QED BY <1>8, <2>2 DEF InnerOK
<1>10. CallsOK(call')
  <2> DEFINE c == [call[p] EXCEPT !.pc = "pubSend", !.seq = seq]
  <2>1. "pubSend" \in CallPc
    BY DEF CallPc
  <2>2. c \in Call /\ c.pt = call[p].pt
    BY <1>0, <1>2, <2>1, CallParts, Zenon DEF Call
  <2> HIDE DEF c
  <2>3. Holds(c)
    BY <1>3, <2>2 DEF Holds
  <2>4. CallsOK([call EXCEPT ![p] = c])
    BY <1>0, <2>2, <2>3, CallPut
  <2> QED BY <1>5, <2>4 DEF c
<1> QED BY <1>0, <1>6, <1>9, <1>10 DEF IInv

\* Every step of a call in progress.
LEMMA CallStepType ==
  ASSUME IInv, NEW p \in Procs, CallStep(p)
  PROVE  IInv'
<1>0. /\ InnerOK(g) /\ DriversOK(driver) /\ CallsOK(call) /\ ReadersOK(reader)
      /\ WiresOK(wire) /\ ServerOK(srv) /\ LeftOK(left)
  BY Zenon DEF IInv
<1>a. {"pubStartFailed", "startWait", "startFailed", "stopSend", "stopWait", "stopFailed",
       "resume", "resumeSend", "resumeFailed", "resumeWait", "close"} \subseteq CallPc
  BY DEF CallPc
<1>b. M("TrackStart") \in Msg /\ M("TrackStop") \in Msg /\ M("Event") \in Msg
  BY Messages, EmptySeq, ConstantFacts DEF MsgType
<1>c. ASSUME NEW x \in CallPc, x \notin {"pub", "pubSend"}, Goto(p, x) PROVE CallsOK(call')
  BY <1>0, <1>c, CallMoves DEF Goto
<1>d. ASSUME Return(p) PROVE CallsOK(call')
  BY <1>0, <1>d, CallEnds DEF Return
<1>e. ASSUME NEW m \in Msg, Sent(m) \/ SendFails PROVE WiresOK(wire')
  BY <1>0, <1>e, SentType DEF SendFails
<1>f. ASSUME NEW f, CallsOK(f) PROVE CallsOK([f EXCEPT ![p] = IdleCall])
  BY <1>f, CallEnds
<1>g. \A q : CallsOK(TellCall(call, q, "err"))
  BY <1>0, TellCallType DEF Result
<1>h. Unheard(p) => ReadersOK(reader')
  BY <1>0, UnheardType
<1>i. DriversOK(TellDriver(driver, g.resume_wait, "err"))
  BY <1>0, TellDriverType DEF Result
<1>1. CASE PublishStart(p)
  <2>1. CallsOK(call') /\ WiresOK(wire')
    BY <1>1, <1>a, <1>b, <1>c, <1>d, <1>e DEF PublishStart
  <2> QED BY <1>0, <1>1, <2>1 DEF PublishStart, IInv
<1>2. CASE PublishStartFailed(p)
  <2>1. CallsOK(call')
    BY <1>2, <1>d DEF PublishStartFailed
  <2>2. InnerOK([g EXCEPT !.starting = FALSE])
    BY <1>0, PutStarting, ConstantFacts
  <2> QED BY <1>0, <1>2, <2>1, <2>2 DEF PublishStartFailed, IInv
<1>3. CASE PublishStage(p)
  <2>1. CallsOK(call')
    BY <1>3, <1>d DEF PublishStage
  <2>2. call[p].pt \in Points
    <3>1. Holds(call[p]) /\ call[p].pc = "pub"
      BY <1>0, <1>3, CallParts DEF PublishStage
    <3> QED BY <3>1 DEF Holds
  <2>3. PICK q \in PushStaging(g.queue, call[p].pt) : g' = [g EXCEPT !.queue = q]
    BY <1>3, Zenon DEF PublishStage
  <2>4. g \in Inner /\ q \in Queue /\ Bounded(q)
    BY <1>0, <2>2, InnerParts, PushStagingBounded
  <2>5. g' \in Inner /\ g'.queue = q
    BY <2>3, <2>4, Zenon DEF Inner
  <2>6. InnerOK(g')
    BY <2>4, <2>5 DEF InnerOK
  <2> QED BY <1>0, <1>3, <2>1, <2>6 DEF PublishStage, IInv
<1>4. CASE PublishLive(p)
  BY <1>4, PublishLiveType
<1>5. CASE PublishSend(p)
  <2>1. CallsOK(call')
    BY <1>5, <1>d DEF PublishSend
  <2>2. Loc(call[p].seq % SeqSpace, <<call[p].pt>>) \in Msg
    <3>1. Holds(call[p]) /\ call[p].pc = "pubSend" /\ call[p].seq \in Nat
      BY <1>0, <1>5, CallParts DEF PublishSend
    <3>2. <<call[p].pt>> \in Seq(Points)
      BY <3>1 DEF Holds
    <3>3. call[p].seq % SeqSpace \in Nat
      BY <3>1, QueueAssumption DEF QueueAssumption
    <3>4. "Loc" \in MsgType /\ 0 \in Nat
      BY DEF MsgType
    <3> QED BY <3>2, <3>3, <3>4, Messages
  <2>3. WiresOK(wire')
    BY <1>5, <1>e, <2>2 DEF PublishSend
  <2> QED BY <1>0, <1>5, <2>1, <2>3 DEF PublishSend, IInv
<1>6. CASE StartSend(p)
  <2>1. CallsOK(call') /\ WiresOK(wire')
    BY <1>6, <1>a, <1>b, <1>c, <1>e DEF StartSend
  <2> QED BY <1>0, <1>6, <2>1 DEF StartSend, IInv
<1>7. CASE StartFailed(p)
  <2>1. CallsOK(call')
    BY <1>7, <1>f, <1>g DEF StartFailed
  <2>3. ReadersOK(reader')
    BY <1>7, <1>h DEF StartFailed
  <2>2. InnerOK([g EXCEPT !.start_wait = NoOne, !.starting = FALSE])
    BY <1>0, PutStartEnd, ConstantFacts
  <2> QED BY <1>0, <1>7, <2>1, <2>2, <2>3 DEF StartFailed, IInv
<1>8. CASE StopRegister(p)
  <2>1. CallsOK([TellCall(call, g.stop_wait, "err") EXCEPT ![p].pc = "stopSend"])
    BY <1>a, <1>g, CallMoves
  <2>2. InnerOK([g EXCEPT !.stop_wait = p])
    BY <1>0, PutStopWait, ConstantFacts
  <2> QED BY <1>0, <1>8, <2>1, <2>2 DEF StopRegister, IInv
<1>9. CASE StopSend(p)
  <2>1. CallsOK(call') /\ WiresOK(wire')
    BY <1>9, <1>a, <1>b, <1>c, <1>e DEF StopSend
  <2> QED BY <1>0, <1>9, <2>1 DEF StopSend, IInv
<1>10. CASE StopFailed(p)
  <2>1. CallsOK(call')
    BY <1>10, <1>f, <1>g DEF StopFailed
  <2>3. ReadersOK(reader')
    BY <1>10, <1>h DEF StopFailed
  <2>2. InnerOK([g EXCEPT !.stop_wait = NoOne])
    BY <1>0, PutStopWait, ConstantFacts
  <2> QED BY <1>0, <1>10, <2>1, <2>2, <2>3 DEF StopFailed, IInv
<1>11. CASE CallReturns(p)
  <2>1. CallsOK(call')
    BY <1>11, <1>d DEF CallReturns
  <2> QED BY <1>0, <1>11, <2>1 DEF CallReturns, IInv
<1>12. CASE CloseSend(p)
  <2>1. CallsOK(call') /\ WiresOK(wire')
    BY <1>12, <1>a, <1>b, <1>c, <1>e DEF CloseSend
  <2> QED BY <1>0, <1>12, <2>1 DEF CloseSend, IInv
<1>13. CASE Close(p)
  <2>1. InnerOK([RejectPending(g) EXCEPT !.intentional = TRUE, !.state = "Closed",
                                         !.session_ready = FALSE, !.out_tx = None])
    BY <1>0, PutClosed, RejectPendingType, ConstantFacts DEF SessionState
  <2>2. CallsOK([RejectedCalls EXCEPT ![p] = IdleCall])
    BY <1>0, <1>f, RejectedCallsType
  <2>3. DriversOK(RejectedDrivers)
    BY <1>i DEF RejectedDrivers
  <2>4. WiresOK(HangUp)
    BY <1>0, HangUpType
  <2> QED BY <1>0, <1>13, <2>1, <2>2, <2>3, <2>4 DEF Close, IInv
<1>14. CASE ManualRegister(p)
  <2> DEFINE c == [call[p] EXCEPT !.pc = "resumeSend", !.res = "pending"]
             told == TellCall(call, g.resume_wait, "err")
  <2>1. call[p].uid \in Nat /\ call[p].seq \in Nat
    BY <1>0, CallParts
  <2>2. InnerOK([g EXCEPT !.track_uid = call[p].uid, !.last_assigned_seq = call[p].seq,
                          !.resume_wait = p])
    BY <1>0, <2>1, PutManual
  <2>3. c \in Call /\ c.pc = "resumeSend"
    <3>1. "resumeSend" \in CallPc /\ "pending" \in Result
      BY <1>a DEF Result
    <3> QED BY <1>0, <3>1, CallParts, Zenon DEF Call
  <2>4. /\ g' = [g EXCEPT !.track_uid = call[p].uid, !.last_assigned_seq = call[p].seq,
                          !.resume_wait = p]
        /\ call' = [told EXCEPT ![p] = c]
        /\ driver' = TellDriver(driver, g.resume_wait, "err")
        /\ UNCHANGED <<reader, wire, srv, left>>
    BY <1>14, Zenon DEF ManualRegister
  <2>5. CallsOK(told)
    BY <1>g
  <2> HIDE DEF c, told
  <2>6. Holds(c)
    BY <2>3 DEF Holds
  <2>7. CallsOK([told EXCEPT ![p] = c])
    BY <2>3, <2>5, <2>6, CallPut
  <2> QED BY <1>0, <1>i, <2>2, <2>4, <2>7 DEF IInv
<1>15. CASE ManualSend(p)
  <2>1. CallsOK(call')
    BY <1>15, <1>a, <1>c DEF ManualSend
  <2>2. Resume(call[p].uid) \in Msg
    BY <1>0, CallParts, Messages, EmptySeq DEF MsgType
  <2>3. WiresOK(wire')
    BY <1>15, <1>e, <2>2 DEF ManualSend
  <2> QED BY <1>0, <1>15, <2>1, <2>3 DEF ManualSend, IInv
<1>16. CASE ManualFailed(p)
  <2>1. CallsOK(call')
    BY <1>16, <1>f, <1>g DEF ManualFailed
  <2>2. InnerOK([g EXCEPT !.resume_wait = NoOne])
    BY <1>0, PutResumeWait, ConstantFacts
  <2>3. ReadersOK(reader')
    BY <1>16, <1>h DEF ManualFailed
  <2> QED BY <1>0, <1>16, <1>i, <2>1, <2>2, <2>3 DEF ManualFailed, IInv
<1>17. CASE ManualReturns(p)
  <2>1. Goto(p, "resume") \/ Return(p)
    BY <1>17 DEF ManualReturns
  <2>2. CallsOK(call')
    BY <1>a, <1>c, <1>d, <2>1
  <2> QED BY <1>0, <1>17, <2>2 DEF ManualReturns, IInv
<1>18. CASE EventSend(p)
  <2>1. CallsOK(call') /\ WiresOK(wire')
    BY <1>18, <1>b, <1>d, <1>e DEF EventSend
  <2> QED BY <1>0, <1>18, <2>1 DEF EventSend, IInv
<1> QED BY <1>1, <1>2, <1>3, <1>4, <1>5, <1>6, <1>7, <1>8, <1>9, <1>10, <1>11, <1>12, <1>13,
           <1>14, <1>15, <1>16, <1>17, <1>18 DEF CallStep

-----------------------------------------------------------------------------
(* Dialing tasks keep the invariant.                                         *)

\* on_socket_closed: the queue is marked unsent, whatever happens next.
LEMMA LostType ==
  ASSUME NEW i, InnerOK(i)
  PROVE  InnerOK([i EXCEPT !.out_tx = None, !.session_ready = FALSE, !.queue = MarkUnsent(@)])
<1> DEFINE q == MarkUnsent(i.queue)
           l == [i EXCEPT !.out_tx = None, !.session_ready = FALSE, !.queue = MarkUnsent(@)]
<1>1. i \in Inner /\ i.queue \in Queue /\ Bounded(i.queue)
  BY InnerParts
<1>2. q \in Queue /\ Bounded(q)
  BY <1>1, MarkUnsentBounded
<1>3. l = [i EXCEPT !.out_tx = None, !.session_ready = FALSE, !.queue = q]
  BY Zenon
<1> HIDE DEF q, l
<1>4. l \in Inner /\ l.queue = q
  BY <1>1, <1>2, <1>3, ConstantFacts, Zenon DEF Inner
<1>5. InnerOK(l)
  BY <1>2, <1>4 DEF InnerOK
<1> QED BY <1>5 DEF l

\* on_socket_closed.
LEMMA SocketClosedType ==
  ASSUME IInv, NEW d \in Drivers, SocketClosed(d)
  PROVE  IInv'
<1>0. /\ InnerOK(g) /\ DriversOK(driver) /\ CallsOK(call) /\ ReadersOK(reader)
      /\ WiresOK(wire) /\ ServerOK(srv) /\ LeftOK(left)
  BY Zenon DEF IInv
<1> DEFINE lost == [g EXCEPT !.out_tx = None, !.session_ready = FALSE, !.queue = MarkUnsent(@)]
           attempt == IF MaxAttempts > 0 THEN lost.attempt + 1 ELSE lost.attempt
           v == [driver[d] EXCEPT !.pc = "sleep", !.resume = ResumeNeeded]
<1>1. UNCHANGED <<reader, wire, srv, left>>
  BY Zenon DEF SocketClosed
<1>2. InnerOK(lost)
  BY <1>0, LostType
<1>3. \/ Finish(d) /\ UNCHANGED <<g, call>>
      \/ g' = [lost EXCEPT !.state = "Closed"] /\ Finish(d) /\ UNCHANGED call
      \/ /\ g' = [RejectPending(lost) EXCEPT !.state = "Closed"] /\ call' = RejectedCalls
         /\ driver' = [RejectedDrivers EXCEPT ![d] = IdleDriver]
      \/ /\ g' = [lost EXCEPT !.state = "Reconnecting", !.attempt = attempt] /\ ~Exhausted
         /\ driver' = [driver EXCEPT ![d] = v] /\ UNCHANGED call
  BY Zenon DEF SocketClosed
<1>4. ~Exhausted => attempt \in 0 .. MaxAttempts
  <2>1. lost.attempt \in 0 .. MaxAttempts
    BY <1>2, InnerParts
  <2>2. lost.attempt = g.attempt
    BY <1>0, Zenon DEF InnerOK, Inner
  <2> HIDE DEF lost
  <2> QED BY <2>1, <2>2, ConstantFacts DEF Exhausted
<1>5. v \in Driver
  <2>1. "sleep" \in DriverPc /\ ResumeNeeded \in BOOLEAN
    BY DEF DriverPc, ResumeNeeded
  <2>2. driver[d] \in Driver
    BY <1>0, DriverParts
  <2> HIDE DEF lost, attempt
  <2> QED BY <2>1, <2>2, Zenon DEF Driver
<1> HIDE DEF lost, attempt, v
<1>6. /\ InnerOK([lost EXCEPT !.state = "Closed"])
      /\ InnerOK([RejectPending(lost) EXCEPT !.state = "Closed"])
      /\ ~Exhausted => InnerOK([lost EXCEPT !.state = "Reconnecting", !.attempt = attempt])
  <2>1. InnerOK([lost EXCEPT !.state = "Closed"])
    BY <1>2, PutState, ConstantFacts DEF SessionState
  <2>2. InnerOK(RejectPending(lost))
    BY <1>2, RejectPendingType
  <2>3. InnerOK([RejectPending(lost) EXCEPT !.state = "Closed"])
    BY <2>2, PutState, ConstantFacts DEF SessionState
  <2>4. ~Exhausted => InnerOK([lost EXCEPT !.state = "Reconnecting", !.attempt = attempt])
    BY <1>2, <1>4, PutAttempt, ConstantFacts DEF SessionState
  <2> QED BY <2>1, <2>3, <2>4
<1>7. DriversOK([RejectedDrivers EXCEPT ![d] = IdleDriver])
  <2>1. DriversOK(RejectedDrivers)
    BY <1>0, TellDriverType DEF RejectedDrivers, Result
  <2> QED BY <2>1, DriverPut, IdleDriverType, ConstantFacts
<1>8. DriversOK([driver EXCEPT ![d] = v])
  BY <1>0, <1>5, DriverPut
<1>9. Finish(d) => DriversOK(driver')
  BY <1>0, FinishType, ConstantFacts
<1>10. InnerOK(g') /\ DriversOK(driver') /\ CallsOK(call')
  BY <1>0, <1>3, <1>6, <1>7, <1>8, <1>9, RejectedCallsType
<1> QED BY <1>0, <1>1, <1>10 DEF IInv

\* Every other step of a dialing task.
LEMMA DriverStepType ==
  ASSUME IInv, NEW d \in Drivers, DriverStep(d)
  PROVE  IInv'
<1>0. /\ InnerOK(g) /\ DriversOK(driver) /\ CallsOK(call) /\ ReadersOK(reader)
      /\ WiresOK(wire) /\ ServerOK(srv) /\ LeftOK(left)
  BY Zenon DEF IInv
<1>a. {"dial", "connecting", "install", "relocate", "closed", "sleep", "resume", "sendResume",
       "waitResume", "retrySleep"} \subseteq DriverPc
  BY DEF DriverPc
<1>b. {"fail", "relocate"} \subseteq Acts /\ "pending" \in Result
  BY DEF Acts, Result
<1>c. ASSUME NEW x \in DriverPc, Step(d, x) PROVE DriversOK(driver')
  BY <1>0, <1>c, StepType
<1>d. ASSUME Finish(d) PROVE DriversOK(driver')
  BY <1>0, <1>d, FinishType, ConstantFacts
<1>e. ASSUME DialErr(d) PROVE DriversOK(driver')
  BY <1>0, <1>e, DialErrType, ConstantFacts
<1>f. ASSUME NEW v \in Driver PROVE DriversOK([driver EXCEPT ![d] = v])
  BY <1>0, DriverPut
<1>g. /\ driver[d] \in Driver /\ driver[d].gen \in 0 .. MaxGen
      /\ driver[d].resume \in BOOLEAN /\ ResumeNeeded \in BOOLEAN
  BY <1>0, DriverParts DEF ResumeNeeded
<1>h. /\ g.track_uid \in Nat /\ g.dial_gen \in 0 .. MaxGen
      /\ g.state \in {"Connecting", "Open", "Reconnecting", "Closed"}
  BY <1>0, InnerParts
<1>1. CASE SocketClosed(d)
  BY <1>1, SocketClosedType
<1>2. CASE Wake(d)
  <2>1. DriversOK(driver')
    BY <1>2, <1>a, <1>c, <1>d DEF Wake
  <2> QED BY <1>0, <1>2, <2>1 DEF Wake, IInv
<1>3. CASE HandleRelocate(d)
  <2>1. CASE g.intentional
    BY <1>0, <1>3, <1>e, <2>1 DEF HandleRelocate, IInv
  <2>2. CASE ~g.intentional
    <3> DEFINE b == driver[d].resume \/ ResumeNeeded
               v == [driver[d] EXCEPT !.pc = "dial", !.resume = b]
    <3>1. driver' = [driver EXCEPT ![d] = v]
      BY <1>3, <2>2, Zenon DEF HandleRelocate
    <3>2. b \in BOOLEAN
      BY <1>g
    <3> HIDE DEF b
    <3>3. v \in Driver
      <4>1. "dial" \in DriverPc
        BY <1>a
      <4> QED BY <1>g, <3>2, <4>1, Zenon DEF Driver
    <3> HIDE DEF v
    <3>4. DriversOK(driver')
      BY <1>f, <3>1, <3>3
    <3> QED BY <1>0, <1>3, <3>4 DEF HandleRelocate, IInv
  <2> QED BY <2>1, <2>2
<1>4. CASE GiveUpAuth(d)
  <2>1. InnerOK([g EXCEPT !.intentional = TRUE, !.state = "Closed", !.out_tx = None])
    BY <1>0, PutGivenUp, ConstantFacts DEF SessionState
  <2>2. DriversOK(driver') /\ WiresOK(HangUp)
    BY <1>0, <1>4, <1>d, HangUpType DEF GiveUpAuth
  <2> QED BY <1>0, <1>4, <2>1, <2>2 DEF GiveUpAuth, IInv
<1>5. CASE RefreshOk(d)
  <2>1. g.dial_gen + 1 \in 0 .. MaxGen
    BY <1>5, <1>h, ConstantFacts DEF RefreshOk
  <2>2. InnerOK(g')
    <3>1. g' = [g EXCEPT !.dial_gen = g.dial_gen + 1, !.session_ready = FALSE, !.out_tx = None]
      BY <1>5, Zenon DEF RefreshOk
    <3> QED BY <1>0, <2>1, <3>1, PutRefreshed, ConstantFacts
  <2>3. DriversOK(driver')
    <3> DEFINE v == [driver[d] EXCEPT !.pc = "dial", !.resume = ResumeNeeded]
    <3>1. Finish(d) \/ driver' = [driver EXCEPT ![d] = v]
      BY <1>5, Zenon DEF RefreshOk
    <3>2. v \in Driver
      <4>1. "dial" \in DriverPc
        BY <1>a
      <4> QED BY <1>g, <4>1, Zenon DEF Driver
    <3> HIDE DEF v
    <3> QED BY <1>d, <1>f, <3>1, <3>2
  <2>4. WiresOK(HangUp)
    BY <1>0, HangUpType
  <2> QED BY <1>0, <1>5, <2>2, <2>3, <2>4 DEF RefreshOk, IInv
<1>6. CASE RefreshErr(d)
  <2>1. InnerOK([g EXCEPT !.intentional = TRUE, !.state = "Closed"])
    BY <1>0, PutIntentional, ConstantFacts DEF SessionState
  <2>2. DriversOK(driver') /\ LeftOK(left')
    BY <1>0, <1>6, <1>b, <1>d, SpendType DEF RefreshErr
  <2> QED BY <1>0, <1>6, <2>1, <2>2 DEF RefreshErr, IInv
<1>7. CASE Dial(d)
  <2>1. g.dial_gen + 1 \in 0 .. MaxGen
    BY <1>7, <1>h, ConstantFacts DEF Dial
  <2>2. InnerOK(g')
    <3> DEFINE st == IF g.state \in {"Open", "Reconnecting"} THEN "Reconnecting" ELSE "Connecting"
    <3>1. g' = [g EXCEPT !.dial_gen = g.dial_gen + 1, !.session_ready = FALSE, !.state = st]
      BY <1>7, Zenon DEF Dial
    <3>2. st \in {"Connecting", "Open", "Reconnecting", "Closed"}
      OBVIOUS
    <3> HIDE DEF st
    <3>3. InnerOK([g EXCEPT !.dial_gen = g.dial_gen + 1, !.session_ready = FALSE, !.state = st])
      BY <1>0, <2>1, <3>2, PutDialing, ConstantFacts DEF SessionState
    <3> QED BY <3>1, <3>3, Zenon
  <2>3. DriversOK(driver')
    <3> DEFINE v == [driver[d] EXCEPT !.pc = "connecting", !.gen = g.dial_gen + 1]
    <3>1. driver' = [driver EXCEPT ![d] = v]
      BY <1>7, Zenon DEF Dial
    <3>2. v \in Driver
      <4>1. "connecting" \in DriverPc
        BY <1>a
      <4> QED BY <1>g, <2>1, <4>1, Zenon DEF Driver
    <3> HIDE DEF v
    <3> QED BY <1>f, <3>1, <3>2
  <2> QED BY <1>0, <1>7, <2>2, <2>3 DEF Dial, IInv
<1>8. CASE DialHello(d)
  <2>1. DriversOK(driver')
    BY <1>8, <1>a, <1>c DEF DialHello
  <2>2. WiresOK(wire')
    <3> DEFINE s == driver[d].gen
               v == [wire[s] EXCEPT !.up = TRUE]
    <3>1. wire' = [wire EXCEPT ![s] = v]
      BY <1>8, Zenon DEF DialHello
    <3>2. s \in Gens => v \in Wire
      <4> HIDE DEF s
      <4> QED BY <1>0, WireParts, Zenon DEF Wire
    <3> HIDE DEF s, v
    <3> QED BY <1>0, <3>1, <3>2, WireUpdate
  <2> QED BY <1>0, <1>8, <2>1, <2>2 DEF DialHello, IInv
<1>9. CASE DialRelocated(d)
  <2>1. DriversOK(driver') /\ LeftOK(left')
    BY <1>0, <1>9, <1>a, <1>b, <1>c, SpendType DEF DialRelocated
  <2> QED BY <1>0, <1>9, <2>1 DEF DialRelocated, IInv
<1>10. CASE DialFails(d)
  <2>1. DriversOK(driver') /\ LeftOK(left')
    BY <1>0, <1>10, <1>b, <1>e, SpendType DEF DialFails
  <2> QED BY <1>0, <1>10, <2>1 DEF DialFails, IInv
<1>11. CASE Install(d)
  <2> DEFINE s == driver[d].gen
  <2>1. UNCHANGED <<call, srv, left>>
    BY <1>11, Zenon DEF Install
  <2>2. CASE Superseded(d)
    <3>1. DialErr(d) /\ wire' = [wire EXCEPT ![s] = ClosedWire] /\ UNCHANGED <<g, reader>>
      BY <1>11, <2>2, Zenon DEF Install
    <3>2. WiresOK([wire EXCEPT ![s] = ClosedWire])
      BY <1>0, WireUpdate, ClosedWireType
    <3> QED BY <1>0, <1>e, <2>1, <3>1, <3>2 DEF IInv
  <2>3. CASE ~Superseded(d)
    <3> DEFINE v == [reader[s] EXCEPT !.pc = "read"]
    <3>1. /\ g' = [g EXCEPT !.out_tx = s, !.state = "Open", !.attempt = 0]
          /\ reader' = [reader EXCEPT ![s] = v] /\ UNCHANGED wire
          /\ Step(d, "resume") \/ Finish(d)
      BY <1>11, <2>3, Zenon DEF Install
    <3>2. InnerOK([g EXCEPT !.out_tx = s, !.state = "Open", !.attempt = 0])
      BY <1>0, <1>g, PutInstalled, ConstantFacts DEF SessionState
    <3>3. ReadersOK([reader EXCEPT ![s] = v])
      <4>1. s \in Gens => v \in Reader /\ v.pc = "read"
        <5> HIDE DEF s
        <5> QED BY <1>0, ReaderParts, Zenon DEF Reader
      <4> HIDE DEF v
      <4> QED BY <1>0, <4>1, ReaderUpdate DEF Busy
    <3>4. DriversOK(driver')
      BY <1>a, <1>c, <1>d, <3>1
    <3> QED BY <1>0, <2>1, <3>1, <3>2, <3>3, <3>4 DEF IInv
  <2> QED BY <2>2, <2>3
<1>12. CASE ResumeRegister(d)
  <2>1. UNCHANGED <<reader, wire, srv, left>>
    BY <1>12, Zenon DEF ResumeRegister
  <2>2. CASE g.track_uid = None
    <3>1. Finish(d) /\ UNCHANGED <<g, call>>
      BY <1>12, <2>2, Zenon DEF ResumeRegister
    <3> QED BY <1>0, <1>d, <2>1, <3>1 DEF IInv
  <2>3. CASE g.track_uid # None
    <3> DEFINE v == [driver[d] EXCEPT !.pc = "sendResume", !.uid = g.track_uid,
                                      !.res = "pending"]
               told == TellDriver(driver, g.resume_wait, "err")
    <3>1. /\ g' = [g EXCEPT !.resume_wait = d] /\ driver' = [told EXCEPT ![d] = v]
          /\ call' = TellCall(call, g.resume_wait, "err")
      BY <1>12, <2>3, Zenon DEF ResumeRegister
    <3>2. v \in Driver
      BY <1>a, <1>b, <1>g, <1>h, DriverFields
    <3>3. DriversOK(told)
      BY <1>0, TellDriverType DEF Result
    <3> HIDE DEF v, told
    <3>4. DriversOK([told EXCEPT ![d] = v])
      BY <3>2, <3>3, DriverPut
    <3>5. InnerOK([g EXCEPT !.resume_wait = d])
      BY <1>0, PutResumeWait, ConstantFacts
    <3>6. CallsOK(call')
      BY <1>0, <3>1, TellCallType DEF Result
    <3> QED BY <1>0, <2>1, <3>1, <3>4, <3>5, <3>6 DEF IInv
  <2> QED BY <2>2, <2>3
<1>13. CASE ResumeSend(d)
  <2>1. Resume(driver[d].uid) \in Msg
    BY <1>0, DriverParts, Messages, EmptySeq DEF MsgType
  <2>2. WiresOK(wire')
    BY <1>0, <1>13, <2>1, SentType DEF ResumeSend, SendFails
  <2>3. DriversOK(driver')
    BY <1>13, <1>a, <1>c, <1>e DEF ResumeSend
  <2>4. ReadersOK(reader')
    BY <1>0, <1>13, UnheardType DEF ResumeSend
  <2> QED BY <1>0, <1>13, <2>2, <2>3, <2>4 DEF ResumeSend, IInv
<1>14. CASE ResumeReturns(d)
  <2>1. Finish(d) \/ Step(d, "retrySleep") \/ DialErr(d)
    BY <1>14 DEF ResumeReturns
  <2>2. DriversOK(driver')
    BY <1>a, <1>c, <1>d, <1>e, <2>1
  <2> QED BY <1>0, <1>14, <2>2 DEF ResumeReturns, IInv
<1>15. CASE ResumeRetry(d)
  <2>1. DriversOK(driver')
    BY <1>15, <1>a, <1>c, <1>e DEF ResumeRetry
  <2> QED BY <1>0, <1>15, <2>1 DEF ResumeRetry, IInv
<1>16. CASE ReconnectFailed(d)
  <2> DEFINE v == [driver[d] EXCEPT !.pc = "closed", !.gen = g.dial_gen, !.origin = "reconnect"]
  <2>1. driver' = [driver EXCEPT ![d] = v]
    BY <1>16, Zenon DEF ReconnectFailed
  <2>2. v \in Driver
    <3>1. "closed" \in DriverPc /\ "reconnect" \in {"connect", "reconnect", "ignore"}
      BY <1>a
    <3> QED BY <1>g, <1>h, <3>1, Zenon DEF Driver
  <2> HIDE DEF v
  <2>3. DriversOK(driver')
    BY <1>f, <2>1, <2>2
  <2> QED BY <1>0, <1>16, <2>3 DEF ReconnectFailed, IInv
<1> QED BY <1>1, <1>2, <1>3, <1>4, <1>5, <1>6, <1>7, <1>8, <1>9, <1>10, <1>11, <1>12, <1>13,
           <1>14, <1>15, <1>16 DEF DriverStep

-----------------------------------------------------------------------------
(* The read loop keeps the invariant.                                        *)

\* The message a read loop takes, and the socket without it.
LEMMA ReceivesType ==
  ASSUME WiresOK(wire), NEW s \in Gens, NEW t, Receives(s, t)
  PROVE  Got(s) \in Msg /\ (Consume(s) => WiresOK(wire'))
<1>1. wire[s] \in Wire /\ wire[s].s2c \in Seq(Msg) /\ wire[s].s2c # <<>>
  BY WireParts DEF Receives
<1>2. Got(s) \in Msg /\ Tail(wire[s].s2c) \in Seq(Msg)
  BY <1>1, HeadTailProperties DEF Got
<1> DEFINE v == [wire[s] EXCEPT !.s2c = Tail(wire[s].s2c)]
<1>3. v \in Wire
  BY <1>1, <1>2, Zenon DEF Wire
<1>4. Consume(s) => wire' = [wire EXCEPT ![s] = v]
  BY Zenon DEF Consume
<1> HIDE DEF v
<1>5. WiresOK([wire EXCEPT ![s] = v])
  BY <1>3, WireUpdate
<1> QED BY <1>2, <1>4, <1>5

\* A read loop turns to flush_queue.
LEMMA FlushThenType ==
  ASSUME ReadersOK(reader), NEW s \in Gens, NEW w \in Procs \cup Drivers \cup {NoOne},
         FlushThen(s, w)
  PROVE  ReadersOK(reader')
<1> DEFINE v == [reader[s] EXCEPT !.pc = "flush", !.wake = w]
<1>1. v \in Reader /\ v.pc = "flush"
  BY ReaderParts, Zenon DEF Reader
<1>2. reader' = [reader EXCEPT ![s] = v]
  BY Zenon DEF FlushThen
<1> HIDE DEF v
<1>3. Busy(v)
  BY <1>1 DEF Busy
<1> QED BY <1>1, <1>2, <1>3, ReaderUpdate

\* The oneshot after the flush.
LEMMA WakeupType ==
  ASSUME ReadersOK(reader), DriversOK(driver), CallsOK(call), NEW s \in Gens, Wakeup(s)
  PROVE  ReadersOK(reader') /\ DriversOK(driver') /\ CallsOK(call')
<1> DEFINE v == [pc |-> "read", out |-> <<>>, wake |-> NoOne]
<1>1. <<>> \in Seq(Frame)
  OBVIOUS
<1>2. v \in Reader /\ Busy(v)
  BY <1>1 DEF Reader, Busy
<1>3. /\ reader' = [reader EXCEPT ![s] = v]
      /\ driver' = TellDriver(driver, reader[s].wake, "ok")
      /\ call' = TellCall(call, reader[s].wake, "ok")
  BY Zenon DEF Wakeup
<1> HIDE DEF v
<1>4. ReadersOK([reader EXCEPT ![s] = v])
  BY <1>2, ReaderUpdate
<1>5. /\ DriversOK(TellDriver(driver, reader[s].wake, "ok"))
      /\ CallsOK(TellCall(call, reader[s].wake, "ok"))
  BY TellDriverType, TellCallType DEF Result
<1> QED BY <1>3, <1>4, <1>5

\* Acks only shorten the queue of the session.
LEMMA AckedInner ==
  ASSUME NEW i, InnerOK(i), NEW seq \in Nat
  PROVE  /\ AckThrough(i.queue, seq) \in Queue /\ Bounded(AckThrough(i.queue, seq))
BY InnerParts, AckThroughBounded

\* dispatch of ResumeOk and Ack.
LEMMA AckStepType ==
  ASSUME IInv, NEW s \in Gens, OnResumeOk(s) \/ OnAck(s)
  PROVE  IInv'
<1>0. /\ InnerOK(g) /\ DriversOK(driver) /\ CallsOK(call) /\ ReadersOK(reader)
      /\ WiresOK(wire) /\ ServerOK(srv) /\ LeftOK(left)
  BY Zenon DEF IInv
<1>1. Got(s) \in Msg /\ WiresOK(wire')
  BY <1>0, ReceivesType DEF OnResumeOk, OnAck
<1>2. Got(s).uid \in Nat /\ Got(s).seq \in Nat
  BY <1>1, MsgParts
<1> DEFINE seq == Got(s).seq
           q == AckThrough(g.queue, seq)
<1>3. q \in Queue /\ Bounded(q)
  BY <1>0, <1>2, AckedInner
<1>4. /\ g \in Inner /\ g.track_uid \in Nat /\ g.last_assigned_seq \in Nat
      /\ g.last_acked_seq \in Nat
      /\ g.resume_wait \in Procs \cup Drivers \cup {NoOne}
  BY <1>0, InnerParts
<1>5. CASE OnResumeOk(s)
  <2> DEFINE uid == IF Got(s).uid # None THEN Got(s).uid ELSE g.track_uid
             last == IF g.last_assigned_seq < seq THEN seq ELSE g.last_assigned_seq
  <2>1. g' = [g EXCEPT !.track_uid = uid, !.last_acked_seq = seq, !.last_assigned_seq = last,
                       !.queue = q, !.session_ready = TRUE, !.resume_wait = NoOne]
    BY <1>5, Zenon DEF OnResumeOk
  <2>2. uid \in Nat /\ last \in Nat /\ seq \in Nat
    BY <1>2, <1>4
  <2> HIDE DEF uid, last, q, seq
  <2>3. g' \in Inner /\ g'.queue = q
    BY <1>3, <1>4, <2>1, <2>2, ConstantFacts, Zenon DEF Inner
  <2>4. InnerOK(g')
    BY <1>3, <2>3 DEF InnerOK
  <2>5. ReadersOK(reader')
    BY <1>0, <1>4, <1>5, FlushThenType DEF OnResumeOk
  <2> QED BY <1>0, <1>1, <1>5, <2>4, <2>5 DEF OnResumeOk, IInv
<1>6. CASE OnAck(s)
  <2> DEFINE acked == IF seq > g.last_acked_seq THEN seq ELSE g.last_acked_seq
  <2>1. g' = [g EXCEPT !.last_acked_seq = acked, !.queue = q]
    BY <1>6, Zenon DEF OnAck
  <2>2. acked \in Nat
    BY <1>2, <1>4
  <2> HIDE DEF acked, q
  <2>3. g' \in Inner /\ g'.queue = q
    BY <1>3, <1>4, <2>1, <2>2, Zenon DEF Inner
  <2>4. InnerOK(g')
    BY <1>3, <2>3 DEF InnerOK
  <2>5. ReadersOK(reader')
    BY <1>0, <1>6, FlushThenType DEF OnAck
  <2> QED BY <1>0, <1>1, <1>6, <2>4, <2>5 DEF OnAck, IInv
<1> QED BY <1>5, <1>6

\* One round of flush_queue keeps the window and the buffer within their caps.
LEMMA FlushQueueType ==
  ASSUME IInv, NEW s \in Gens, FlushQueue(s)
  PROVE  IInv'
<1>0. /\ InnerOK(g) /\ DriversOK(driver) /\ CallsOK(call) /\ ReadersOK(reader)
      /\ WiresOK(wire) /\ ServerOK(srv) /\ LeftOK(left)
  BY Zenon DEF IInv
<1> DEFINE a   == FlushAssign(g.queue, g.last_assigned_seq)
           out == FlushEncode(a.queue)
           q   == FlushRecord(a.queue, out)
           v   == [reader[s] EXCEPT !.pc = "send", !.out = out]
<1>1. UNCHANGED <<wire, srv, left>>
  BY Zenon DEF FlushQueue
<1>2. \/ /\ g' = [g EXCEPT !.queue = q, !.last_assigned_seq = a.assigned]
         /\ reader' = [reader EXCEPT ![s] = v] /\ UNCHANGED <<driver, call>>
         /\ out # <<>>
      \/ Wakeup(s) /\ UNCHANGED g
  BY Zenon DEF FlushQueue
<1>3. g \in Inner /\ g.queue \in Queue /\ Bounded(g.queue) /\ g.last_assigned_seq \in Nat
  BY <1>0, InnerParts
<1>4. /\ a.queue \in Queue /\ Size(a.queue) = Size(g.queue)
      /\ a.queue.frames = g.queue.frames /\ a.assigned \in Nat
  BY <1>3, FlushAssignMoves
<1> HIDE DEF a
<1>5. Bounded(a.queue)
  BY <1>3, <1>4 DEF Bounded
<1>6. out \in Seq(Frame) /\ Len(a.queue.frames) + Len(out) <= Window
  BY <1>4, <1>5, FlushEncodeFits
<1> HIDE DEF out
<1>7. q \in Queue /\ Bounded(q)
  BY <1>4, <1>5, <1>6, FlushRecordBounded
<1> HIDE DEF q
<1>8. CASE Wakeup(s) /\ UNCHANGED g
  <2>1. ReadersOK(reader') /\ DriversOK(driver') /\ CallsOK(call')
    BY <1>0, <1>8, WakeupType
  <2> QED BY <1>0, <1>1, <1>8, <2>1 DEF IInv
<1>9. CASE /\ g' = [g EXCEPT !.queue = q, !.last_assigned_seq = a.assigned]
           /\ reader' = [reader EXCEPT ![s] = v] /\ UNCHANGED <<driver, call>>
           /\ out # <<>>
  <2>1. g' \in Inner /\ g'.queue = q
    BY <1>3, <1>4, <1>9, <1>7, Zenon DEF Inner
  <2>2. InnerOK(g')
    BY <1>7, <2>1 DEF InnerOK
  <2>3. v \in Reader /\ v.out = out
    BY <1>0, <1>6, ReaderParts, Zenon DEF Reader
  <2> HIDE DEF v
  <2>4. Busy(v)
    BY <1>9, <2>3 DEF Busy
  <2>5. ReadersOK([reader EXCEPT ![s] = v])
    BY <1>0, <2>3, <2>4, ReaderUpdate
  <2> QED BY <1>0, <1>1, <1>9, <2>2, <2>5 DEF IInv
<1> QED BY <1>2, <1>8, <1>9

\* One frame of a round.
LEMMA SendFrameType ==
  ASSUME IInv, NEW s \in Gens, SendFrame(s)
  PROVE  IInv'
<1>0. /\ InnerOK(g) /\ DriversOK(driver) /\ CallsOK(call) /\ ReadersOK(reader)
      /\ WiresOK(wire) /\ ServerOK(srv) /\ LeftOK(left)
  BY Zenon DEF IInv
<1> DEFINE frame == Head(reader[s].out)
           rest  == Tail(reader[s].out)
           pc    == IF rest = <<>> THEN "flush" ELSE "send"
           v     == [reader[s] EXCEPT !.out = rest, !.pc = pc]
<1>1. UNCHANGED <<g, srv, left>>
  BY Zenon DEF SendFrame
<1>2. \/ /\ Sent(Loc(frame.seq, frame.pts)) /\ reader' = [reader EXCEPT ![s] = v]
         /\ UNCHANGED <<driver, call>>
      \/ SendFails /\ Wakeup(s)
  BY Zenon DEF SendFrame
<1>3. reader[s].out \in Seq(Frame) /\ reader[s].out # <<>>
  BY <1>0, ReaderParts DEF Busy, SendFrame
<1>4. frame \in Frame /\ rest \in Seq(Frame)
  BY <1>3, HeadTailProperties
<1> HIDE DEF frame, rest
<1>5. CASE SendFails /\ Wakeup(s)
  <2>1. ReadersOK(reader') /\ DriversOK(driver') /\ CallsOK(call')
    BY <1>0, <1>5, WakeupType
  <2> QED BY <1>0, <1>1, <1>5, <2>1 DEF IInv, SendFails
<1>6. CASE /\ Sent(Loc(frame.seq, frame.pts)) /\ reader' = [reader EXCEPT ![s] = v]
           /\ UNCHANGED <<driver, call>>
  <2>1. frame.seq \in Nat /\ frame.pts \in Seq(Points)
    BY <1>4, Zenon DEF Frame
  <2>2. Loc(frame.seq, frame.pts) \in Msg
    BY <2>1, Messages DEF MsgType
  <2>3. WiresOK(wire')
    BY <1>0, <1>6, <2>2, SentType
  <2>4. pc \in {"none", "read", "flush", "send", "done"}
    OBVIOUS
  <2>5. pc = "send" => rest # <<>>
    OBVIOUS
  <2> HIDE DEF pc
  <2>6. v \in Reader /\ v.pc = pc /\ v.out = rest
    BY <1>0, <1>4, <2>4, ReaderParts, Zenon DEF Reader
  <2> HIDE DEF v
  <2>7. Busy(v)
    BY <2>5, <2>6 DEF Busy
  <2>8. ReadersOK([reader EXCEPT ![s] = v])
    BY <1>0, <2>6, <2>7, ReaderUpdate
  <2> QED BY <1>0, <1>1, <1>6, <2>3, <2>8 DEF IInv
<1> QED BY <1>2, <1>5, <1>6

\* dispatch of an Error event: every waiter is answered.
LEMMA ErrorType ==
  ASSUME IInv, NEW s \in Gens, NEW code \in ErrorCodes, OnError(s, code)
  PROVE  IInv'
<1>0. /\ InnerOK(g) /\ DriversOK(driver) /\ CallsOK(call) /\ ReadersOK(reader)
      /\ WiresOK(wire) /\ ServerOK(srv) /\ LeftOK(left)
  BY Zenon DEF IInv
<1> DEFINE fatal   == g.resume_wait # NoOne /\ code \in FatalResume
           cleared == IF fatal \/ code = "TrackNotFound" THEN ForgetTrack(g) ELSE g
           res     == IF code = "TryAgain" THEN "retry" ELSE "err"
           told    == TellDriver(driver, g.resume_wait, res)
           still   == /\ RejectPending(cleared).starting
                      /\ g.start_wait = NoOne /\ code # "TrackNotFound"
           fresh   == [IdleDriver EXCEPT !.pc = "auth"]
<1>1. /\ g' = [RejectPending(cleared) EXCEPT !.starting = still]
      /\ SpawnIn(told, fresh) \/ driver' = told
      /\ call' = AnsweredCalls(res) /\ Consume(s) /\ Receives(s, code)
      /\ UNCHANGED <<reader, srv, left>>
  BY Zenon DEF OnError
<1>2. InnerOK(cleared)
  BY <1>0, ForgetTrackType
<1>3. still \in BOOLEAN /\ res \in Result
  <2>1. RejectPending(cleared).starting \in BOOLEAN
    <3> HIDE DEF cleared
    <3>1. InnerOK(RejectPending(cleared))
      BY <1>2, RejectPendingType
    <3> QED BY <3>1, InnerParts
  <2> HIDE DEF cleared
  <2> QED BY <2>1 DEF Result
<1> HIDE DEF cleared, still, res
<1>4. InnerOK(g')
  <2>1. InnerOK(RejectPending(cleared))
    BY <1>2, RejectPendingType
  <2> QED BY <1>1, <1>3, <2>1, PutStarting, ConstantFacts
<1>5. DriversOK(told)
  BY <1>0, <1>3, TellDriverType
<1>6. fresh \in Driver
  <2>1. IdleDriver \in Driver /\ "auth" \in DriverPc
    BY IdleDriverType, ConstantFacts DEF DriverPc
  <2> QED BY <2>1, Zenon DEF Driver
<1> HIDE DEF told, fresh
<1>7. DriversOK(driver')
  BY <1>1, <1>5, <1>6, SpawnType
<1>8. CallsOK(call') /\ WiresOK(wire')
  BY <1>0, <1>1, <1>3, AnsweredCallsType, ReceivesType
<1> QED BY <1>0, <1>1, <1>4, <1>7, <1>8 DEF IInv

\* Every step of a read loop.
LEMMA ReaderStepType ==
  ASSUME IInv, NEW s \in Gens, ReaderStep(s)
  PROVE  IInv'
<1>0. /\ InnerOK(g) /\ DriversOK(driver) /\ CallsOK(call) /\ ReadersOK(reader)
      /\ WiresOK(wire) /\ ServerOK(srv) /\ LeftOK(left)
  BY Zenon DEF IInv
<1>a. /\ g \in Inner /\ g.start_wait \in Procs \cup {NoOne}
  BY <1>0, InnerParts
<1>b. s \in 0 .. MaxGen
  BY ConstantFacts DEF Gens
<1>1. CASE OnTrackStarted(s)
  <2>1. Got(s) \in Msg /\ WiresOK(wire')
    BY <1>0, <1>1, ReceivesType DEF OnTrackStarted
  <2>2. Got(s).uid \in Nat
    BY <2>1, MsgParts
  <2>3. g' = [g EXCEPT !.track_uid = Got(s).uid, !.last_assigned_seq = 0,
                    !.last_acked_seq = 0, !.session_ready = TRUE,
                    !.starting = FALSE, !.start_wait = NoOne]
    BY <1>1, Zenon DEF OnTrackStarted
  <2>4. g' \in Inner /\ g'.queue = g.queue
    BY <1>a, <2>2, <2>3, ConstantFacts, Zenon DEF Inner
  <2>5. InnerOK(g')
    BY <1>0, <2>4 DEF InnerOK
  <2>6. ReadersOK(reader')
    BY <1>0, <1>1, <1>a, FlushThenType DEF OnTrackStarted
  <2> QED BY <1>0, <1>1, <2>1, <2>5, <2>6 DEF OnTrackStarted, IInv
<1>2. CASE OnTrackStopped(s)
  <2>1. WiresOK(wire')
    BY <1>0, <1>2, ReceivesType DEF OnTrackStopped
  <2>2. InnerOK([ForgetTrack(g) EXCEPT !.stop_wait = NoOne])
    <3>1. InnerOK(ForgetTrack(g))
      BY <1>0, ForgetTrackType
    <3> QED BY <3>1, PutStopWait, ConstantFacts
  <2>3. InnerOK([g EXCEPT !.stop_wait = NoOne])
    BY <1>0, PutStopWait, ConstantFacts
  <2>4. CallsOK(TellCall(call, g.stop_wait, "ok"))
    BY <1>0, TellCallType DEF Result
  <2> QED BY <1>0, <1>2, <2>1, <2>2, <2>3, <2>4 DEF OnTrackStopped, IInv
<1>3. CASE OnResumeOk(s) \/ OnAck(s)
  BY <1>3, AckStepType
<1>4. CASE \E code \in ErrorCodes : OnError(s, code)
  BY <1>4, ErrorType
<1>5. CASE OnRelocate(s)
  <2> DEFINE v == [IdleDriver EXCEPT !.pc = "relocate", !.resume = TRUE]
  <2>1. WiresOK(wire')
    BY <1>0, <1>5, ReceivesType DEF OnRelocate
  <2>2. v \in Driver
    <3>1. IdleDriver \in Driver /\ "relocate" \in DriverPc
      BY IdleDriverType, ConstantFacts DEF DriverPc
    <3> QED BY <3>1, Zenon DEF Driver
  <2>3. SpawnIn(driver, v)
    BY <1>5 DEF OnRelocate, Spawn
  <2> HIDE DEF v
  <2>4. DriversOK(driver')
    BY <1>0, <2>2, <2>3, SpawnType
  <2> QED BY <1>0, <1>5, <2>1, <2>4 DEF OnRelocate, IInv
<1>6. CASE FlushQueue(s)
  BY <1>6, FlushQueueType
<1>7. CASE SendFrame(s)
  BY <1>7, SendFrameType
<1>8. CASE ReaderEnds(s)
  <2> DEFINE v == [IdleDriver EXCEPT !.pc = "closed", !.origin = "reconnect", !.gen = s]
             r == [reader[s] EXCEPT !.pc = "done"]
  <2>1. v \in Driver
    <3>1. IdleDriver \in Driver /\ "closed" \in DriverPc
      BY IdleDriverType, ConstantFacts DEF DriverPc
    <3> QED BY <1>b, <3>1, Zenon DEF Driver
  <2>2. SpawnIn(driver, v)
    BY <1>8 DEF ReaderEnds, Spawn
  <2>3. reader' = [reader EXCEPT ![s] = r]
    BY <1>8, Zenon DEF ReaderEnds
  <2>4. r \in Reader /\ r.pc = "done"
    BY <1>0, ReaderParts, Zenon DEF Reader
  <2> HIDE DEF v, r
  <2>5. DriversOK(driver')
    BY <1>0, <2>1, <2>2, SpawnType
  <2>6. Busy(r)
    BY <2>4 DEF Busy
  <2>7. ReadersOK(reader')
    BY <1>0, <2>3, <2>4, <2>6, ReaderUpdate
  <2> QED BY <1>0, <1>8, <2>5, <2>7 DEF ReaderEnds, IInv
<1> QED BY <1>1, <1>2, <1>3, <1>4, <1>5, <1>6, <1>7, <1>8 DEF ReaderStep

-----------------------------------------------------------------------------
(* The server and the network keep the invariant, and the theorems.          *)

\* The message the server takes, and the socket without it, answered or not.
LEMMA ServerTakes ==
  ASSUME WiresOK(wire), NEW s \in Gens, NEW t, Receiving(s, t)
  PROVE  /\ wire[s] \in Wire /\ Head(wire[s].c2s) \in Msg /\ WiresOK(NoReply(s))
         /\ \A m \in Msg : WiresOK(Reply(s, m))
<1>1. wire[s] \in Wire /\ wire[s].c2s \in Seq(Msg) /\ wire[s].c2s # <<>>
      /\ wire[s].s2c \in Seq(Msg)
  BY WireParts DEF Receiving
<1>2. Head(wire[s].c2s) \in Msg /\ Tail(wire[s].c2s) \in Seq(Msg)
  BY <1>1, HeadTailProperties
<1>3. WiresOK(NoReply(s))
  <2> DEFINE v == [wire[s] EXCEPT !.c2s = Tail(wire[s].c2s)]
  <2>1. v \in Wire
    BY <1>1, <1>2, Zenon DEF Wire
  <2>2. NoReply(s) = [wire EXCEPT ![s] = v]
    BY Zenon DEF NoReply
  <2> HIDE DEF v
  <2>3. WiresOK([wire EXCEPT ![s] = v])
    BY <2>1, WireUpdate
  <2> QED BY <2>2, <2>3, Zenon
<1>4. ASSUME NEW m \in Msg PROVE WiresOK(Reply(s, m))
  <2> DEFINE b == Append(wire[s].s2c, m)
             v == [wire[s] EXCEPT !.c2s = Tail(wire[s].c2s), !.s2c = b]
  <2>1. b \in Seq(Msg)
    BY <1>1
  <2> HIDE DEF b
  <2>2. v \in Wire
    BY <1>1, <1>2, <2>1, Zenon DEF Wire
  <2>3. Reply(s, m) = [wire EXCEPT ![s] = v]
    BY Zenon DEF Reply, b
  <2> HIDE DEF v
  <2>4. WiresOK([wire EXCEPT ![s] = v])
    BY <2>2, WireUpdate
  <2> QED BY <2>3, <2>4, Zenon
<1> QED BY <1>1, <1>2, <1>3, <1>4

\* The server binds a socket to a track, or unbinds it.
LEMMA BoundType ==
  ASSUME NEW w, WiresOK(w), NEW s \in Gens, NEW n \in Nat
  PROVE  WiresOK([w EXCEPT ![s].bound = n])
<1> DEFINE v == [w[s] EXCEPT !.bound = n]
<1>1. v \in Wire
  BY WireParts, Zenon DEF Wire
<1>2. [w EXCEPT ![s].bound = n] = [w EXCEPT ![s] = v]
  BY Zenon
<1> HIDE DEF v
<1> QED BY <1>1, <1>2, WireUpdate

\* A message the server sends on its own.
LEMMA SentByServer ==
  ASSUME WiresOK(wire), NEW s \in Gens, NEW m \in Msg
  PROVE  WiresOK([wire EXCEPT ![s].s2c = Append(@, m)])
<1> DEFINE b == Append(wire[s].s2c, m)
           v == [wire[s] EXCEPT !.s2c = b]
<1>1. b \in Seq(Msg)
  BY WireParts
<1> HIDE DEF b
<1>2. v \in Wire
  BY <1>1, WireParts, Zenon DEF Wire
<1>3. [wire EXCEPT ![s].s2c = Append(@, m)] = [wire EXCEPT ![s] = v]
  BY Zenon DEF b
<1> HIDE DEF v
<1> QED BY <1>2, <1>3, WireUpdate

\* The server's record.
LEMMA ServerParts ==
  ASSUME ServerOK(srv)
  PROVE  /\ srv \in Server /\ srv.live \in Nat /\ srv.next \in Nat /\ srv.acked \in Nat
         /\ srv.got \in SUBSET (Nat \X Int \X Points)
BY Zenon DEF ServerOK, Server

\* A Loc is stored and acked, or ignored on a socket without a track.
LEMMA ServerTakesLocType ==
  ASSUME IInv, NEW s \in Gens, ServerTakesLoc(s)
  PROVE  IInv'
<1>0. /\ InnerOK(g) /\ DriversOK(driver) /\ CallsOK(call) /\ ReadersOK(reader)
      /\ WiresOK(wire) /\ ServerOK(srv) /\ LeftOK(left)
  BY Zenon DEF IInv
<1> DEFINE m == Head(wire[s].c2s)
           n == Len(m.pts)
           acked == IF wire[s].bound = srv.live /\ m.seq > srv.acked THEN m.seq ELSE srv.acked
           new == {<<wire[s].bound, m.seq - n + k, m.pts[k]>> : k \in 1 .. n}
<1>1. m \in Msg /\ WiresOK(NoReply(s)) /\ wire[s].bound \in Nat
      /\ \A a \in Msg : WiresOK(Reply(s, a))
  BY <1>0, ServerTakes, WireParts DEF ServerTakesLoc
<1>2. m.seq \in Nat /\ m.pts \in Seq(Points)
  BY <1>1, MsgParts
<1>3. \/ wire' = NoReply(s) /\ UNCHANGED srv
      \/ wire' = Reply(s, Ack(m.seq)) /\ srv' = [srv EXCEPT !.acked = acked, !.got = @ \cup new]
  BY Zenon DEF ServerTakesLoc
<1>4. UNCHANGED <<g, driver, call, reader, left>>
  BY Zenon DEF ServerTakesLoc, Quiet
<1>5. new \in SUBSET (Nat \X Int \X Points)
  <2>1. n \in Nat /\ \A k \in 1 .. n : m.pts[k] \in Points
    <3> HIDE DEF m
    <3> QED BY <1>2
  <2>2. \A k \in 1 .. n : m.seq - n + k \in Int
    BY <1>2, <2>1
  <2> HIDE DEF m, n
  <2> QED BY <1>1, <2>1, <2>2
<1>6. acked \in Nat
  <2>1. srv.acked \in Nat
    BY <1>0, ServerParts
  <2> HIDE DEF m
  <2> QED BY <1>2, <2>1
<1>7. Ack(m.seq) \in Msg
  <2> HIDE DEF m
  <2>1. "Ack" \in MsgType /\ 0 \in Nat /\ <<>> \in Seq(Points)
    BY DEF MsgType
  <2> QED BY <1>2, <2>1, Messages
<1> DEFINE got == srv.got \cup new
<1>8. got \in SUBSET (Nat \X Int \X Points)
  <2> HIDE DEF new
  <2> QED BY <1>0, <1>5, ServerParts
<1>9. srv' = [srv EXCEPT !.acked = acked, !.got = @ \cup new]
        => srv' = [srv EXCEPT !.acked = acked, !.got = got]
  <2> HIDE DEF acked, new
  <2>1. srv \in Server
    BY <1>0, ServerParts
  <2> QED BY <2>1, Zenon DEF Server
<1>10. ServerOK([srv EXCEPT !.acked = acked, !.got = got])
  <2> HIDE DEF acked, got
  <2>1. srv \in Server
    BY <1>0, ServerParts
  <2> QED BY <1>6, <1>8, <2>1, Zenon DEF Server, ServerOK
<1>11. WiresOK(wire') /\ ServerOK(srv')
  <2> HIDE DEF acked, got, new, m
  <2> QED BY <1>0, <1>1, <1>3, <1>7, <1>9, <1>10
<1> QED BY <1>0, <1>4, <1>11 DEF IInv

\* Every step of the server on a socket.
LEMMA ServerStepType ==
  ASSUME IInv, NEW s \in Gens, ServerStep(s)
  PROVE  IInv'
<1>0. /\ InnerOK(g) /\ DriversOK(driver) /\ CallsOK(call) /\ ReadersOK(reader)
      /\ WiresOK(wire) /\ ServerOK(srv) /\ LeftOK(left)
  BY Zenon DEF IInv
<1>a. srv \in Server /\ srv.live \in Nat /\ srv.next \in Nat /\ srv.acked \in Nat
  BY <1>0, ServerParts
<1>b. /\ {"TrackStart", "Resume", "TrackStarted", "TrackStopped", "ResumeOk", "TrackNotFound",
          "TryAgain", "RateLimited"} \subseteq MsgType
      /\ 0 \in Nat /\ None \in Nat /\ <<>> \in Seq(Points)
      /\ {"refuse", "retry"} \subseteq Acts
  BY DEF MsgType, None, Acts
<1>c. M("RateLimited") \in Msg /\ M("TryAgain") \in Msg /\ M("TrackNotFound") \in Msg
  BY <1>b, Messages
<1>d. wire[s] \in Wire /\ wire[s].bound \in Nat
  BY <1>0, WireParts
<1>1. CASE ServerStarts(s)
  <2>1. WiresOK(Reply(s, TrackStarted(srv.next)))
    BY <1>0, <1>1, <1>a, <1>b, Messages, ServerTakes DEF ServerStarts
  <2>2. WiresOK(wire')
    BY <1>1, <1>a, <2>1, BoundType DEF ServerStarts
  <2>3. srv' = [srv EXCEPT !.live = srv.next, !.next = srv.next + 1, !.acked = 0]
    <3>1. srv' = [srv EXCEPT !.live = srv.next, !.next = @ + 1, !.acked = 0]
      BY <1>1, Zenon DEF ServerStarts
    <3> QED BY <1>a, <3>1, Zenon DEF Server
  <2>4. srv.next + 1 \in Nat
    BY <1>a
  <2>5. ServerOK(srv')
    BY <1>a, <1>b, <2>3, <2>4, Zenon DEF Server, ServerOK
  <2> QED BY <1>0, <1>1, <2>2, <2>5 DEF ServerStarts, Quiet, IInv
<1>2. CASE ServerRefusesStart(s)
  <2>1. WiresOK(wire') /\ LeftOK(left')
    BY <1>0, <1>2, <1>b, <1>c, ServerTakes, SpendType DEF ServerRefusesStart
  <2> QED BY <1>0, <1>2, <2>1 DEF ServerRefusesStart, Quiet, IInv
<1>3. CASE ServerResumes(s)
  <2> DEFINE uid == Head(wire[s].c2s).uid
  <2>1. uid \in Nat /\ \A m \in Msg : WiresOK(Reply(s, m))
    BY <1>0, <1>3, ServerTakes, MsgParts DEF ServerResumes
  <2>2. \/ wire' = [Reply(s, ResumeOk(uid, srv.acked)) EXCEPT ![s].bound = uid]
        \/ wire' = Reply(s, M("TrackNotFound"))
    BY <1>3, Zenon DEF ServerResumes
  <2> HIDE DEF uid
  <2>3. WiresOK(Reply(s, ResumeOk(uid, srv.acked)))
    BY <1>a, <1>b, <2>1, Messages
  <2>4. WiresOK([Reply(s, ResumeOk(uid, srv.acked)) EXCEPT ![s].bound = uid])
    BY <2>1, <2>3, BoundType
  <2>5. WiresOK(wire')
    BY <1>c, <2>1, <2>2, <2>4
  <2> QED BY <1>0, <1>3, <2>5 DEF ServerResumes, Quiet, IInv
<1>4. CASE ServerDefersResume(s)
  <2>1. WiresOK(wire') /\ LeftOK(left')
    BY <1>0, <1>4, <1>b, <1>c, ServerTakes, SpendType DEF ServerDefersResume
  <2> QED BY <1>0, <1>4, <2>1 DEF ServerDefersResume, Quiet, IInv
<1>5. CASE ServerTakesLoc(s)
  BY <1>5, ServerTakesLocType
<1>6. CASE ServerStops(s)
  <2>1. WiresOK(NoReply(s)) /\ \A m \in Msg : WiresOK(Reply(s, m))
    BY <1>0, <1>6, ServerTakes DEF ServerStops
  <2>2. CASE wire[s].bound = None
    <3>1. wire' = NoReply(s) /\ UNCHANGED srv
      BY <1>6, <2>2, Zenon DEF ServerStops
    <3> QED BY <1>0, <1>6, <2>1, <3>1 DEF ServerStops, Quiet, IInv
  <2>3. CASE wire[s].bound # None
    <3> DEFINE live == IF srv.live = wire[s].bound THEN None ELSE srv.live
    <3>1. /\ wire' = [Reply(s, TrackStopped(wire[s].bound)) EXCEPT ![s].bound = None]
          /\ srv' = [srv EXCEPT !.live = live]
      BY <1>6, <2>3, Zenon DEF ServerStops
    <3>2. WiresOK(Reply(s, TrackStopped(wire[s].bound)))
      BY <1>b, <1>d, <2>1, Messages
    <3>3. WiresOK(wire')
      BY <1>b, <3>1, <3>2, BoundType
    <3>4. live \in Nat
      BY <1>a, <1>b
    <3> HIDE DEF live
    <3>5. ServerOK(srv')
      BY <1>a, <3>1, <3>4, Zenon DEF Server, ServerOK
    <3> QED BY <1>0, <1>6, <3>3, <3>5 DEF ServerStops, Quiet, IInv
  <2> QED BY <2>2, <2>3
<1>8. CASE ServerTakesEvent(s)
  <2>1. WiresOK(wire')
    BY <1>0, <1>8, ServerTakes DEF ServerTakesEvent
  <2> QED BY <1>0, <1>8, <2>1 DEF ServerTakesEvent, Quiet, IInv
<1>7. CASE ServerCloses(s)
  <2> DEFINE v == [wire[s] EXCEPT !.up = FALSE, !.c2s = <<>>, !.bound = None]
  <2>1. <<>> \in Seq(Msg)
    OBVIOUS
  <2>2. v \in Wire
    BY <1>b, <1>d, <2>1, Zenon DEF Wire
  <2>3. wire' = [wire EXCEPT ![s] = v]
    BY <1>7, Zenon DEF ServerCloses
  <2> HIDE DEF v
  <2>4. WiresOK(wire')
    BY <1>0, <2>2, <2>3, WireUpdate
  <2> QED BY <1>0, <1>7, <2>4 DEF ServerCloses, Quiet, IInv
<1> QED BY <1>1, <1>2, <1>3, <1>4, <1>5, <1>6, <1>7, <1>8 DEF ServerStep

\* What the network and the server do on their own.
LEMMA EnvironmentType ==
  ASSUME IInv, (\E s \in Gens : Environment(s)) \/ ServerForgets
  PROVE  IInv'
<1>0. /\ InnerOK(g) /\ DriversOK(driver) /\ CallsOK(call) /\ ReadersOK(reader)
      /\ WiresOK(wire) /\ ServerOK(srv) /\ LeftOK(left)
  BY Zenon DEF IInv
<1>a. /\ {"Relocate", "Auth", "Unauthorized"} \subseteq MsgType
      /\ 0 \in Nat /\ None \in Nat /\ <<>> \in Seq(Points)
      /\ {"relocate", "auth", "forget", "drop"} \subseteq Acts
  BY DEF MsgType, None, Acts
<1>b. \A code \in {"Relocate", "Auth", "Unauthorized"} : M(code) \in Msg
  BY <1>a, Messages
<1>1. ASSUME NEW s \in Gens, ServerRelocates(s) PROVE IInv'
  <2>1. WiresOK(wire') /\ LeftOK(left')
    BY <1>0, <1>1, <1>a, <1>b, SentByServer, SpendType DEF ServerRelocates
  <2> QED BY <1>0, <1>1, <2>1 DEF ServerRelocates, Quiet, IInv
<1>2. ASSUME NEW s \in Gens, ServerRejectsAuth(s) PROVE IInv'
  <2>1. PICK code \in AuthErrors : wire' = [wire EXCEPT ![s].s2c = Append(@, M(code))]
    BY <1>2, Zenon DEF ServerRejectsAuth
  <2>2. M(code) \in Msg
    BY <1>b DEF AuthErrors
  <2>3. WiresOK([wire EXCEPT ![s].s2c = Append(@, M(code))])
    BY <1>0, <2>2, SentByServer
  <2>4. LeftOK(left')
    BY <1>0, <1>2, <1>a, SpendType DEF ServerRejectsAuth
  <2> QED BY <1>0, <1>2, <2>1, <2>3, <2>4 DEF ServerRejectsAuth, Quiet, IInv
<1>3. ASSUME NEW s \in Gens, Drop(s) PROVE IInv'
  <2>1. WiresOK(wire') /\ LeftOK(left')
    BY <1>0, <1>3, <1>a, WireUpdate, ClosedWireType, SpendType DEF Drop
  <2> QED BY <1>0, <1>3, <2>1 DEF Drop, Quiet, IInv
<1>4. ASSUME ServerForgets PROVE IInv'
  <2>1. wire' = [s \in Gens |-> [wire[s] EXCEPT !.bound = None]]
    BY <1>4, Zenon DEF ServerForgets
  <2>2. \A s \in Gens : [wire[s] EXCEPT !.bound = None] \in Wire
    BY <1>0, <1>a, WireParts, Zenon DEF Wire
  <2>3. WiresOK(wire')
    BY <2>1, <2>2, Zenon DEF WiresOK
  <2>4. srv' = [srv EXCEPT !.live = None]
    BY <1>4, Zenon DEF ServerForgets
  <2>5. ServerOK(srv')
    BY <1>0, <1>a, <2>4, ServerParts, Zenon DEF Server, ServerOK
  <2>6. LeftOK(left')
    BY <1>0, <1>4, <1>a, SpendType DEF ServerForgets
  <2> QED BY <1>0, <1>4, <2>3, <2>5, <2>6 DEF ServerForgets, Quiet, IInv
<1> QED BY <1>1, <1>2, <1>3, <1>4 DEF Environment

-----------------------------------------------------------------------------
\* connect() starts from an empty session.
LEMMA InitType ==
  ASSUME Init
  PROVE  IInv
<1>1. InnerOK(g)
  <2>1. EmptyQueue \in Queue /\ Bounded(EmptyQueue) /\ MaxGen \in Nat
    BY EmptyQueueBounded, ConstantFacts
  <2>2. g \in Inner /\ g.queue = EmptyQueue
    BY <2>1, ConstantFacts DEF Init, Inner, None, NoOne
  <2> QED BY <2>1, <2>2 DEF InnerOK
<1>2. DriversOK(driver)
  <2> DEFINE first == [IdleDriver EXCEPT !.pc = "dial", !.origin = "connect"]
  <2>1. IdleDriver \in Driver
    BY IdleDriverType, ConstantFacts
  <2>2. first \in Driver
    <3>1. "dial" \in DriverPc /\ "connect" \in {"connect", "reconnect", "ignore"}
      BY DEF DriverPc
    <3> QED BY <2>1, <3>1, Zenon DEF Driver
  <2>3. driver = [d \in Drivers |-> IF d = FirstDriver THEN first ELSE IdleDriver]
    BY Zenon DEF Init
  <2> HIDE DEF first
  <2> QED BY <2>1, <2>2, <2>3 DEF DriversOK
<1>3. CallsOK(call)
  <2>1. IdleCall \in Call /\ IdleCall.pc \notin {"pub", "pubSend"}
    BY DEF IdleCall, Call, CallPc, Result, None
  <2>2. call = [p \in Procs |-> IdleCall]
    BY Zenon DEF Init
  <2> QED BY <2>1, <2>2 DEF CallsOK
<1>4. ReadersOK(reader)
  <2>1. <<>> \in Seq(Frame)
    OBVIOUS
  <2>2. IdleReader \in Reader /\ IdleReader.pc # "send"
    BY <2>1 DEF IdleReader, Reader
  <2>3. reader = [s \in Gens |-> IdleReader]
    BY Zenon DEF Init
  <2> QED BY <2>2, <2>3 DEF ReadersOK
<1>5. WiresOK(wire)
  <2>1. wire = [s \in Gens |-> ClosedWire]
    BY Zenon DEF Init
  <2> QED BY <2>1, ClosedWireType DEF WiresOK
<1>6. ServerOK(srv)
  BY ClientAssumption DEF ClientAssumption, Init, ServerOK, Server
<1>7. LeftOK(left)
  <2>1. Budget \in [Acts -> Nat] /\ "publish" \in Acts
    BY ClientAssumption DEF ClientAssumption, Acts
  <2>2. Budget["publish"] \in Nat /\ left = Budget
    BY <2>1 DEF Init
  <2> QED BY <2>1, <2>2 DEF LeftOK
<1> QED BY <1>1, <1>2, <1>3, <1>4, <1>5, <1>6, <1>7 DEF IInv

\* Every step of every task keeps the invariant.
LEMMA StepsKeepIInv ==
  ASSUME IInv, [Next]_vars
  PROVE  IInv'
<1>1. ASSUME NEW p \in Procs, NewCall(p) \/ CallStep(p) PROVE IInv'
  BY <1>1, NewCallType, CallStepType
<1>2. ASSUME NEW d \in Drivers, DriverStep(d) PROVE IInv'
  BY <1>2, DriverStepType
<1>3. ASSUME NEW s \in Gens, ReaderStep(s) PROVE IInv'
  BY <1>3, ReaderStepType
<1>4. ASSUME NEW s \in Gens, ServerStep(s) PROVE IInv'
  BY <1>4, ServerStepType
<1>5. ASSUME (\E s \in Gens : Environment(s)) \/ ServerForgets PROVE IInv'
  BY <1>5, EnvironmentType
<1>6. CASE UNCHANGED vars
  BY <1>6 DEF vars, IInv
<1> QED BY <1>1, <1>2, <1>3, <1>4, <1>5, <1>6 DEF Next

\* The invariant holds of every reachable state.
LEMMA Invariance == Spec => []IInv
<1>1. Init => IInv
  BY InitType
<1>2. IInv /\ [Next]_vars => IInv'
  BY StepsKeepIInv
<1> QED BY <1>1, <1>2, PTL DEF Spec

\* Every state of the client, its sockets and the server is well typed: in
\* particular no sequence number goes below zero (assign, encode_loc_frames),
\* no waiter slot holds anything but a task, and only samples are queued.
THEOREM TypeCorrect == Spec => []TypeOK
<1>1. IInv => TypeOK
  BY Zenon DEF IInv, InnerOK, DriversOK, CallsOK, ReadersOK, WiresOK, ServerOK, LeftOK, TypeOK
<1> QED BY <1>1, Invariance, PTL

\* However publish, flush_queue, acks, reconnects and new tracks interleave, the
\* buffer never exceeds max_size nor the unacked frames the send window.
THEOREM BufferStaysBounded == Spec => []BufferBounded
<1>1. IInv => BufferBounded
  BY Zenon DEF IInv, InnerOK, Bounded, BufferBounded
<1> QED BY <1>1, Invariance, PTL

-----------------------------------------------------------------------------
(* A session that is ready has a track.  Only TrackStarted and ResumeOk grant *)
(* readiness, and both name a track; every other step of the program may only *)
(* take it away, but resume(), which may put an empty uid under it.           *)
Granting == {"TrackStarted", "ResumeOk"}
NamedMsg == {m \in Msg : m.type \in Granting => m.uid # None}

Granted(w) == \A s \in Gens : w[s].s2c \in Seq(NamedMsg)
RInv == IInv /\ Granted(wire) /\ srv.next # 0

\* A step that grants nothing: it may only take readiness away.
GrantsNothing(i, j) == j.session_ready => i.session_ready /\ j.track_uid = i.track_uid

\* One change after another.
LEMMA GrantsThen ==
  ASSUME NEW i, NEW j, NEW k, GrantsNothing(i, j), GrantsNothing(j, k)
  PROVE  GrantsNothing(i, k)
BY DEF GrantsNothing

\* What the session forgets, begins or rejects grants nothing.
LEMMA GrantsForget ==
  ASSUME NEW i \in Inner
  PROVE  /\ GrantsNothing(i, i) /\ GrantsNothing(i, FreshTrack(i))
         /\ GrantsNothing(i, ForgetTrack(i)) /\ GrantsNothing(i, RejectPending(i))
<1>1. GrantsNothing(i, FreshTrack(i))
  BY Zenon DEF Inner, FreshTrack, GrantsNothing
<1>2. GrantsNothing(i, ForgetTrack(i))
  BY Zenon DEF Inner, ForgetTrack, GrantsNothing
<1>3. GrantsNothing(i, RejectPending(i))
  BY Zenon DEF Inner, RejectPending, GrantsNothing
<1> QED BY <1>1, <1>2, <1>3 DEF GrantsNothing

\* Nor do its flags, its waiters, its queue and its socket.
LEMMA GrantsPut ==
  ASSUME NEW i \in Inner, NEW a, NEW b, NEW c
  PROVE  /\ GrantsNothing(i, [i EXCEPT !.starting = a])
         /\ GrantsNothing(i, [i EXCEPT !.state = a])
         /\ GrantsNothing(i, [i EXCEPT !.state = a, !.attempt = b])
         /\ GrantsNothing(i, [i EXCEPT !.queue = a])
         /\ GrantsNothing(i, [i EXCEPT !.queue = a, !.last_assigned_seq = b])
         /\ GrantsNothing(i, [i EXCEPT !.last_assigned_seq = a, !.queue = b])
         /\ GrantsNothing(i, [i EXCEPT !.last_acked_seq = a, !.queue = b])
         /\ GrantsNothing(i, [i EXCEPT !.start_wait = a])
         /\ GrantsNothing(i, [i EXCEPT !.stop_wait = a])
         /\ GrantsNothing(i, [i EXCEPT !.resume_wait = a])
         /\ GrantsNothing(i, [i EXCEPT !.start_wait = a, !.starting = b])
         /\ GrantsNothing(i, [i EXCEPT !.out_tx = a, !.state = b, !.attempt = c])
         /\ GrantsNothing(i, [i EXCEPT !.intentional = a, !.state = b])
         /\ GrantsNothing(i, [i EXCEPT !.intentional = a, !.state = b, !.out_tx = c])
<1>1. /\ GrantsNothing(i, [i EXCEPT !.starting = a])
      /\ GrantsNothing(i, [i EXCEPT !.state = a])
      /\ GrantsNothing(i, [i EXCEPT !.state = a, !.attempt = b])
  BY Zenon DEF Inner, GrantsNothing
<1>2. /\ GrantsNothing(i, [i EXCEPT !.queue = a])
      /\ GrantsNothing(i, [i EXCEPT !.queue = a, !.last_assigned_seq = b])
      /\ GrantsNothing(i, [i EXCEPT !.last_assigned_seq = a, !.queue = b])
      /\ GrantsNothing(i, [i EXCEPT !.last_acked_seq = a, !.queue = b])
  BY Zenon DEF Inner, GrantsNothing
<1>3. /\ GrantsNothing(i, [i EXCEPT !.start_wait = a])
      /\ GrantsNothing(i, [i EXCEPT !.stop_wait = a])
      /\ GrantsNothing(i, [i EXCEPT !.resume_wait = a])
      /\ GrantsNothing(i, [i EXCEPT !.start_wait = a, !.starting = b])
  BY Zenon DEF Inner, GrantsNothing
<1>4. /\ GrantsNothing(i, [i EXCEPT !.out_tx = a, !.state = b, !.attempt = c])
      /\ GrantsNothing(i, [i EXCEPT !.intentional = a, !.state = b])
      /\ GrantsNothing(i, [i EXCEPT !.intentional = a, !.state = b, !.out_tx = c])
  BY Zenon DEF Inner, GrantsNothing
<1> QED BY <1>1, <1>2, <1>3, <1>4

\* Nor does what takes readiness away.
LEMMA GrantsLess ==
  ASSUME NEW i \in Inner, NEW a, NEW b, NEW c
  PROVE  /\ GrantsNothing(i, [i EXCEPT !.out_tx = a, !.session_ready = FALSE, !.queue = b])
         /\ GrantsNothing(i, [i EXCEPT !.dial_gen = a, !.session_ready = FALSE, !.state = b])
         /\ GrantsNothing(i, [i EXCEPT !.dial_gen = a, !.session_ready = FALSE, !.out_tx = b])
         /\ GrantsNothing(i, [i EXCEPT !.intentional = a, !.state = b,
                                       !.session_ready = FALSE, !.out_tx = c])
<1>1. /\ GrantsNothing(i, [i EXCEPT !.out_tx = a, !.session_ready = FALSE, !.queue = b])
      /\ GrantsNothing(i, [i EXCEPT !.dial_gen = a, !.session_ready = FALSE, !.state = b])
  BY Zenon DEF Inner, GrantsNothing
<1>2. /\ GrantsNothing(i, [i EXCEPT !.dial_gen = a, !.session_ready = FALSE, !.out_tx = b])
      /\ GrantsNothing(i, [i EXCEPT !.intentional = a, !.state = b,
                                    !.session_ready = FALSE, !.out_tx = c])
  BY Zenon DEF Inner, GrantsNothing
<1> QED BY <1>1, <1>2

-----------------------------------------------------------------------------
(* What the steps of the client do to readiness.                             *)

\* Calls: only resume() changes the track of a session that stays ready.
LEMMA CallGrants ==
  ASSUME IInv, NEW p \in Procs, NewCall(p) \/ CallStep(p)
  PROVE  GrantsNothing(g, g') \/ ManualRegister(p)
<1>0. InnerOK(g) /\ g \in Inner /\ GrantsNothing(g, g)
  BY InnerParts, GrantsForget DEF IInv
<1>1. CASE PublishBegin(p) \/ StartTrack(p)
  <2>1. FreshTrack(g) \in Inner /\ GrantsNothing(g, FreshTrack(g))
    BY <1>0, FreshTrackType, GrantsForget DEF InnerOK
  <2>2. GrantsNothing(g, [FreshTrack(g) EXCEPT !.start_wait = p])
    BY <2>1, GrantsPut, GrantsThen
  <2> QED BY <1>0, <1>1, <2>1, <2>2 DEF PublishBegin, StartTrack
<1>2. CASE PublishStartFailed(p) \/ StartFailed(p) \/ StopRegister(p) \/ StopFailed(p)
           \/ ManualFailed(p)
  <2>1. \/ g' = [g EXCEPT !.starting = FALSE]
        \/ g' = [g EXCEPT !.start_wait = NoOne, !.starting = FALSE]
        \/ g' = [g EXCEPT !.stop_wait = p] \/ g' = [g EXCEPT !.stop_wait = NoOne]
        \/ g' = [g EXCEPT !.resume_wait = NoOne]
    BY <1>2, Zenon
       DEF PublishStartFailed, StartFailed, StopRegister, StopFailed, ManualFailed
  <2>2. /\ GrantsNothing(g, [g EXCEPT !.starting = FALSE])
        /\ GrantsNothing(g, [g EXCEPT !.start_wait = NoOne, !.starting = FALSE])
        /\ GrantsNothing(g, [g EXCEPT !.stop_wait = p])
        /\ GrantsNothing(g, [g EXCEPT !.stop_wait = NoOne])
        /\ GrantsNothing(g, [g EXCEPT !.resume_wait = NoOne])
    BY <1>0, GrantsPut
  <2> QED BY <2>1, <2>2, Zenon
<1>3. CASE PublishStage(p)
  <2>1. PICK q : g' = [g EXCEPT !.queue = q]
    BY <1>3, Zenon DEF PublishStage
  <2> QED BY <1>0, <2>1, GrantsPut
<1>4. CASE PublishLive(p)
  <2>1. PICK n, q : g' = [g EXCEPT !.last_assigned_seq = n, !.queue = q]
    BY <1>4, Zenon DEF PublishLive
  <2> QED BY <1>0, <2>1, GrantsPut
<1>5. CASE Close(p)
  <2>1. RejectPending(g) \in Inner /\ GrantsNothing(g, RejectPending(g))
    BY <1>0, RejectPendingType, GrantsForget DEF InnerOK
  <2>2. GrantsNothing(RejectPending(g), g')
    BY <1>5, <2>1, GrantsLess DEF Close
  <2> QED BY <2>1, <2>2, GrantsThen
<1>6. CASE StopTrack(p) \/ ManualResume(p) \/ SendEvent(p) \/ CloseBegin(p)
  BY <1>0, <1>6 DEF StopTrack, ManualResume, SendEvent, CloseBegin
<1>7. CASE PublishStart(p) \/ PublishSend(p) \/ StartSend(p) \/ StopSend(p) \/ ManualSend(p)
           \/ EventSend(p) \/ CloseSend(p) \/ CallReturns(p) \/ ManualReturns(p)
  BY <1>0, <1>7 DEF PublishStart, PublishSend, StartSend, StopSend, ManualSend, EventSend,
                    CloseSend, CallReturns, ManualReturns
<1> QED BY <1>1, <1>2, <1>3, <1>4, <1>5, <1>6, <1>7 DEF NewCall, CallStep

\* Dialing tasks: a new socket or a lost one is not ready.
LEMMA DriverGrants ==
  ASSUME IInv, NEW d \in Drivers, DriverStep(d)
  PROVE  GrantsNothing(g, g')
<1>0. InnerOK(g) /\ g \in Inner /\ GrantsNothing(g, g)
  BY InnerParts, GrantsForget DEF IInv
<1>1. CASE SocketClosed(d)
  <2> DEFINE lost == [g EXCEPT !.out_tx = None, !.session_ready = FALSE, !.queue = MarkUnsent(@)]
  <2>1. \/ UNCHANGED g
        \/ g' = [lost EXCEPT !.state = "Closed"]
        \/ g' = [RejectPending(lost) EXCEPT !.state = "Closed"]
        \/ \E n : g' = [lost EXCEPT !.state = "Reconnecting", !.attempt = n]
    BY <1>1, Zenon DEF SocketClosed
  <2>2. InnerOK(lost) /\ lost \in Inner
    BY <1>0, LostType DEF InnerOK
  <2>3. GrantsNothing(g, lost)
    <3>1. \A q : GrantsNothing(g, [g EXCEPT !.out_tx = None, !.session_ready = FALSE, !.queue = q])
      BY <1>0, GrantsLess
    <3> QED BY <3>1, Zenon
  <2> HIDE DEF lost
  <2>4. RejectPending(lost) \in Inner /\ GrantsNothing(lost, RejectPending(lost))
    BY <2>2, RejectPendingType, GrantsForget DEF InnerOK
  <2>5. \/ UNCHANGED g \/ GrantsNothing(lost, g') \/ GrantsNothing(RejectPending(lost), g')
    <3>1. \A i \in Inner : /\ GrantsNothing(i, [i EXCEPT !.state = "Closed"])
                           /\ \A n : GrantsNothing(i, [i EXCEPT !.state = "Reconnecting",
                                                               !.attempt = n])
      BY GrantsPut
    <3> QED BY <2>1, <2>2, <2>4, <3>1, Zenon
  <2> QED BY <1>0, <2>3, <2>4, <2>5, GrantsThen
<1>2. CASE GiveUpAuth(d)
  <2>1. g' = [g EXCEPT !.intentional = TRUE, !.state = "Closed", !.out_tx = None]
    BY <1>2, Zenon DEF GiveUpAuth
  <2>2. GrantsNothing(g, [g EXCEPT !.intentional = TRUE, !.state = "Closed", !.out_tx = None])
    BY <1>0, GrantsPut
  <2> QED BY <2>1, <2>2, Zenon
<1>3. CASE RefreshErr(d)
  <2>1. g' = [g EXCEPT !.intentional = TRUE, !.state = "Closed"]
    BY <1>3, Zenon DEF RefreshErr
  <2>2. GrantsNothing(g, [g EXCEPT !.intentional = TRUE, !.state = "Closed"])
    BY <1>0, GrantsPut
  <2> QED BY <2>1, <2>2, Zenon
<1>4. CASE RefreshOk(d)
  <2>1. \E n : g' = [g EXCEPT !.dial_gen = n, !.session_ready = FALSE, !.out_tx = None]
    BY <1>4, Zenon DEF RefreshOk
  <2>2. \A n : GrantsNothing(g, [g EXCEPT !.dial_gen = n, !.session_ready = FALSE,
                                          !.out_tx = None])
    BY <1>0, GrantsLess
  <2> QED BY <2>1, <2>2, Zenon
<1>5. CASE Dial(d)
  <2>1. PICK n, st : g' = [g EXCEPT !.dial_gen = n, !.session_ready = FALSE, !.state = st]
    BY <1>5, Zenon DEF Dial
  <2>2. GrantsNothing(g, [g EXCEPT !.dial_gen = n, !.session_ready = FALSE, !.state = st])
    BY <1>0, GrantsLess
  <2> QED BY <2>1, <2>2, Zenon
<1>6. CASE Install(d)
  <2>1. UNCHANGED g \/ g' = [g EXCEPT !.out_tx = driver[d].gen, !.state = "Open", !.attempt = 0]
    BY <1>6, Zenon DEF Install
  <2>2. GrantsNothing(g, [g EXCEPT !.out_tx = driver[d].gen, !.state = "Open", !.attempt = 0])
    BY <1>0, GrantsPut
  <2> QED BY <1>0, <2>1, <2>2, Zenon
<1>7. CASE ResumeRegister(d)
  <2>1. UNCHANGED g \/ g' = [g EXCEPT !.resume_wait = d]
    BY <1>7, Zenon DEF ResumeRegister
  <2> QED BY <1>0, <2>1, GrantsPut
<1>8. CASE Wake(d) \/ HandleRelocate(d) \/ DialHello(d) \/ DialRelocated(d) \/ DialFails(d)
           \/ ResumeSend(d) \/ ResumeReturns(d) \/ ResumeRetry(d) \/ ReconnectFailed(d)
  BY <1>0, <1>8 DEF Wake, HandleRelocate, DialHello, DialRelocated, DialFails, ResumeSend,
                    ResumeReturns, ResumeRetry, ReconnectFailed
<1> QED BY <1>1, <1>2, <1>3, <1>4, <1>5, <1>6, <1>7, <1>8 DEF DriverStep

\* Dispatch: what grants readiness names a track, the rest only takes it away.
LEMMA ReaderGrants ==
  ASSUME RInv, NEW s \in Gens, ReaderStep(s)
  PROVE  GrantsNothing(g, g') \/ g'.track_uid # None
<1>0. InnerOK(g) /\ g \in Inner /\ GrantsNothing(g, g)
  BY InnerParts, GrantsForget DEF RInv, IInv
<1>a. ASSUME NEW t \in Granting, Receives(s, t) PROVE Got(s).uid # None
  <2>1. wire[s].s2c \in Seq(NamedMsg) /\ wire[s].s2c # <<>>
    BY <1>a DEF RInv, Granted, Receives
  <2>2. Got(s) \in NamedMsg /\ Got(s).type = t
    BY <1>a, <2>1, HeadTailProperties DEF Receives, Got
  <2> QED BY <2>2 DEF NamedMsg
<1>1. CASE OnResumeOk(s)
  <2>1. Got(s).uid # None
    BY <1>a, <1>1 DEF OnResumeOk, Granting
  <2>2. PICK a, b, c, q : /\ a = IF Got(s).uid # None THEN Got(s).uid ELSE g.track_uid
                          /\ g' = [g EXCEPT !.track_uid = a, !.last_acked_seq = b,
                                     !.last_assigned_seq = c, !.queue = q,
                                     !.session_ready = TRUE, !.resume_wait = NoOne]
    BY <1>1, Zenon DEF OnResumeOk
  <2>3. g'.track_uid = a
    BY <1>0, <2>2, Zenon DEF Inner
  <2> QED BY <2>1, <2>2, <2>3
<1>2. CASE OnTrackStarted(s)
  <2>1. Got(s).uid # None
    BY <1>a, <1>2 DEF OnTrackStarted, Granting
  <2>2. g'.track_uid = Got(s).uid
    BY <1>0, <1>2, Zenon DEF OnTrackStarted, Inner
  <2> QED BY <2>1, <2>2
<1>3. CASE OnTrackStopped(s)
  <2>1. ForgetTrack(g) \in Inner /\ GrantsNothing(g, ForgetTrack(g))
    BY <1>0, ForgetTrackType, GrantsForget DEF InnerOK
  <2>2. /\ GrantsNothing(g, [g EXCEPT !.stop_wait = NoOne])
        /\ GrantsNothing(ForgetTrack(g), [ForgetTrack(g) EXCEPT !.stop_wait = NoOne])
    BY <1>0, <2>1, GrantsPut
  <2>3. \/ g' = [g EXCEPT !.stop_wait = NoOne]
        \/ g' = [ForgetTrack(g) EXCEPT !.stop_wait = NoOne]
    BY <1>3, Zenon DEF OnTrackStopped
  <2> QED BY <2>1, <2>2, <2>3, GrantsThen
<1>4. CASE OnAck(s)
  <2>1. PICK a, q : g' = [g EXCEPT !.last_acked_seq = a, !.queue = q]
    BY <1>4, Zenon DEF OnAck
  <2> QED BY <1>0, <2>1, GrantsPut
<1>5. ASSUME NEW code \in ErrorCodes, OnError(s, code) PROVE GrantsNothing(g, g')
  <2>1. PICK i \in {g, ForgetTrack(g)} : \E b : g' = [RejectPending(i) EXCEPT !.starting = b]
    BY <1>5, Zenon DEF OnError
  <2>2. InnerOK(i) /\ i \in Inner /\ GrantsNothing(g, i)
    BY <1>0, <2>1, ForgetTrackType, GrantsForget DEF InnerOK
  <2>3. RejectPending(i) \in Inner /\ GrantsNothing(i, RejectPending(i))
    BY <2>2, RejectPendingType, GrantsForget DEF InnerOK
  <2>4. GrantsNothing(RejectPending(i), g')
    BY <2>1, <2>3, GrantsPut
  <2> QED BY <2>2, <2>3, <2>4, GrantsThen
<1>6. CASE FlushQueue(s)
  <2>1. \/ \E q, n : g' = [g EXCEPT !.queue = q, !.last_assigned_seq = n]
        \/ UNCHANGED g
    BY <1>6, Zenon DEF FlushQueue
  <2>2. ASSUME NEW q, NEW n, g' = [g EXCEPT !.queue = q, !.last_assigned_seq = n]
        PROVE  GrantsNothing(g, g')
    <3>1. GrantsNothing(g, [g EXCEPT !.queue = q, !.last_assigned_seq = n])
      BY <1>0, GrantsPut
    <3> QED BY <2>2, <3>1, Zenon
  <2> QED BY <1>0, <2>1, <2>2
<1>7. CASE OnRelocate(s) \/ SendFrame(s) \/ ReaderEnds(s)
  BY <1>0, <1>7 DEF OnRelocate, SendFrame, ReaderEnds
<1> QED BY <1>1, <1>2, <1>3, <1>4, <1>5, <1>6, <1>7 DEF ReaderStep

-----------------------------------------------------------------------------
(* What is on its way to the client.                                         *)

\* A changed socket.
LEMMA GrantedPut ==
  ASSUME NEW w, WiresOK(w), Granted(w), NEW s, NEW v, s \in Gens => v.s2c \in Seq(NamedMsg)
  PROVE  Granted([w EXCEPT ![s] = v])
<1> DEFINE h == [w EXCEPT ![s] = v]
<1>1. \A r \in Gens : h[r] = IF r = s THEN v ELSE w[r]
  BY DEF WiresOK
<1> HIDE DEF h
<1>2. Granted(h)
  BY <1>1 DEF Granted
<1> QED BY <1>2 DEF h

\* What the client sends goes the other way.
LEMMA GrantedSent ==
  ASSUME WiresOK(wire), Granted(wire)
  PROVE  /\ \A s, m : Granted(Push(s, m))
         /\ \A m : Sent(m) \/ SendFails => Granted(wire')
         /\ Granted(HangUp)
<1>1. ASSUME NEW s, NEW m PROVE Granted(Push(s, m))
  <2> DEFINE v == [wire[s] EXCEPT !.c2s = IF wire[s].up THEN Append(wire[s].c2s, m)
                                          ELSE wire[s].c2s]
  <2>1. s \in Gens => v.s2c = wire[s].s2c
    BY WireParts, Zenon DEF Wire
  <2>2. Push(s, m) = [wire EXCEPT ![s] = v]
    BY Zenon DEF Push
  <2> HIDE DEF v
  <2>3. Granted([wire EXCEPT ![s] = v])
    BY <2>1, GrantedPut DEF Granted
  <2> QED BY <2>2, <2>3, Zenon
<1>2. ASSUME NEW m, Sent(m) \/ SendFails PROVE Granted(wire')
  BY <1>1, <1>2 DEF Sent, SendFails
<1>3. Granted(HangUp)
  BY <1>1 DEF HangUp
<1> QED BY <1>1, <1>2, <1>3

\* No step of a call, a dialing task or a read loop puts a message there.
LEMMA ClientGranted ==
  ASSUME IInv, Granted(wire),
         \/ \E p \in Procs : NewCall(p) \/ CallStep(p)
         \/ \E d \in Drivers : DriverStep(d)
         \/ \E s \in Gens : ReaderStep(s)
  PROVE  Granted(wire')
<1>0. WiresOK(wire)
  BY DEF IInv
<1>1. ASSUME NEW p \in Procs, NewCall(p) \/ CallStep(p) PROVE Granted(wire')
  <2>1. CASE NewCall(p)
    BY <2>1 DEF NewCall, PublishBegin, StartTrack, StopTrack, ManualResume, SendEvent, CloseBegin
  <2>2. CASE \/ PublishStart(p) \/ PublishSend(p) \/ StartSend(p) \/ StopSend(p)
             \/ ManualSend(p) \/ EventSend(p) \/ CloseSend(p)
    <3>1. \E m : Sent(m) \/ SendFails
      BY <2>2, Zenon DEF PublishStart, PublishSend, StartSend, StopSend, ManualSend, EventSend,
                         CloseSend
    <3> QED BY <1>0, <3>1, GrantedSent
  <2>3. CASE Close(p)
    BY <1>0, <2>3, GrantedSent DEF Close
  <2>4. CASE PublishStartFailed(p) \/ PublishStage(p) \/ PublishLive(p) \/ StartFailed(p)
             \/ StopRegister(p) \/ StopFailed(p) \/ CallReturns(p) \/ ManualRegister(p)
             \/ ManualFailed(p) \/ ManualReturns(p)
    BY <2>4 DEF PublishStartFailed, PublishStage, PublishLive, StartFailed, StopRegister,
                StopFailed, CallReturns, ManualRegister, ManualFailed, ManualReturns
  <2> QED BY <1>1, <2>1, <2>2, <2>3, <2>4 DEF CallStep
<1>2. ASSUME NEW d \in Drivers, DriverStep(d) PROVE Granted(wire')
  <2>1. CASE GiveUpAuth(d) \/ RefreshOk(d)
    BY <1>0, <2>1, GrantedSent DEF GiveUpAuth, RefreshOk
  <2>2. CASE DialHello(d)
    <3> DEFINE v == [wire[driver[d].gen] EXCEPT !.up = TRUE]
    <3>1. wire' = [wire EXCEPT ![driver[d].gen] = v]
      BY <2>2, Zenon DEF DialHello
    <3>2. driver[d].gen \in Gens => v.s2c = wire[driver[d].gen].s2c
      BY <1>0, WireParts, Zenon DEF Wire
    <3> HIDE DEF v
    <3>3. Granted([wire EXCEPT ![driver[d].gen] = v])
      BY <1>0, <3>2, GrantedPut DEF Granted
    <3> QED BY <3>1, <3>3, Zenon
  <2>3. CASE Install(d)
    <3>1. UNCHANGED wire \/ wire' = [wire EXCEPT ![driver[d].gen] = ClosedWire]
      BY <2>3, Zenon DEF Install
    <3>2. ClosedWire.s2c \in Seq(NamedMsg)
      BY DEF ClosedWire
    <3>3. Granted([wire EXCEPT ![driver[d].gen] = ClosedWire])
      BY <1>0, <3>2, GrantedPut
    <3> QED BY <3>1, <3>3
  <2>4. CASE ResumeSend(d)
    <3>1. \E m : Sent(m) \/ SendFails
      BY <2>4, Zenon DEF ResumeSend
    <3> QED BY <1>0, <3>1, GrantedSent
  <2>5. CASE SocketClosed(d) \/ Wake(d) \/ HandleRelocate(d) \/ RefreshErr(d) \/ Dial(d)
             \/ DialRelocated(d) \/ DialFails(d) \/ ResumeRegister(d) \/ ResumeReturns(d)
             \/ ResumeRetry(d) \/ ReconnectFailed(d)
    BY <2>5 DEF SocketClosed, Wake, HandleRelocate, RefreshErr, Dial, DialRelocated, DialFails,
                ResumeRegister, ResumeReturns, ResumeRetry, ReconnectFailed
  <2> QED BY <1>2, <2>1, <2>2, <2>3, <2>4, <2>5 DEF DriverStep
<1>3. ASSUME NEW s \in Gens, ReaderStep(s) PROVE Granted(wire')
  <2>1. ASSUME wire[s].s2c # <<>>, Consume(s) PROVE Granted(wire')
    <3> DEFINE v == [wire[s] EXCEPT !.s2c = Tail(wire[s].s2c)]
    <3>1. wire' = [wire EXCEPT ![s] = v] /\ v.s2c = Tail(wire[s].s2c)
      BY <1>0, <2>1, WireParts, Zenon DEF Consume, Wire
    <3>2. wire[s].s2c \in Seq(NamedMsg)
      BY DEF Granted
    <3>3. Tail(wire[s].s2c) \in Seq(NamedMsg)
      BY <2>1, <3>2, HeadTailProperties
    <3> HIDE DEF v
    <3>4. Granted([wire EXCEPT ![s] = v])
      BY <1>0, <3>1, <3>3, GrantedPut
    <3> QED BY <3>1, <3>4, Zenon
  <2>2. CASE OnResumeOk(s) \/ OnTrackStarted(s) \/ OnTrackStopped(s) \/ OnAck(s)
             \/ (\E code \in ErrorCodes : OnError(s, code)) \/ OnRelocate(s)
    BY <2>1, <2>2 DEF OnResumeOk, OnTrackStarted, OnTrackStopped, OnAck, OnError, OnRelocate,
                      Receives
  <2>3. CASE FlushQueue(s) \/ ReaderEnds(s)
    BY <2>3 DEF FlushQueue, ReaderEnds
  <2>4. CASE SendFrame(s)
    <3>1. \E m : Sent(m) \/ SendFails
      BY <2>4, Zenon DEF SendFrame
    <3> QED BY <1>0, <3>1, GrantedSent
  <2> QED BY <1>3, <2>2, <2>3, <2>4 DEF ReaderStep
<1> QED BY <1>1, <1>2, <1>3

\* Every message that grants nothing will do.
LEMMA PlainMsg ==
  ASSUME NEW t \in MsgType \ Granting, NEW seq \in Nat, NEW uid \in Nat
  PROVE  M(t) \in NamedMsg /\ Ack(seq) \in NamedMsg /\ TrackStopped(uid) \in NamedMsg
<1>1. M(t) \in NamedMsg
  <2>1. M(t) \in Msg
    BY Messages, EmptySeq
  <2> QED BY <2>1 DEF M, NamedMsg
<1>2. Ack(seq) \in Msg /\ TrackStopped(uid) \in Msg
  BY Messages, EmptySeq
<1>3. Ack(seq).type = "Ack" /\ TrackStopped(uid).type = "TrackStopped"
  BY DEF Ack, TrackStopped, M
<1> QED BY <1>1, <1>2, <1>3 DEF NamedMsg, Granting

\* A message that grants readiness.
LEMMA GrantingMsg ==
  ASSUME NEW uid \in Nat, uid # None, NEW seq \in Nat
  PROVE  TrackStarted(uid) \in NamedMsg /\ ResumeOk(uid, seq) \in NamedMsg
<1>1. TrackStarted(uid) \in Msg /\ ResumeOk(uid, seq) \in Msg
  BY Messages, EmptySeq DEF MsgType
<1>2. TrackStarted(uid).uid = uid /\ ResumeOk(uid, seq).uid = uid
  BY DEF TrackStarted, ResumeOk, M
<1> QED BY <1>1, <1>2 DEF NamedMsg

\* What the server puts into its answers.
LEMMA GrantedReply ==
  ASSUME WiresOK(wire), Granted(wire), NEW s \in Gens, NEW t, Receiving(s, t)
  PROVE  /\ Granted(NoReply(s))
         /\ \A m \in NamedMsg : /\ Granted(Reply(s, m))
                                /\ \A n : Granted([Reply(s, m) EXCEPT ![s].bound = n])
<1>1. wire[s].s2c \in Seq(NamedMsg)
  BY DEF Granted
<1>2. Granted(NoReply(s))
  <2> DEFINE v == [wire[s] EXCEPT !.c2s = Tail(wire[s].c2s)]
  <2>1. v.s2c = wire[s].s2c
    BY WireParts, Zenon DEF Wire
  <2>2. NoReply(s) = [wire EXCEPT ![s] = v]
    BY Zenon DEF NoReply
  <2> HIDE DEF v
  <2>3. Granted([wire EXCEPT ![s] = v])
    BY <1>1, <2>1, GrantedPut
  <2> QED BY <2>2, <2>3, Zenon
<1>3. ASSUME NEW m \in NamedMsg, NEW n
      PROVE  Granted(Reply(s, m)) /\ Granted([Reply(s, m) EXCEPT ![s].bound = n])
  <2> DEFINE b == Append(wire[s].s2c, m)
             v == [wire[s] EXCEPT !.c2s = Tail(wire[s].c2s), !.s2c = b]
             u == [v EXCEPT !.bound = n]
  <2>1. b \in Seq(NamedMsg)
    BY <1>1
  <2>2. Reply(s, m) = [wire EXCEPT ![s] = v]
    BY Zenon DEF Reply
  <2> HIDE DEF b
  <2>3. v.s2c = b /\ u.s2c = b
    BY WireParts, Zenon DEF Wire
  <2>4. [[wire EXCEPT ![s] = v] EXCEPT ![s].bound = n] = [wire EXCEPT ![s] = u]
    BY Zenon DEF WiresOK
  <2> HIDE DEF v, u
  <2>5. Granted([wire EXCEPT ![s] = v]) /\ Granted([wire EXCEPT ![s] = u])
    BY <2>1, <2>3, GrantedPut
  <2>6. [Reply(s, m) EXCEPT ![s].bound = n] = [wire EXCEPT ![s] = u]
    BY <2>2, <2>4
  <2> QED BY <2>2, <2>5, <2>6
<1> QED BY <1>2, <1>3

\* The server names the track it grants, and grants the one that is asked for.
LEMMA ServerStepGranted ==
  ASSUME RInv, NEW s \in Gens, ServerStep(s)
  PROVE  Granted(wire') /\ srv'.next # 0
<1>0. /\ WiresOK(wire) /\ ServerOK(srv) /\ Granted(wire) /\ srv.next # 0
      /\ srv \in Server /\ srv.next \in Nat /\ srv.acked \in Nat
  BY ServerParts DEF RInv, IInv
<1>b. \A t \in {"RateLimited", "TryAgain", "TrackNotFound"} : M(t) \in NamedMsg
  BY PlainMsg DEF MsgType, Granting
<1>c. "RateLimited" \in MsgType \ Granting
  BY DEF MsgType, Granting
<1>1. CASE ServerStarts(s)
  <2>1. TrackStarted(srv.next) \in NamedMsg
    BY <1>0, GrantingMsg DEF None
  <2>2. srv' = [srv EXCEPT !.live = srv.next, !.next = srv.next + 1, !.acked = 0]
    BY <1>1, Zenon DEF ServerStarts
  <2>3. srv'.next = srv.next + 1
    BY <1>0, <2>2, Zenon DEF Server
  <2>4. srv'.next # 0
    BY <1>0, <2>3
  <2>5. Granted(wire')
    BY <1>0, <1>1, <2>1, GrantedReply DEF ServerStarts
  <2> QED BY <1>0, <2>4, <2>5
<1>2. CASE ServerResumes(s)
  <2> DEFINE uid == Head(wire[s].c2s).uid
  <2>1. uid \in Nat
    BY <1>0, <1>2, ServerTakes, MsgParts DEF ServerResumes
  <2>2. uid # None => ResumeOk(uid, srv.acked) \in NamedMsg
    BY <1>0, <2>1, GrantingMsg
  <2>3. \/ uid # None /\ wire' = [Reply(s, ResumeOk(uid, srv.acked)) EXCEPT ![s].bound = uid]
        \/ wire' = Reply(s, M("TrackNotFound"))
    BY <1>2, Zenon DEF ServerResumes
  <2> HIDE DEF uid
  <2>4. Granted(wire')
    <3>1. Receiving(s, "Resume") /\ M("TrackNotFound") \in NamedMsg
      BY <1>2, <1>b DEF ServerResumes
    <3>2. Granted(Reply(s, M("TrackNotFound")))
      BY <1>0, <3>1, GrantedReply
    <3>3. uid # None => Granted([Reply(s, ResumeOk(uid, srv.acked)) EXCEPT ![s].bound = uid])
      BY <1>0, <2>2, <3>1, GrantedReply
    <3> QED BY <2>3, <3>2, <3>3, Zenon
  <2> QED BY <1>0, <1>2, <2>4 DEF ServerResumes
<1>3. CASE ServerRefusesStart(s)
  <2>1. Granted(wire')
    BY <1>0, <1>3, <1>b, GrantedReply DEF ServerRefusesStart
  <2> QED BY <1>0, <1>3, <2>1 DEF ServerRefusesStart
<1>4. CASE ServerDefersResume(s)
  <2>1. Granted(wire')
    BY <1>0, <1>4, <1>b, GrantedReply DEF ServerDefersResume
  <2> QED BY <1>0, <1>4, <2>1 DEF ServerDefersResume
<1>5. CASE ServerTakesLoc(s)
  <2> DEFINE m == Head(wire[s].c2s)
  <2>1. Receiving(s, "Loc") /\ m \in Msg /\ m.seq \in Nat
    BY <1>0, <1>5, ServerTakes, MsgParts DEF ServerTakesLoc
  <2>2. Ack(m.seq) \in NamedMsg
    BY <1>0, <1>c, <2>1, PlainMsg
  <2>3. \/ wire' = NoReply(s) /\ UNCHANGED srv
        \/ wire' = Reply(s, Ack(m.seq)) /\ \E a, b : srv' = [srv EXCEPT !.acked = a, !.got = b]
    BY <1>5, Zenon DEF ServerTakesLoc
  <2> HIDE DEF m
  <2>4. Granted(wire')
    BY <1>0, <2>1, <2>2, <2>3, GrantedReply
  <2>5. \A a, b : [srv EXCEPT !.acked = a, !.got = b].next = srv.next
    BY <1>0, Zenon DEF Server
  <2>6. srv'.next # 0
    BY <1>0, <2>3, <2>5
  <2> QED BY <1>0, <2>4, <2>6
<1>6. CASE ServerTakesEvent(s)
  <2>1. Granted(wire')
    BY <1>0, <1>6, GrantedReply DEF ServerTakesEvent
  <2> QED BY <1>0, <1>6, <2>1 DEF ServerTakesEvent
<1>7. CASE ServerStops(s)
  <2>1. TrackStopped(wire[s].bound) \in NamedMsg
    BY <1>0, <1>c, WireParts, PlainMsg
  <2>2. \/ wire' = NoReply(s) /\ UNCHANGED srv
        \/ /\ wire' = [Reply(s, TrackStopped(wire[s].bound)) EXCEPT ![s].bound = None]
           /\ \E a : srv' = [srv EXCEPT !.live = a]
    BY <1>7, Zenon DEF ServerStops
  <2>3. Granted(wire')
    BY <1>0, <1>7, <2>1, <2>2, GrantedReply DEF ServerStops
  <2>4. \A a : [srv EXCEPT !.live = a].next = srv.next
    BY <1>0, Zenon DEF Server
  <2>5. srv'.next # 0
    BY <1>0, <2>2, <2>4
  <2> QED BY <1>0, <2>3, <2>5
<1>8. CASE ServerCloses(s)
  <2> DEFINE v == [wire[s] EXCEPT !.up = FALSE, !.c2s = <<>>, !.bound = None]
  <2>1. v.s2c = wire[s].s2c
    BY <1>0, WireParts, Zenon DEF Wire
  <2>2. wire' = [wire EXCEPT ![s] = v]
    BY <1>8, Zenon DEF ServerCloses
  <2> HIDE DEF v
  <2>3. v.s2c \in Seq(NamedMsg)
    BY <1>0, <2>1 DEF Granted
  <2>4. Granted([wire EXCEPT ![s] = v])
    BY <1>0, <2>3, GrantedPut
  <2> QED BY <1>0, <1>8, <2>2, <2>4 DEF ServerCloses
<1> QED BY <1>1, <1>2, <1>3, <1>4, <1>5, <1>6, <1>7, <1>8 DEF ServerStep

\* The session does not look at what the server does, nor it at the session.
LEMMA OwnState ==
  /\ \A p \in Procs : NewCall(p) \/ CallStep(p) => UNCHANGED srv
  /\ \A d \in Drivers : DriverStep(d) => UNCHANGED srv
  /\ \A s \in Gens : ReaderStep(s) => UNCHANGED srv
  /\ \A s \in Gens : ServerStep(s) \/ Environment(s) => UNCHANGED g
<1>1. ASSUME NEW p \in Procs, NewCall(p) \/ CallStep(p) PROVE UNCHANGED srv
  <2>1. CASE NewCall(p)
    BY <2>1 DEF NewCall, PublishBegin, StartTrack, StopTrack, ManualResume, SendEvent, CloseBegin
  <2>2. CASE CallStep(p)
    BY <2>2, Zenon DEF CallStep, PublishStart, PublishStartFailed, PublishStage, PublishLive,
       PublishSend, StartSend, StartFailed, StopRegister, StopSend, StopFailed, CallReturns,
       ManualRegister, ManualSend, ManualFailed, ManualReturns, EventSend, CloseSend, Close
  <2> QED BY <1>1, <2>1, <2>2
<1>2. ASSUME NEW d \in Drivers, DriverStep(d) PROVE UNCHANGED srv
  BY <1>2, Zenon DEF DriverStep, SocketClosed, Wake, HandleRelocate, GiveUpAuth, RefreshOk,
     RefreshErr, Dial, DialHello, DialRelocated, DialFails, Install, ResumeRegister, ResumeSend,
     ResumeReturns, ResumeRetry, ReconnectFailed
<1>3. ASSUME NEW s \in Gens, ReaderStep(s) PROVE UNCHANGED srv
  BY <1>3, Zenon DEF ReaderStep, OnResumeOk, OnTrackStarted, OnTrackStopped, OnAck, OnError,
     OnRelocate, FlushQueue, SendFrame, ReaderEnds
<1>4. ASSUME NEW s \in Gens, ServerStep(s) \/ Environment(s) PROVE UNCHANGED g
  BY <1>4, Zenon DEF ServerStep, ServerStarts, ServerRefusesStart, ServerResumes,
     ServerDefersResume, ServerTakesLoc, ServerTakesEvent, ServerStops, ServerCloses,
     Environment, ServerRelocates, ServerRejectsAuth, Drop, Quiet
<1> QED BY <1>1, <1>2, <1>3, <1>4

\* What the server and the network do on their own grants nothing.
LEMMA EnvironmentGranted ==
  ASSUME RInv, (\E s \in Gens : Environment(s)) \/ ServerForgets
  PROVE  Granted(wire') /\ srv'.next # 0
<1>0. WiresOK(wire) /\ Granted(wire) /\ srv.next # 0 /\ srv \in Server
  BY ServerParts DEF RInv, IInv
<1>b. ASSUME NEW s \in Gens, NEW t \in {"Relocate", "Auth", "Unauthorized"},
             wire' = [wire EXCEPT ![s].s2c = Append(@, M(t))]
      PROVE  Granted(wire')
  <2> DEFINE b == Append(wire[s].s2c, M(t))
             v == [wire[s] EXCEPT !.s2c = b]
  <2>1. M(t) \in NamedMsg
    BY PlainMsg DEF MsgType, Granting
  <2>2. wire[s].s2c \in Seq(NamedMsg)
    BY <1>0 DEF Granted
  <2>3. b \in Seq(NamedMsg)
    BY <2>1, <2>2
  <2>4. wire' = [wire EXCEPT ![s] = v]
    BY <1>b, Zenon
  <2> HIDE DEF b
  <2>5. v.s2c = b
    BY <1>0, WireParts, Zenon DEF Wire
  <2> HIDE DEF v
  <2>6. Granted([wire EXCEPT ![s] = v])
    BY <1>0, <2>3, <2>5, GrantedPut DEF Granted
  <2> QED BY <2>4, <2>6, Zenon
<1>1. ASSUME NEW s \in Gens, ServerRelocates(s) PROVE Granted(wire') /\ srv'.next # 0
  <2>1. Granted(wire')
    BY <1>1, <1>b DEF ServerRelocates
  <2> QED BY <1>0, <1>1, <2>1 DEF ServerRelocates
<1>2. ASSUME NEW s \in Gens, ServerRejectsAuth(s) PROVE Granted(wire') /\ srv'.next # 0
  <2>1. Granted(wire')
    BY <1>2, <1>b DEF ServerRejectsAuth, AuthErrors
  <2> QED BY <1>0, <1>2, <2>1 DEF ServerRejectsAuth
<1>3. ASSUME NEW s \in Gens, Drop(s) PROVE Granted(wire') /\ srv'.next # 0
  <2>1. ClosedWire.s2c \in Seq(NamedMsg)
    BY DEF ClosedWire
  <2>2. Granted(wire')
    BY <1>0, <1>3, <2>1, GrantedPut DEF Drop
  <2> QED BY <1>0, <1>3, <2>2 DEF Drop
<1>4. CASE ServerForgets
  <2>1. wire' = [s \in Gens |-> [wire[s] EXCEPT !.bound = None]]
    BY <1>4, Zenon DEF ServerForgets
  <2>2. ASSUME NEW s \in Gens PROVE wire'[s].s2c = wire[s].s2c
    <3>1. [wire[s] EXCEPT !.bound = None].s2c = wire[s].s2c
      BY <1>0, WireParts, Zenon DEF Wire
    <3> QED BY <2>1, <3>1, Zenon
  <2>3. Granted(wire')
    BY <1>0, <2>2 DEF Granted
  <2>4. srv'.next = srv.next
    BY <1>0, <1>4, Zenon DEF ServerForgets, Server
  <2> QED BY <1>0, <2>3, <2>4
<1> QED BY <1>1, <1>2, <1>3, <1>4 DEF Environment

\* connect() starts with no message on its way.
LEMMA InitGranted ==
  ASSUME Init
  PROVE  Granted(wire) /\ srv.next # 0
<1>1. ClosedWire.s2c \in Seq(NamedMsg)
  BY DEF ClosedWire
<1>2. wire = [s \in Gens |-> ClosedWire]
  BY Zenon DEF Init
<1>3. srv.next # 0
  BY ClientAssumption DEF ClientAssumption, Init
<1> QED BY <1>1, <1>2, <1>3 DEF Granted

\* The session does not get ready without a track, nor lose its track and stay
\* ready: neither an old answer on a dying socket, nor a Resume sent for a track
\* that is gone by then, nor the answer to resume() with an empty uid makes
\* publish and send_event go on without one; only the call of resume() itself,
\* with an empty uid on a session that is ready, does.
THEOREM ReadyOnlyOnTrack == Spec => ReadyHasTrack
<1>1. Init => RInv
  BY InitType, InitGranted DEF RInv
<1>2. RInv /\ [Next]_vars => RInv'
  <2> SUFFICES ASSUME RInv, [Next]_vars PROVE RInv'
    OBVIOUS
  <2>0. IInv' /\ IInv /\ Granted(wire) /\ srv.next # 0
    BY StepsKeepIInv DEF RInv
  <2>1. CASE \/ \E p \in Procs : NewCall(p) \/ CallStep(p)
             \/ \E d \in Drivers : DriverStep(d)
             \/ \E s \in Gens : ReaderStep(s)
    <3>1. Granted(wire')
      BY <2>0, <2>1, ClientGranted
    <3>2. UNCHANGED srv
      BY <2>1, OwnState
    <3> QED BY <2>0, <3>1, <3>2 DEF RInv
  <2>2. ASSUME NEW s \in Gens, ServerStep(s) PROVE RInv'
    BY <2>0, <2>2, ServerStepGranted DEF RInv
  <2>3. ASSUME (\E s \in Gens : Environment(s)) \/ ServerForgets PROVE RInv'
    BY <2>0, <2>3, EnvironmentGranted DEF RInv
  <2>4. CASE UNCHANGED vars
    BY <2>0, <2>4 DEF vars, RInv, Granted
  <2> QED BY <2>1, <2>2, <2>3, <2>4 DEF Next
<1>3. RInv /\ [Next]_vars => [g'.session_ready /\ g'.track_uid = None =>
                             \/ g.session_ready /\ g.track_uid = None
                             \/ \E p \in Procs : ManualRegister(p) /\ call[p].uid = None]_vars
  <2> SUFFICES ASSUME RInv, [Next]_vars, g'.session_ready, g'.track_uid = None
               PROVE  \/ g.session_ready /\ g.track_uid = None
                      \/ \E p \in Procs : ManualRegister(p) /\ call[p].uid = None
    OBVIOUS
  <2>0. IInv /\ InnerOK(g) /\ g \in Inner
    BY InnerParts DEF RInv, IInv
  <2>1. \/ GrantsNothing(g, g') \/ g'.track_uid # None
        \/ \E p \in Procs : ManualRegister(p)
    <3>1. CASE UNCHANGED g
      BY <3>1 DEF GrantsNothing
    <3>2. CASE \E s \in Gens : ServerStep(s) \/ Environment(s)
      BY <3>2, OwnState, <3>1
    <3>3. CASE ServerForgets
      BY <3>3, <3>1 DEF ServerForgets, Quiet
    <3> QED BY <2>0, <3>1, <3>2, <3>3, CallGrants, DriverGrants, ReaderGrants DEF Next, vars
  <2>2. ASSUME NEW p \in Procs, ManualRegister(p)
        PROVE  g'.session_ready = g.session_ready /\ g'.track_uid = call[p].uid
    BY <2>0, <2>2, Zenon DEF ManualRegister, Inner
  <2> QED BY <2>1, <2>2 DEF GrantsNothing
<1> QED BY <1>1, <1>2, <1>3, PTL DEF Spec, ReadyHasTrack

===============================================================================
