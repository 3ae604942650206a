---------------------------- MODULE TrackingClient ----------------------------
(***************************************************************************)
(* A device's tracking session (src/src/tracking/client.rs): the shared    *)
(* state Inner behind its mutex, the tasks that work on it, the sockets    *)
(* and the tracking server.  One action is one critical section of the     *)
(* mutex or one point where a task awaits something else.                  *)
(*                                                                         *)
(*   call[p]    application task p inside publish, start_track,            *)
(*              stop_track, resume, send_event or close                    *)
(*   driver[d]  a task that dials: connect(), the task on_socket_closed    *)
(*              spawns, handle_relocate, handle_auth_error                 *)
(*   reader[s]  the read loop of socket s, with dispatch and flush_queue   *)
(*   wire[s]    socket s, named after the dial generation that opened it   *)
(*   srv        the tracking server (external)                             *)
(*                                                                         *)
(* Not modelled: the noise filter and the publish rate gate (a sample they *)
(* refuse changes nothing here), endpoints and credentials, delays, and    *)
(* what a listener does with its session (module Listener).                *)
(***************************************************************************)
EXTENDS OfflineQueue

CONSTANTS
  Procs,             \* application tasks sharing the Client
  Drivers,           \* slots for dialing tasks (bound)
  MaxGen,            \* bound on dial_gen
  HasRefresh,        \* cfg.refresh_auth is set
  DisableReconnect,  \* cfg.disable_reconnect
  MaxAttempts,       \* cfg.reconnect_max_attempts, 0 for no limit
  Earlier,           \* the track an earlier run of the program left live, if any
  ResumeArgs,        \* what the application may pass to resume()
  Budget,            \* how often the application and the network may act
  Apart              \* of these only one kind in a behaviour (bound)

Acts == {"publish", "start", "stop", "resume", "event", "close",
         "drop", "fail", "relocate", "auth", "retry", "refuse", "forget"}

ASSUME ClientAssumption ==
  /\ Points = 1 .. Budget.publish
  /\ Drivers \in SUBSET (Nat \ {0}) /\ Drivers # {} /\ 0 \notin Procs /\ Procs \cap Drivers = {}
  /\ MaxGen \in Nat \ {0} /\ MaxAttempts \in Nat
  /\ HasRefresh \in BOOLEAN /\ DisableReconnect \in BOOLEAN
  /\ Earlier \in [uid : Nat, acked : Nat] /\ (Earlier.uid = 0 => Earlier.acked = 0)
  /\ ResumeArgs \subseteq Nat \X Nat
  /\ Budget \in [Acts -> Nat] /\ Apart \subseteq Acts

VARIABLES g, driver, call, reader, wire, srv, left
vars == <<g, driver, call, reader, wire, srv, left>>

None   == 0              \* no track uid, no socket
NoOne  == 0              \* no waiter
Gens   == 1 .. MaxGen
Result == {"pending", "ok", "err", "retry"}

Inner == [state : {"Connecting", "Open", "Reconnecting", "Closed"},
          track_uid : Nat, last_assigned_seq : Nat, last_acked_seq : Nat,
          queue : Queue, session_ready : BOOLEAN, starting : BOOLEAN,
          intentional : BOOLEAN, dial_gen : 0 .. MaxGen, out_tx : 0 .. MaxGen,
          start_wait : Procs \cup {NoOne}, stop_wait : Procs \cup {NoOne},
          resume_wait : Procs \cup Drivers \cup {NoOne}, attempt : 0 .. MaxAttempts]

DriverPc == {"idle", "gone", "closed", "sleep", "relocate", "auth", "dial", "connecting",
             "install", "resume", "sendResume", "waitResume", "retrySleep", "failed"}

\* origin: what happens to a failed dial ("connect" reports it, "reconnect"
\* tries again, "ignore" drops it).
Driver == [pc : DriverPc, origin : {"connect", "reconnect", "ignore"},
           gen : 0 .. MaxGen, resume : BOOLEAN, uid : Nat, res : Result]

CallPc == {"idle", "pubStart", "pubStartFailed", "pub", "pubSend",
           "startSend", "startFailed", "startWait",
           "stop", "stopSend", "stopFailed", "stopWait",
          "resume", "resumeSend", "resumeFailed", "resumeWait",
          "eventSend", "closeSend", "close"}

\* uid, seq: the arguments of resume(), or the number of a live publish.
Call == [pc : CallPc, pt : Points \cup {0}, uid : Nat, seq : Nat, res : Result]

MsgType == {"TrackStart", "Resume", "Loc", "TrackStop", "Event", "Close",
            "TrackStarted", "ResumeOk", "Ack", "TrackStopped", "Relocate",
            "TrackNotFound", "TryAgain", "Auth", "Unauthorized", "RateLimited"}

Msg == [type : MsgType, uid : Nat, seq : Nat, pts : Seq(Points)]

\* TryAgain stands for TRY_AGAIN and FENCED, RateLimited for every code the
\* client does not tell apart.
ErrorCodes == {"TrackNotFound", "TryAgain", "Auth", "Unauthorized", "RateLimited"}
FatalResume == {"TrackNotFound", "Auth"}
AuthErrors  == {"Auth", "Unauthorized"}

M(type)            == [type |-> type, uid |-> None, seq |-> 0, pts |-> <<>>]
Resume(uid)        == [M("Resume") EXCEPT !.uid = uid]
Loc(seq, pts)      == [M("Loc") EXCEPT !.seq = seq, !.pts = pts]
TrackStarted(uid)  == [M("TrackStarted") EXCEPT !.uid = uid]
TrackStopped(uid)  == [M("TrackStopped") EXCEPT !.uid = uid]
ResumeOk(uid, seq) == [M("ResumeOk") EXCEPT !.uid = uid, !.seq = seq]
Ack(seq)           == [M("Ack") EXCEPT !.seq = seq]

Reader == [pc : {"none", "read", "flush", "send", "done"},
           out : Seq(Frame), wake : Procs \cup Drivers \cup {NoOne}]

\* bound: the track the server tied to the socket.
Wire == [up : BOOLEAN, c2s : Seq(Msg), s2c : Seq(Msg), bound : Nat]

Server == [live : Nat, next : Nat, acked : Nat, got : SUBSET (Nat \X Int \X Points)]

TypeOK ==
  /\ g \in Inner
  /\ driver \in [Drivers -> Driver]
  /\ call \in [Procs -> Call]
  /\ reader \in [Gens -> Reader]
  /\ wire \in [Gens -> Wire]
  /\ srv \in Server
  /\ left \in [Acts -> Nat]

-----------------------------------------------------------------------------
IdleDriver == [pc |-> "idle", origin |-> "ignore", gen |-> 0,
               resume |-> FALSE, uid |-> None, res |-> "pending"]

IdleCall == [pc |-> "idle", pt |-> 0, uid |-> None, seq |-> 0, res |-> "pending"]

IdleReader == [pc |-> "none", out |-> <<>>, wake |-> NoOne]

ClosedWire == [up |-> FALSE, c2s |-> <<>>, s2c |-> <<>>, bound |-> None]

FirstDriver == CHOOSE d \in Drivers : \A e \in Drivers : d <= e

\* connect(): the session before its first dial, and the task that runs it.
Init ==
  /\ g = [state |-> "Connecting", track_uid |-> None,
          last_assigned_seq |-> 0, last_acked_seq |-> 0, queue |-> EmptyQueue,
          session_ready |-> FALSE, starting |-> FALSE, intentional |-> FALSE,
          dial_gen |-> 0, out_tx |-> None, start_wait |-> NoOne,
          stop_wait |-> NoOne, resume_wait |-> NoOne, attempt |-> 0]
  /\ driver = [d \in Drivers |->
                 IF d = FirstDriver
                 THEN [IdleDriver EXCEPT !.pc = "dial", !.origin = "connect"]
                 ELSE IdleDriver]
  /\ call = [p \in Procs |-> IdleCall]
  /\ reader = [s \in Gens |-> IdleReader]
  /\ wire = [s \in Gens |-> ClosedWire]
  /\ srv = [live |-> Earlier.uid, next |-> Earlier.uid + 1, acked |-> Earlier.acked, got |-> {}]
  /\ left = Budget

Spend(act) ==
  /\ left[act] > 0 /\ left' = [left EXCEPT ![act] = @ - 1]
  /\ act \in Apart => \A other \in Apart \ {act} : left[other] = Budget[other]

\* The application holds a Client once connect() has returned Ok.
Connected == \A d \in Drivers : driver[d].origin # "connect"

\* tokio::spawn of a dialing task, in the first free slot.
SpawnIn(ds, rec) ==
  \E d \in Drivers :
    /\ ds[d].pc = "idle"
    /\ \A e \in Drivers : ds[e].pc = "idle" => d <= e
    /\ driver' = [ds EXCEPT ![d] = rec]
Spawn(rec) == SpawnIn(driver, rec)

Push(s, m) == [wire EXCEPT ![s].c2s = IF wire[s].up THEN Append(@, m) ELSE @]

\* send_bin: the current socket, whichever it is by now.  A dead socket may
\* still take the message or already refuse it.
CanSend  == g.out_tx # None /\ ~(g.state = "Closed" /\ g.intentional)
Sent(m)  == CanSend /\ wire' = Push(g.out_tx, m)
SendFails == (CanSend => ~wire[g.out_tx].up) /\ UNCHANGED wire

Awaiting == {"startSend", "startWait", "stopSend", "stopWait", "resumeSend", "resumeWait"}

\* A oneshot result for a waiting call; a receiver that is gone ignores it.
TellCall(c, p, r) ==
  IF p \in Procs /\ c[p].pc \in Awaiting
  THEN [c EXCEPT ![p].res = r] ELSE c

TellDriver(ds, d, r) ==
  IF d \in Drivers /\ ds[d].pc \in {"sendResume", "waitResume"}
  THEN [ds EXCEPT ![d].res = r] ELSE ds

\* The receiver of w is dropped: a read loop that is to tell w tells nobody.
Unheard(w) == reader' = [s \in Gens |-> IF reader[s].wake = w
                                         THEN [reader[s] EXCEPT !.wake = NoOne] ELSE reader[s]]

\* out_tx.take() followed by Outbound::Close.
HangUp == IF g.out_tx = None THEN wire ELSE Push(g.out_tx, M("Close"))

-----------------------------------------------------------------------------
(* Application calls.                                                        *)

\* What publish (auto-start) and start_track reset under the lock.
FreshTrack(i) == [i EXCEPT !.starting = TRUE, !.queue = EmptyQueue,
                           !.last_assigned_seq = 0, !.last_acked_seq = 0,
                           !.session_ready = FALSE]

Goto(p, pc) == call' = [call EXCEPT ![p].pc = pc]
Return(p)   == call' = [call EXCEPT ![p] = IdleCall]

Begin(p, act, pc) ==
  /\ call[p].pc = "idle" /\ Connected
  /\ Spend(act)
  /\ call' = [call EXCEPT ![p] =
               [@ EXCEPT !.pc = pc,
                         !.pt = IF act = "publish" THEN left.publish ELSE 0]]

\* Faulty variant: publish does not look whether a start is under way.
NeedsStartUnguarded == g.track_uid = None
NeedsStart == g.track_uid = None /\ ~g.starting

Ready == g.session_ready /\ g.state = "Open" /\ g.out_tx # None

\* publish: with no track and no start under way, this sample starts one.
PublishBegin(p) ==
  /\ IF NeedsStart
     THEN Begin(p, "publish", "pubStart") /\ g' = FreshTrack(g)
     ELSE Begin(p, "publish", "pub") /\ UNCHANGED g
  /\ UNCHANGED <<driver, reader, wire, srv>>

PublishStart(p) ==
  /\ call[p].pc = "pubStart"
  /\ \/ Sent(M("TrackStart")) /\ Return(p)
     \/ SendFails /\ Goto(p, "pubStartFailed")
  /\ UNCHANGED <<g, driver, reader, srv, left>>

PublishStartFailed(p) ==
  /\ call[p].pc = "pubStartFailed"
  /\ g' = [g EXCEPT !.starting = FALSE]
  /\ Return(p)
  /\ UNCHANGED <<driver, reader, wire, srv, left>>

PublishStage(p) ==
  /\ call[p].pc = "pub"
  /\ ~(Ready /\ ~WindowFull(g.queue))
  /\ \E q \in PushStaging(g.queue, call[p].pt) : g' = [g EXCEPT !.queue = q]
  /\ Return(p)
  /\ UNCHANGED <<driver, reader, wire, srv, left>>

PublishLive(p) ==
  /\ call[p].pc = "pub"
  /\ Ready /\ ~WindowFull(g.queue)
  /\ LET seq == g.last_assigned_seq + 1
     IN /\ \E q \in Enqueue(g.queue, seq, call[p].pt) :
             g' = [g EXCEPT !.last_assigned_seq = seq,
                            !.queue = RecordFrames(q, <<seq>>)]
        /\ call' = [call EXCEPT ![p] = [@ EXCEPT !.pc = "pubSend", !.seq = seq]]
  /\ UNCHANGED <<driver, reader, wire, srv, left>>

PublishSend(p) ==
  /\ call[p].pc = "pubSend"
  /\ \/ Sent(Loc(call[p].seq % SeqSpace, <<call[p].pt>>))
     \/ SendFails
  /\ Return(p)
  /\ UNCHANGED <<g, driver, reader, srv, left>>

StartTrack(p) ==
  /\ call[p].pc = "idle" /\ Connected
  /\ Spend("start")
  /\ g' = [FreshTrack(g) EXCEPT !.start_wait = p]
  /\ call' = [TellCall(call, g.start_wait, "err") EXCEPT ![p].pc = "startSend"]
  /\ UNCHANGED <<driver, reader, wire, srv>>

StartSend(p) ==
  /\ call[p].pc = "startSend"
  /\ \/ Sent(M("TrackStart")) /\ Goto(p, "startWait")
     \/ SendFails /\ Goto(p, "startFailed")
  /\ UNCHANGED <<g, driver, reader, srv, left>>

\* Clears start_wait even when another call has replaced the waiter.
StartFailed(p) ==
  /\ call[p].pc = "startFailed"
  /\ g' = [g EXCEPT !.start_wait = NoOne, !.starting = FALSE]
  /\ call' = [TellCall(call, g.start_wait, "err") EXCEPT ![p] = IdleCall]
  /\ Unheard(p)
  /\ UNCHANGED <<driver, wire, srv, left>>

\* stop_track with a live track, or with an explicit uid.
StopTrack(p) ==
  /\ Begin(p, "stop", "stop")
  /\ UNCHANGED <<g, driver, reader, wire, srv>>

StopRegister(p) ==
  /\ call[p].pc = "stop"
  /\ g' = [g EXCEPT !.stop_wait = p]
  /\ call' = [TellCall(call, g.stop_wait, "err") EXCEPT ![p].pc = "stopSend"]
  /\ UNCHANGED <<driver, reader, wire, srv, left>>

StopSend(p) ==
  /\ call[p].pc = "stopSend"
  /\ \/ Sent(M("TrackStop")) /\ Goto(p, "stopWait")
     \/ SendFails /\ Goto(p, "stopFailed")
  /\ UNCHANGED <<g, driver, reader, srv, left>>

StopFailed(p) ==
  /\ call[p].pc = "stopFailed"
  /\ g' = [g EXCEPT !.stop_wait = NoOne]
  /\ call' = [TellCall(call, g.stop_wait, "err") EXCEPT ![p] = IdleCall]
  /\ Unheard(p)
  /\ UNCHANGED <<driver, wire, srv, left>>

\* resume(uid, seq): the code takes any string and any number.
ManualResume(p) ==
  /\ call[p].pc = "idle" /\ Connected
  /\ Spend("resume")
  /\ \E arg \in ResumeArgs :
       call' = [call EXCEPT ![p] = [@ EXCEPT !.pc = "resume", !.uid = arg[1], !.seq = arg[2]]]
  /\ UNCHANGED <<g, driver, reader, wire, srv>>

\* It takes the resume_wait slot from whoever holds it, and keeps the queue.
ManualRegister(p) ==
  /\ call[p].pc = "resume"
  /\ g' = [g EXCEPT !.track_uid = call[p].uid, !.last_assigned_seq = call[p].seq,
                    !.resume_wait = p]
  /\ call' = [TellCall(call, g.resume_wait, "err")
                 EXCEPT ![p] = [call[p] EXCEPT !.pc = "resumeSend", !.res = "pending"]]
  /\ driver' = TellDriver(driver, g.resume_wait, "err")
  /\ UNCHANGED <<reader, wire, srv, left>>

ManualSend(p) ==
  /\ call[p].pc = "resumeSend"
  /\ \/ Sent(Resume(call[p].uid)) /\ Goto(p, "resumeWait")
     \/ SendFails /\ Goto(p, "resumeFailed")
  /\ UNCHANGED <<g, driver, reader, srv, left>>

ManualFailed(p) ==
  /\ call[p].pc = "resumeFailed"
  /\ g' = [g EXCEPT !.resume_wait = NoOne]
  /\ call' = [TellCall(call, g.resume_wait, "err") EXCEPT ![p] = IdleCall]
  /\ driver' = TellDriver(driver, g.resume_wait, "err")
  /\ Unheard(p)
  /\ UNCHANGED <<wire, srv, left>>

\* FENCED and TRY_AGAIN make it start over, also when the session is closed.
ManualReturns(p) ==
  /\ call[p].pc = "resumeWait" /\ call[p].res # "pending"
  /\ IF call[p].res = "retry" THEN Goto(p, "resume") ELSE Return(p)
  /\ UNCHANGED <<g, driver, reader, wire, srv, left>>

\* send_event past its checks: track, session_ready, rate, open socket.
SendEvent(p) ==
  /\ g.track_uid # None /\ Ready
  /\ Begin(p, "event", "eventSend")
  /\ UNCHANGED <<g, driver, reader, wire, srv>>

EventSend(p) ==
  /\ call[p].pc = "eventSend"
  /\ Sent(M("Event")) \/ SendFails
  /\ Return(p)
  /\ UNCHANGED <<g, driver, reader, srv, left>>

\* rx.await of start_track and stop_track.
CallReturns(p) ==
  /\ call[p].pc \in {"startWait", "stopWait"}
  /\ call[p].res # "pending"
  /\ Return(p)
  /\ UNCHANGED <<g, driver, reader, wire, srv, left>>

CloseBegin(p) ==
  /\ Begin(p, "close", IF g.track_uid # None THEN "closeSend" ELSE "close")
  /\ UNCHANGED <<g, driver, reader, wire, srv>>

CloseSend(p) ==
  /\ call[p].pc = "closeSend"
  /\ Sent(M("TrackStop")) \/ SendFails
  /\ Goto(p, "close")
  /\ UNCHANGED <<g, driver, reader, srv, left>>

\* reject_pending_locked: each waiter gets an error.
RejectPending(i) ==
  [i EXCEPT !.start_wait = NoOne, !.stop_wait = NoOne, !.resume_wait = NoOne]
\* Faulty variant: the stop waiter is left behind.
RejectedStarts  == TellCall(call, g.start_wait, "err")
AnsweredCalls(r) == TellCall(TellCall(TellCall(call, g.start_wait, "err"), g.stop_wait, "err"),
                             g.resume_wait, r)
RejectedCalls   == AnsweredCalls("err")
RejectedDrivers == TellDriver(driver, g.resume_wait, "err")

Close(p) ==
  /\ call[p].pc = "close"
  /\ g' = [RejectPending(g) EXCEPT !.intentional = TRUE, !.state = "Closed",
                                   !.session_ready = FALSE, !.out_tx = None]
  /\ wire' = HangUp
  /\ driver' = RejectedDrivers
  /\ call' = [RejectedCalls EXCEPT ![p] = IdleCall]
  /\ UNCHANGED <<reader, srv, left>>

CallStep(p) ==
  \/ PublishStart(p) \/ PublishStartFailed(p) \/ PublishStage(p)
  \/ PublishLive(p) \/ PublishSend(p)
  \/ StartSend(p) \/ StartFailed(p) \/ StopRegister(p) \/ StopSend(p)
  \/ StopFailed(p) \/ CallReturns(p) \/ ManualRegister(p) \/ ManualSend(p)
  \/ ManualFailed(p) \/ ManualReturns(p) \/ EventSend(p) \/ CloseSend(p) \/ Close(p)

NewCall(p) ==
  \/ PublishBegin(p) \/ StartTrack(p) \/ StopTrack(p) \/ ManualResume(p)
  \/ SendEvent(p) \/ CloseBegin(p)
-----------------------------------------------------------------------------
(* Dialing tasks.                                                            *)

Finish(d)  == driver' = [driver EXCEPT ![d] = IdleDriver]
Step(d, pc) == driver' = [driver EXCEPT ![d].pc = pc]

\* Faulty variant: a failed dial is never followed up.
DialErrIgnored(d) ==
  IF driver[d].origin = "connect" THEN Step(d, "gone") ELSE Finish(d)
\* The `?` of a dial: what becomes of its error.
DialErr(d) ==
  IF driver[d].origin = "ignore" THEN Finish(d)
  ELSE Step(d, IF driver[d].origin = "connect" THEN "gone" ELSE "failed")

\* Faulty variant: a lost socket is replaced without Resume.
NeverResume == FALSE
ResumeNeeded == g.track_uid # None

\* Faulty variant: one attempt too many.
ExhaustedOneLate == MaxAttempts > 0 /\ g.attempt > MaxAttempts
\* next_delay: the attempts are used up.
Exhausted == MaxAttempts > 0 /\ g.attempt >= MaxAttempts

\* on_socket_closed(gen), the critical section of the spawned task.
SocketClosed(d) ==
  /\ driver[d].pc = "closed"
  /\ IF driver[d].gen # g.dial_gen
     THEN Finish(d) /\ UNCHANGED <<g, call>>
     ELSE LET lost == [g EXCEPT !.out_tx = None, !.session_ready = FALSE,
                                !.queue = MarkUnsent(@)]
          IN IF g.intentional
             THEN /\ g' = [lost EXCEPT !.state = "Closed"]
                  /\ Finish(d) /\ UNCHANGED call
             ELSE IF DisableReconnect \/ Exhausted
             THEN /\ g' = [RejectPending(lost) EXCEPT !.state = "Closed"]
                  /\ call' = RejectedCalls
                  /\ driver' = [RejectedDrivers EXCEPT ![d] = IdleDriver]
             ELSE /\ g' = [lost EXCEPT !.state = "Reconnecting",
                                       !.attempt = IF MaxAttempts > 0 THEN @ + 1 ELSE @]
                  /\ driver' = [driver EXCEPT ![d] = [@ EXCEPT !.pc = "sleep",
                                                            !.resume = ResumeNeeded]]
                  /\ UNCHANGED call
  /\ UNCHANGED <<reader, wire, srv, left>>

\* The backoff delay is over.
Wake(d) ==
  /\ driver[d].pc = "sleep"
  /\ IF g.intentional THEN Finish(d) ELSE Step(d, "dial")
  /\ UNCHANGED <<g, call, reader, wire, srv, left>>

\* handle_relocate, after its delay.
HandleRelocate(d) ==
  /\ driver[d].pc = "relocate"
  /\ IF g.intentional THEN DialErr(d)
     ELSE driver' = [driver EXCEPT ![d] = [@ EXCEPT !.pc = "dial",
                                       !.resume = driver[d].resume \/ ResumeNeeded]]
  /\ UNCHANGED <<g, call, reader, wire, srv, left>>

\* handle_auth_error without a refresh callback.
GiveUpAuth(d) ==
  /\ driver[d].pc = "auth" /\ ~HasRefresh
  /\ g' = [g EXCEPT !.intentional = TRUE, !.state = "Closed", !.out_tx = None]
  /\ wire' = HangUp
  /\ Finish(d)
  /\ UNCHANGED <<call, reader, srv, left>>

\* handle_auth_error, the callback returned new credentials.
RefreshOk(d) ==
  /\ driver[d].pc = "auth" /\ HasRefresh /\ g.dial_gen < MaxGen
  /\ g' = [g EXCEPT !.dial_gen = @ + 1, !.session_ready = FALSE, !.out_tx = None]
  /\ wire' = HangUp
  /\ IF g.intentional THEN Finish(d)
     ELSE driver' = [driver EXCEPT ![d] = [@ EXCEPT !.pc = "dial",
                                                      !.resume = ResumeNeeded]]
  /\ UNCHANGED <<call, reader, srv, left>>

\* handle_auth_error, the callback failed: the socket keeps its sender.
RefreshErr(d) ==
  /\ driver[d].pc = "auth" /\ HasRefresh
  /\ Spend("fail")
  /\ g' = [g EXCEPT !.intentional = TRUE, !.state = "Closed"]
  /\ Finish(d)
  /\ UNCHANGED <<call, reader, wire, srv>>

\* dial_inner takes a generation.
Dial(d) ==
  /\ driver[d].pc = "dial" /\ g.dial_gen < MaxGen
  /\ g' = [g EXCEPT !.dial_gen = @ + 1, !.session_ready = FALSE,
                    !.state = IF @ \in {"Open", "Reconnecting"}
                              THEN "Reconnecting" ELSE "Connecting"]
  /\ driver' = [driver EXCEPT ![d] = [@ EXCEPT !.pc = "connecting",
                                               !.gen = g.dial_gen + 1]]
  /\ UNCHANGED <<call, reader, wire, srv, left>>

\* WebSocket handshake and first frame: Hello, Relocate, or a failure (refused,
\* timed out, an Error event).
DialHello(d) ==
  /\ driver[d].pc = "connecting"
  /\ Step(d, "install")
  /\ wire' = [wire EXCEPT ![driver[d].gen].up = TRUE]
  /\ UNCHANGED <<g, call, reader, srv, left>>

DialRelocated(d) ==
  /\ driver[d].pc = "connecting"
  /\ Spend("relocate")
  /\ Step(d, "relocate")
  /\ UNCHANGED <<g, call, reader, wire, srv>>

DialFails(d) ==
  /\ driver[d].pc = "connecting"
  /\ Spend("fail")
  /\ DialErr(d)
  /\ UNCHANGED <<g, call, reader, wire, srv>>

\* Faulty variants: the check forgets newer dials, or close().
SupersededByClose(d) == g.intentional
SupersededByDial(d)  == driver[d].gen # g.dial_gen
Superseded(d) == driver[d].gen # g.dial_gen \/ g.intentional

\* A superseded dial drops its socket, the newest one installs it.
Install(d) ==
  /\ driver[d].pc = "install"
  /\ LET s == driver[d].gen
     IN IF Superseded(d)
        THEN /\ DialErr(d)
             /\ wire' = [wire EXCEPT ![s] = ClosedWire]
             /\ UNCHANGED <<g, reader>>
        ELSE /\ g' = [g EXCEPT !.out_tx = s, !.state = "Open", !.attempt = 0]
             /\ reader' = [reader EXCEPT ![s].pc = "read"]
             /\ IF driver[d].resume THEN Step(d, "resume") ELSE Finish(d)
             /\ UNCHANGED wire
  /\ UNCHANGED <<call, srv, left>>

\* send_resume_and_wait takes the single resume_wait slot.
ResumeRegister(d) ==
  /\ driver[d].pc = "resume"
  /\ IF g.track_uid = None
     THEN Finish(d) /\ UNCHANGED <<g, call>>
     ELSE /\ g' = [g EXCEPT !.resume_wait = d]
          /\ call' = TellCall(call, g.resume_wait, "err")
          /\ driver' = [TellDriver(driver, g.resume_wait, "err")
                          EXCEPT ![d] = [driver[d] EXCEPT !.pc = "sendResume",
                                           !.uid = g.track_uid, !.res = "pending"]]
  /\ UNCHANGED <<reader, wire, srv, left>>

\* The Resume goes to the socket that is current now, not to the one dialed.
ResumeSend(d) ==
  /\ driver[d].pc = "sendResume"
  /\ \/ Sent(Resume(driver[d].uid)) /\ Step(d, "waitResume") /\ UNCHANGED reader
     \/ SendFails /\ DialErr(d) /\ Unheard(d)
  /\ UNCHANGED <<g, call, srv, left>>

ResumeReturns(d) ==
  /\ driver[d].pc = "waitResume" /\ driver[d].res # "pending"
  /\ CASE driver[d].res = "ok"    -> Finish(d)
       [] driver[d].res = "retry" -> Step(d, "retrySleep")
       [] OTHER                   -> DialErr(d)
  /\ UNCHANGED <<g, call, reader, wire, srv, left>>

ResumeRetry(d) ==
  /\ driver[d].pc = "retrySleep"
  /\ IF g.intentional THEN DialErr(d) ELSE Step(d, "resume")
  /\ UNCHANGED <<g, call, reader, wire, srv, left>>

\* The reconnect task takes the generation current NOW for the failed one.
ReconnectFailed(d) ==
  /\ driver[d].pc = "failed"
  /\ driver' = [driver EXCEPT ![d] = [@ EXCEPT !.pc = "closed", !.gen = g.dial_gen,
                                               !.origin = "reconnect"]]
  /\ UNCHANGED <<g, call, reader, wire, srv, left>>

DriverStep(d) ==
  \/ SocketClosed(d) \/ Wake(d) \/ HandleRelocate(d)
  \/ GiveUpAuth(d) \/ RefreshOk(d) \/ RefreshErr(d)
  \/ Dial(d) \/ DialHello(d) \/ DialRelocated(d) \/ DialFails(d) \/ Install(d)
  \/ ResumeRegister(d) \/ ResumeSend(d) \/ ResumeReturns(d) \/ ResumeRetry(d)
  \/ ReconnectFailed(d)

-----------------------------------------------------------------------------
(* The read loop: dispatch, then flush_queue, then the oneshot.  Nothing     *)
(* compares the socket with dial_gen: every live reader is listened to.      *)

Receives(s, type) ==
  reader[s].pc = "read" /\ wire[s].s2c # <<>> /\ Head(wire[s].s2c).type = type

Got(s)     == Head(wire[s].s2c)
Consume(s) == wire' = [wire EXCEPT ![s].s2c = Tail(@)]
FlushThen(s, waiter) ==
  reader' = [reader EXCEPT ![s] = [@ EXCEPT !.pc = "flush", !.wake = waiter]]

OnResumeOk(s) ==
  /\ Receives(s, "ResumeOk")
  /\ LET m == Got(s)
     IN g' = [g EXCEPT
          !.track_uid = IF m.uid # None THEN m.uid ELSE @,
          !.last_acked_seq = m.seq,
          !.last_assigned_seq = IF @ < m.seq THEN m.seq ELSE @,
          !.queue = AckThrough(@, m.seq),
          !.session_ready = TRUE,
          !.resume_wait = NoOne]
  /\ Consume(s) /\ FlushThen(s, g.resume_wait)
  /\ UNCHANGED <<driver, call, srv, left>>

OnTrackStarted(s) ==
  /\ Receives(s, "TrackStarted")
  /\ g' = [g EXCEPT !.track_uid = Got(s).uid, !.last_assigned_seq = 0,
                    !.last_acked_seq = 0, !.session_ready = TRUE,
                    !.starting = FALSE, !.start_wait = NoOne]
  /\ Consume(s) /\ FlushThen(s, g.start_wait)
  /\ UNCHANGED <<driver, call, srv, left>>

\* Faulty variant: the session stays ready.
ForgetButReady(i) == [i EXCEPT !.track_uid = None, !.queue = EmptyQueue]
ForgetTrack(i) == [i EXCEPT !.track_uid = None, !.queue = EmptyQueue,
                            !.session_ready = FALSE]

OnTrackStopped(s) ==
  /\ Receives(s, "TrackStopped")
  /\ g' = IF g.track_uid = Got(s).uid
          THEN [ForgetTrack(g) EXCEPT !.stop_wait = NoOne]
          ELSE [g EXCEPT !.stop_wait = NoOne]
  /\ call' = TellCall(call, g.stop_wait, "ok")
  /\ Consume(s)
  /\ UNCHANGED <<driver, reader, srv, left>>

OnAck(s) ==
  /\ Receives(s, "Ack")
  /\ LET m == Got(s)
     IN g' = [g EXCEPT !.last_acked_seq = IF m.seq > @ THEN m.seq ELSE @,
                       !.queue = AckThrough(@, m.seq)]
  /\ Consume(s) /\ FlushThen(s, NoOne)
  /\ UNCHANGED <<driver, call, srv, left>>

\* An Error event answers every waiter at once; resume_wait has been taken when
\* TRACK_NOT_FOUND asks whether there is one, so it always clears the track.
OnError(s, code) ==
  /\ Receives(s, code)
  /\ LET fatal   == g.resume_wait # NoOne /\ code \in FatalResume
         cleared == IF fatal \/ code = "TrackNotFound" THEN ForgetTrack(g) ELSE g
         answer  == IF code = "TryAgain" THEN "retry" ELSE "err"
         told    == TellDriver(driver, g.resume_wait, answer)
     IN /\ g' = [RejectPending(cleared) EXCEPT
                   !.starting = @ /\ g.start_wait = NoOne /\ code # "TrackNotFound"]
        /\ IF code \in AuthErrors
           THEN SpawnIn(told, [IdleDriver EXCEPT !.pc = "auth"])
           ELSE driver' = told
        /\ call' = AnsweredCalls(answer)
  /\ Consume(s)
  /\ UNCHANGED <<reader, srv, left>>

OnRelocate(s) ==
  /\ Receives(s, "Relocate")
  /\ Spawn([IdleDriver EXCEPT !.pc = "relocate", !.resume = TRUE])
  /\ Consume(s)
  /\ UNCHANGED <<g, call, reader, srv, left>>

Wakeup(s) ==
  /\ reader' = [reader EXCEPT ![s] = [pc |-> "read", out |-> <<>>, wake |-> NoOne]]
  /\ driver' = TellDriver(driver, reader[s].wake, "ok")
  /\ call' = TellCall(call, reader[s].wake, "ok")

\* One round of flush_queue; with nothing to send it returns to dispatch.
FlushQueue(s) ==
  /\ reader[s].pc = "flush"
  /\ \E a \in {FlushAssign(g.queue, g.last_assigned_seq)} : \E out \in {FlushEncode(a.queue)} :
        IF Ready /\ out # <<>>
        THEN /\ g' = [g EXCEPT !.queue = FlushRecord(a.queue, out), !.last_assigned_seq = a.assigned]
             /\ reader' = [reader EXCEPT ![s] = [@ EXCEPT !.pc = "send", !.out = out]]
             /\ UNCHANGED <<driver, call>>
        ELSE Wakeup(s) /\ UNCHANGED g
  /\ UNCHANGED <<wire, srv, left>>

\* One send_bin of the round; the frames are already recorded as sent.
SendFrame(s) ==
  /\ reader[s].pc = "send"
  /\ LET frame == Head(reader[s].out)
         rest  == Tail(reader[s].out)
     IN \/ /\ Sent(Loc(frame.seq, frame.pts))
           /\ reader' = [reader EXCEPT ![s] =
                [@ EXCEPT !.out = rest, !.pc = IF rest = <<>> THEN "flush" ELSE "send"]]
           /\ UNCHANGED <<driver, call>>
        \/ SendFails /\ Wakeup(s)
  /\ UNCHANGED <<g, srv, left>>

ReaderEnds(s) ==
  /\ reader[s].pc = "read" /\ wire[s].s2c = <<>> /\ ~wire[s].up
  /\ reader' = [reader EXCEPT ![s].pc = "done"]
  /\ Spawn([IdleDriver EXCEPT !.pc = "closed", !.origin = "reconnect", !.gen = s])
  /\ UNCHANGED <<g, call, wire, srv, left>>

ReaderStep(s) ==
  \/ OnResumeOk(s) \/ OnTrackStarted(s) \/ OnTrackStopped(s) \/ OnAck(s)
  \/ \E code \in ErrorCodes : OnError(s, code)
  \/ OnRelocate(s) \/ FlushQueue(s) \/ SendFrame(s) \/ ReaderEnds(s)

-----------------------------------------------------------------------------
(* The server and the network (external), as the client's code, its comments *)
(* and the mock of its tests use them.                                       *)

Reply(s, m)    == [wire EXCEPT ![s] =
                    [@ EXCEPT !.c2s = Tail(wire[s].c2s), !.s2c = Append(wire[s].s2c, m)]]
NoReply(s)     == [wire EXCEPT ![s].c2s = Tail(@)]
Receiving(s, type) ==
  wire[s].up /\ wire[s].c2s # <<>> /\ Head(wire[s].c2s).type = type

Quiet == UNCHANGED <<g, driver, call, reader>>

ServerStarts(s) ==
  /\ Receiving(s, "TrackStart")
  /\ srv' = [srv EXCEPT !.live = srv.next, !.next = @ + 1, !.acked = 0]
  /\ wire' = [Reply(s, TrackStarted(srv.next)) EXCEPT ![s].bound = srv.next]
  /\ Quiet /\ UNCHANGED left

ServerRefusesStart(s) ==
  /\ Receiving(s, "TrackStart")
  /\ Spend("refuse")
  /\ wire' = Reply(s, M("RateLimited"))
  /\ Quiet /\ UNCHANGED srv

ServerResumes(s) ==
  /\ Receiving(s, "Resume")
  /\ LET uid == Head(wire[s].c2s).uid
     IN IF uid # None /\ uid = srv.live
        THEN wire' = [Reply(s, ResumeOk(uid, srv.acked)) EXCEPT ![s].bound = uid]
        ELSE wire' = Reply(s, M("TrackNotFound"))
  /\ Quiet /\ UNCHANGED <<srv, left>>

\* FENCED or TRY_AGAIN.
ServerDefersResume(s) ==
  /\ Receiving(s, "Resume")
  /\ Spend("retry")
  /\ wire' = Reply(s, M("TryAgain"))
  /\ Quiet /\ UNCHANGED srv

\* A Loc on a bound socket: point k of n counts as number seq - n + k.
ServerTakesLoc(s) ==
  /\ Receiving(s, "Loc")
  /\ LET m == Head(wire[s].c2s)
         n == Len(m.pts)
     IN IF wire[s].bound = None
        THEN wire' = NoReply(s) /\ UNCHANGED srv
        ELSE /\ wire' = Reply(s, Ack(m.seq))
             /\ srv' = [srv EXCEPT
                   !.acked = IF wire[s].bound = srv.live /\ m.seq > @ THEN m.seq ELSE @,
                   !.got = @ \cup {<<wire[s].bound, m.seq - n + k, m.pts[k]>> : k \in 1 .. n}]
  /\ Quiet /\ UNCHANGED left

ServerTakesEvent(s) ==
  /\ Receiving(s, "Event")
  /\ wire' = NoReply(s)
  /\ Quiet /\ UNCHANGED <<srv, left>>

ServerStops(s) ==
  /\ Receiving(s, "TrackStop")
  /\ IF wire[s].bound = None
     THEN wire' = NoReply(s) /\ UNCHANGED srv
     ELSE /\ wire' = [Reply(s, TrackStopped(wire[s].bound)) EXCEPT ![s].bound = None]
          /\ srv' = [srv EXCEPT !.live = IF @ = wire[s].bound THEN None ELSE @]
  /\ Quiet /\ UNCHANGED left

\* The close handshake; what the server sent before stays readable.
ServerCloses(s) ==
  /\ Receiving(s, "Close")
  /\ wire' = [wire EXCEPT ![s] = [@ EXCEPT !.up = FALSE, !.c2s = <<>>, !.bound = None]]
  /\ Quiet /\ UNCHANGED <<srv, left>>

ServerRelocates(s) ==
  /\ wire[s].up /\ reader[s].pc # "none"
  /\ Spend("relocate")
  /\ wire' = [wire EXCEPT ![s].s2c = Append(@, M("Relocate"))]
  /\ Quiet /\ UNCHANGED srv

ServerRejectsAuth(s) ==
  /\ wire[s].up /\ reader[s].pc # "none"
  /\ Spend("auth")
  /\ \E code \in AuthErrors : wire' = [wire EXCEPT ![s].s2c = Append(@, M(code))]
  /\ Quiet /\ UNCHANGED srv

\* The server ends the live track on its own.
ServerForgets ==
  /\ srv.live # None
  /\ Spend("forget")
  /\ srv' = [srv EXCEPT !.live = None]
  /\ wire' = [s \in Gens |-> [wire[s] EXCEPT !.bound = None]]
  /\ Quiet

\* The connection breaks, with all that is in flight in both directions.
Drop(s) ==
  /\ wire[s].up
  /\ Spend("drop")
  /\ wire' = [wire EXCEPT ![s] = ClosedWire]
  /\ Quiet /\ UNCHANGED srv

ServerStep(s) ==
  \/ ServerStarts(s) \/ ServerRefusesStart(s) \/ ServerResumes(s)
  \/ ServerDefersResume(s) \/ ServerTakesLoc(s) \/ ServerTakesEvent(s)
  \/ ServerStops(s) \/ ServerCloses(s)

Environment(s) == ServerRelocates(s) \/ ServerRejectsAuth(s) \/ Drop(s)

Next ==
  \/ \E p \in Procs : NewCall(p) \/ CallStep(p)
  \/ \E d \in Drivers : DriverStep(d)
  \/ \E s \in Gens : ReaderStep(s) \/ ServerStep(s) \/ Environment(s)
  \/ ServerForgets

Spec == Init /\ [][Next]_vars

\* What tokio, the network and the server do by themselves.
Progress ==
  \/ \E p \in Procs : CallStep(p)
  \/ \E d \in Drivers : DriverStep(d)
  \/ \E s \in Gens : ReaderStep(s) \/ ServerStep(s)

\* The session is not at rest while a task can run or a message can be taken.
FairSpec == Spec /\ WF_vars(Progress)

-----------------------------------------------------------------------------
(* Properties.                                                               *)

\* publish, flush and a reconnect together never let the buffer exceed
\* max_size, nor the unacked Loc frames the send window (queue.rs).
BufferBounded ==
  /\ Size(g.queue) <= MaxQueue
  /\ Len(g.queue.frames) <= Window

\* encode_loc_frames numbers points by position, so the in-flight points must
\* stay a gapless run that ends at last_assigned_seq.
InflightIsARun ==
  LET q == g.queue.inflight
  IN \A i \in DOMAIN q : q[i].seq = g.last_assigned_seq - Len(q) + i

\* mark_unsent and flush_queue retransmit under the old numbers: within a track
\* the server never stores two points under one number, nor one under two.
SeqNamesOnePoint ==
  \A a, b \in srv.got : a[1] = b[1] => (a[2] = b[2] <=> a[3] = b[3])

\* ack_through on Ack and on ResumeOk, in whatever order they come: an acked
\* number is neither in flight any more nor ahead of the numbers given out.
AckedIsDone ==
  /\ g.last_acked_seq <= g.last_assigned_seq
  /\ \A i \in DOMAIN g.queue.inflight : g.queue.inflight[i].seq > g.last_acked_seq

\* The application has only published and sent events so far, no earlier run of
\* it left a track behind, and the server has neither ended the track nor
\* rejected the credentials.  Connections may break and move as they like.
Steady  == {"start", "stop", "resume", "close", "auth", "forget"}
OneTrip == Earlier.uid = None /\ \A act \in Steady : left[act] = Budget[act]

\* On one trip publish and the reconnects start one track: no TrackStart of the
\* client reaches the server while a track is live.
OneTripOneTrack == [][OneTrip' /\ srv'.next # srv.next => srv.live = None]_vars

\* "A dropped socket is not a new trip" (README): publish starts a track only
\* when there is none, whatever came of the Resume after a lost connection.
NoTripSuperseded == [][srv'.next # srv.next => srv.live = None]_vars

\* cmd.rs calls the Ack a "Device ingest receipt": dispatch drops a point from
\* the queue on Ack or ResumeOk only if the server has it.
AckedPointsArrived ==
  [][(\E s \in Gens : OnAck(s) \/ OnResumeOk(s)) =>
       \A i \in DOMAIN g.queue.inflight :
         \/ \E j \in DOMAIN g'.queue.inflight :
              g'.queue.inflight[j].pt = g.queue.inflight[i].pt
         \/ \E r \in srv.got : r[3] = g.queue.inflight[i].pt]_vars

\* connect, reconnects, Relocate and auth refresh dial concurrently, yet
\* dial_inner installs a socket once, and never after a newer one.
NewestSocketWins ==
  [][g'.out_tx \notin {None, g.out_tx} =>
       /\ g'.out_tx = g'.dial_gen
       /\ \A s \in Gens : reader[s].pc # "none" => s < g'.out_tx]_vars

\* close() and a failed auth refresh are final: no dial_inner in progress gives
\* the session a socket again, and nothing clears `intentional`.
ClosedForGood ==
  [][g.intentional => g'.intentional /\ g'.out_tx \in {None, g.out_tx}]_vars

\* connect, on_socket_closed, handle_relocate, handle_auth_error and close()
\* together keep the contract of Connection about which socket is in place.
Sockets == INSTANCE Connection WITH
  dial_gen <- g.dial_gen, out_tx <- g.out_tx, over <- g.intentional,
  opened   <- {s \in Gens : reader[s].pc # "none"}
KeepsConnection == Sockets!Spec

\* publish and send_event go by session_ready.  No answer of the server, no lost
\* connection and no call leaves it up when the session loses its track; resume()
\* with an empty uid is the one that does.  (After resume() of another track it
\* stays up as well, before the server has answered.)
ReadyHasTrack ==
  [][g'.session_ready /\ g'.track_uid = None =>
       \/ g.session_ready /\ g.track_uid = None
       \/ \E p \in Procs : ManualRegister(p) /\ call[p].uid = None]_vars

\* A task that is going to dial, or whose dial is the newest one.
Works(d) ==
  \/ driver[d].pc \in {"sleep", "relocate", "dial", "failed"}
  \/ driver[d].pc \in {"closed", "connecting", "install"} /\ driver[d].gen = g.dial_gen

\* The session has a socket whose reader will notice its end, a task that
\* replaces the socket, or it is over.
Driven ==
  \/ g.out_tx # None /\ g.out_tx = g.dial_gen /\ reader[g.out_tx].pc # "done"
  \/ \E d \in Drivers : Works(d)
  \/ g.intentional \/ g.state = "Closed"
  \/ \E d \in Drivers : driver[d].pc = "gone"

\* handle_relocate, or handle_auth_error, drops the error of the newest dial.
DialErrorDropped ==
  \E d \in Drivers : /\ driver[d].origin = "ignore" /\ driver[d].gen = g.dial_gen
                     /\ DialFails(d)

\* "The SDK reconnects" (README): whoever dials, and whatever breaks, fails or is
\* overtaken, a session that is not closed keeps itself alive; the one step that
\* strands it is the failure of a dial whose error is dropped.
SessionStaysDriven == [][Driven => Driven' \/ DialErrorDropped]_vars

\* "A dropped socket is not a new trip.  The SDK reconnects" (README): a socket that
\* breaks under an open session is replaced, unless the session ends.
DroppedIsReplaced ==
  (g.out_tx # None /\ ~wire[g.out_tx].up) ~>
     ((g.out_tx # None /\ wire[g.out_tx].up) \/ g.intentional \/ g.state = "Closed")

\* "First `publish` starts the trip if none is live" (README): a sample that was
\* staged because a start is under way does not wait for ever: the track comes,
\* or the start is given up, or the session ends.
TripStarts ==
  (g.starting /\ g.queue.staging # <<>>) ~>
     (g.track_uid # None \/ ~g.starting \/ g.intentional \/ g.state = "Closed")

\* A start is under way on a socket that a dial is going to replace, and the dial
\* was planned without a Resume, there being no track then: after TRACK_NOT_FOUND
\* the reconnect task dials again while publish starts the next trip.
StartBehindDial ==
  g.starting /\ \E d \in Drivers : /\ driver[d].pc \in {"sleep", "dial", "connecting", "install"}
                                  /\ ~driver[d].resume

\* flush_queue after TrackStarted, ResumeOk and every Ack: while the track lives
\* and connections come back, the buffer empties in the end, also of the points
\* that were in flight on a lost connection.  (Whether the points that leave it
\* have reached the server is what AckedPointsArrived asks.)
QueueDrains ==
  <>StartBehindDial
    \/ [](g.track_uid # None => <>(Size(g.queue) = 0 \/ srv.live # g.track_uid))

\* A lost connection does not leave the track unbound for good: reconnect and
\* send_resume_and_wait end in ResumeOk, or in the track or the session's end.
ResumesAgain ==
  <>StartBehindDial \/ ((g.track_uid # None /\ ~g.session_ready) ~>
                          (g.track_uid = None \/ g.session_ready \/ g.intentional))

\* reject_pending_locked: close() lets no caller of start_track, stop_track or
\* publish hang, whatever answer it was waiting for on whichever socket.
CloseReleasesCallers ==
  (\E p \in Procs : call[p].pc = "close") ~> (\A p \in Procs : call[p].pc = "idle")
===============================================================================
