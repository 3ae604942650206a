# A verification of the PickPoint Rust SDK

TLA+ specifications of the parts of this SDK in which several tasks, sockets and a server
act on shared state: the live tracking session and the listener's session (`src/tracking/`),
the HTTP client whose access token is refreshed on demand (`src/auth.rs`, `src/transport.rs`,
`src/geocoding.rs`), and of the binary protocol that client and server must read alike
(`src/tracking/codec.rs`). TLC checks small instances. TLAPS proves, for every value of the
constants, the types, the bounds of the publish buffer, that both sessions implement an
abstract connection and the token session an abstract rotation, that the tracking session
keeps itself alive and, on one trip, its points under one number each, and that the
listener's tables and the server's agree.

Paths below are relative to the repository (`src/tracking/client.rs:654` is line 654 of that
file). `PROJECT.json` is the machine-readable index: it maps every definition to the lines it
models and lists runs, findings, hazards and theorems.

## 1. The system

### Components

| Component | Source | State | Operations |
|---|---|---|---|
| Tracking session | `tracking/client.rs` | `Inner` behind an async mutex: `state`, `track_uid`, assigned and acked sequence numbers, the queue, `session_ready`, `starting`, `intentional`, `dial_gen`, `out_tx`, three oneshot slots, `attempt` | `connect`, `publish`, `start_track`, `stop_track`, `resume`, `send_event`, `close`; `dial_inner`, the read loop, `dispatch`, `flush_queue`, `on_socket_closed`, `handle_relocate`, `handle_auth_error`, `send_resume_and_wait` |
| Offline queue | `tracking/queue.rs` | Staging, InFlight, the sent frame numbers | stage, enqueue, cap, assign, mark unsent, record a frame, ack |
| Loc frame encoding | `tracking/codec.rs` | none | splitting points into frames, numbering the frames |
| Binary codec | `tracking/codec.rs`, `tracking/cmd.rs` | none | writing and reading the bytes of each message, for both sides |
| Listener subscriptions | `tracking/client.rs` | subscriptions, sub handles, the event and command channels | `subscribe`, `unsubscribe`, `recv`, `recv_command`, `resubscribe` |
| Backoff, noise filter, rate gate, URL, errors, types | `tracking/{backoff,filter,rate,url,errors,types}.rs` | attempt counter; last kept point; last publish time | delays; which samples count; which samples are refused |
| Client token session | `auth.rs` | the token pair, its issue time, `refreshing`, a `Notify` | `token`, `refresh`, `do_refresh`, `refresh_after_unauthorized` |
| HTTP transport | `transport.rs` | per request: attempt, `auth_retried` | the retry and 401 loop of `do_request` |
| Geocoding batches | `geocoding.rs` | the stream of running requests | `run_batch` |
| HTTP facade, configuration, devices, routing, address, minting, errors | `client.rs`, `config.rs`, `devices.rs`, `routing.rs`, `address.rs`, `mint.rs`, `error.rs` | none of their own | one `do_request` each |

### Interactions

* **Calls and tasks share `Inner`.** Application tasks, dialing tasks and one read loop per
  socket lock the mutex for a few statements, release it, and await something (a socket, a
  delay, a oneshot). Everything hard about the session happens between two such sections.
* **Dialing tasks come from four places**: `connect`, the end of a socket
  (`on_socket_closed`), a `Relocate`, and an authentication error. They may run at the same
  time; `dial_gen` says which is the newest.
* **Read loops outlive their socket's importance.** A read loop dispatches whatever its
  socket still delivers. It never compares its socket with `dial_gen`.
* **Oneshot slots.** `start_wait`, `stop_wait` and `resume_wait` are single slots of
  `Inner`; a later caller replaces an earlier one, and the receiver of the earlier one fails.
* **A listener's handles belong to a socket.** The server gives each followed device a byte
  on each socket; the client keeps two tables, cleared when a socket is lost and when a new
  one asks again.
* **HTTP requests share one token session.** The first to find a token stale becomes the
  leader and posts the refresh token; the others wait on a `Notify` that stores nothing for
  those who come late. `run_batch` runs several requests in one task and drops all of them
  on the first error, wherever they stand.

### Hard behaviours and the properties that answer them

| Component | What can go wrong | Correct means |
|---|---|---|
| Session, publishing | a socket dies with frames in flight; acks are late; the buffer is full during a flush | `BufferBounded`, `InflightIsARun`, `SeqNamesOnePoint`, `AckedIsDone`, `QueueDrains`; `AckedPointsArrived` |
| Session, trips | start, stop, resume and errors race with reconnects | `OneTripOneTrack`, `ReadyHasTrack`; `TripStarts`, `NoTripSuperseded` |
| Session, dialing | several dials at once; failed and late dials; `close()` in between | `KeepsConnection`, `NewestSocketWins`, `ClosedForGood`, `SessionStaysDriven`, `ResumesAgain`; `DroppedIsReplaced` |
| Session, callers | oneshot senders replaced, lost or taken by another socket's loop | `CloseReleasesCallers` |
| Listener | handles reassigned by a reconnect; resubscription next to `subscribe` and `unsubscribe`; a full channel | `InStep`, `NamedRight`, `Unsubscribed`, `ServedAgain`, `KeepsConnection` |
| Queue and encoding | frames are numbered by position, points carry their own number | `InflightInOrder`, `FlushKeepsNumbers`, `FramesAreFull` |
| Codec | two writers and two readers written separately; integers narrowed; strings cut; newer peers | `ReadAsSent`, `CutIsRefused`, `NewerIsSkipped`, `FramesRenumber` |
| Token session | simultaneous 401s; a leader that fails or disappears; lost wake-ups and answers | `SingleFlight`, `LatchHasLeader`, `FreshTokenPresented`, `KeepsRotation`, `WaitersReturn`; `RequestsReturn` |
| Batches | one failing request among running ones | `FailedBatchIsOver` |

Properties after a semicolon state what a document or comment says and the code does not do:
see *Findings*. The full list of hazards, each at its line, is in `PROJECT.json`.

## 2. The modules

```
OfflineQueue ────► TrackingClient ─ ─ ─ ► Connection ◄ ─ ─ ─ Listener
    │                    │                    │                 │
    │► QueueUse          │► MCTrackingClient  │                 │► MCListener
    │   │► MCOfflineQueue│                    │                 │
    ▼   ▼                ▼                    ▼                 ▼
OfflineQueueProofs ► TrackingClientProofs   ContractProofs   ListenerProofs
    │                    │                    ¦
    ▼                    ├► TrackingClientSockets
QueueUseProofs           └► TrackingClientTrips
                                              ¦
HttpSession ─ ─ ─ ─ ─ ─ ─ ─ ─ ─ ─ ─ ─ ─ ► TokenRotation         Codec
    │► MCHttpSession                                            │
    ▼                                                           └► MCCodec
HttpSessionProofs
```

Solid arrows are `EXTENDS`; a dashed one is `INSTANCE … WITH`, a refinement mapping to an
abstract specification, about both of which `ContractProofs` proves facts. The session and the
HTTP client share no state (the tracking credentials come from a callback of the application),
so they are not composed. `Listener`
and `TrackingClient` are two uses of one type in the code, with one set of dialing rules;
both implement `Connection`.

**`OfflineQueue`** (`tracking/queue.rs`, `encode_loc_frames` in `tracking/codec.rs`, and the
critical section of `flush_queue`). Every method of the Rust type is an operator on a queue
value. `enforce_cap` first tries to drop a collinear staged point; which one depends on
floating-point geometry, so `EnforceCap` yields the *set* of possible results. Which points
fit behind one another in a frame (`micro_delta_fits`) is the constant relation `Fits`.
`FlushAssign`, `FlushEncode` and `FlushRecord` are the three parts of one round of
`flush_queue`.

**`TrackingClient`** (`tracking/client.rs`). One action is one critical section of the mutex,
or one point where a task awaits something else.

| TLA+ | Code |
|---|---|
| `g` | `Inner` (the fields named in the table above) |
| `call[p]` | an application task inside `publish`, `start_track`, `stop_track`, `resume`, `send_event`, `close` |
| `driver[d]` | a dialing task: where it is, who spawned it (`origin`), its generation |
| `reader[s]` | the read loop of socket `s`, with `dispatch` and `flush_queue` |
| `wire[s]` | socket `s`, named after the dial generation that opened it: two FIFO channels |
| `srv` | the tracking server (external): the live track, its acked number, all it stored |
| `left` | what remains of the instance's `Budget` |

| Actions | Code |
|---|---|
| `PublishBegin` … `PublishSend` | `publish`: auto-start, stage or number under the lock, send after it |
| `StartTrack`, `StartSend`, `StartFailed`; `StopTrack` … `StopFailed`; `CallReturns` | `start_track`, `stop_track`, `rx.await` |
| `ManualResume` … `ManualReturns` | `resume`: any uid (an empty or unknown one too) and any number (`ResumeArgs`), the one `resume_wait` slot, the retry |
| `SendEvent`, `EventSend` | `send_event` past its checks |
| `CloseBegin`, `CloseSend`, `Close` | `close` |
| `SocketClosed`, `Wake`, `ReconnectFailed` | `on_socket_closed` and the task it spawns |
| `HandleRelocate`; `GiveUpAuth`, `RefreshOk`, `RefreshErr` | `handle_relocate`; `handle_auth_error` |
| `Dial`, `DialHello`, `DialRelocated`, `DialFails`, `Install` | `dial_inner` |
| `ResumeRegister`, `ResumeSend`, `ResumeReturns`, `ResumeRetry` | `send_resume_and_wait` |
| `OnResumeOk`, `OnTrackStarted`, `OnTrackStopped`, `OnAck`, `OnError`, `OnRelocate` | the branches of `dispatch` |
| `FlushQueue`, `SendFrame` | a round of `flush_queue`: the locked part, then one `send_bin` per frame |
| `ReaderEnds` | the end of a read loop |
| `Server…`, `Drop` | the server and the network (external) |

`send_bin` to a dead socket is a choice: the writer task may still take the message, which is
then lost, or the channel is already closed and the call fails.

The server is modelled from how the client, its comments and the mock server of
`tests/tracking_reconnect.rs` and `tests/tracking_client.rs` use it: a `TrackStart` starts a
track and supersedes the live one, a `Resume` of the live track binds the socket and answers
with the acked number, point `k` of `n` in a `Loc` with number `s` counts as `s - n + k`, and
a `Loc` on an unbound socket is ignored. `Earlier` is the track an earlier run of the program
left live, which the new one may `resume()`, or no track.

**`Connection`** is what the session promises about its sockets, whoever dials and however
long it takes: each dial has its own generation, a socket is put in place at most once and
only by the newest dial, and a session that is over gets none. `TrackingClient!Sockets` and
`Listener!Sockets` map it: `dial_gen` and `out_tx` to themselves, `over` to `intentional`,
`opened` to the sockets that ever had a read loop.

**`Listener`** (`tracking/client.rs`). The same dialing rules for a client that follows
devices. `wire[s].table` is the server's table of handles on socket `s`; the device in an
`Added` or `Unsubscribe` message is not on the wire, it records whom the sender means.

| Actions | Code |
|---|---|
| `SubscribeBegin`, `SubscribeSend` | `subscribe`: remember under the lock, send after it |
| `UnsubscribeBegin`, `UnsubscribeSend` | `unsubscribe`: look the handle up under the lock, send it later |
| `Resubscribe`, `ResubscribeSend` | `resubscribe`: clear the tables, then one `send_bin` per device of a snapshot |
| `OnSubscribed`, `OnAdded` | `dispatch`: learn a handle; stamp an event with its device; `try_send` drops when the channel is full |
| `Recv`, `Close` | `recv`, `close` |

Three history variables name the cases in which the protocol itself leaves the outcome open:
`crossed` (a `Subscribed` of an older socket filled the tables of a newer one, or a handle
was sent on a socket that gave it to another device), `silent` (an `unsubscribe` for which
no handle was known yet, or which a resubscription under way overtakes) and `raced` (one task
subscribes to a device while another unsubscribes it: neither holds the lock while it sends,
so either message may go out first).

**`Codec`** (`tracking/codec.rs`). The field writers and readers, `encode_client_cmd`,
`encode_server_evt`, `decode_client` and `decode_server_evt`, type by type, over sequences of
small numbers: a byte has `Base` values, so that widths and overflows are those of the code
at a smaller scale. A reader is a cursor that stays failed once it has failed, as `?` does.

**`HttpSession`** (`auth.rs`, `transport.rs`, `geocoding.rs`). A request walks through
`token()`, the request, the answer, and when needed `refresh()`, as leader (`Lead`,
`ApiRefreshes`, `StorePair`, `Unlatch`, `NotifyWaiters`) or as waiter (`Follow`, `Park`,
`Woken`). A refresh fails before the server has rotated the pair (`RefreshFails`: the request
does not arrive, or is refused), after it (`RefreshLost`, `RefreshInvalid`), or because the
refresh token is spent. Token pairs are numbered in the order the server issues them. `MayRun` expresses
that two statements without an `await` between them cannot be separated by another request
of the same task, and on a single worker thread by no request at all.

**`TokenRotation`** is what that session promises about its pair: one request at a time
renews it, with the stored pair, and stores the answer before the next may begin; the server
takes a refresh token once. `HttpSession!Rotation` maps the holders to the requests between
raising and lowering `refreshing`, and `fetched` to an answer that has not been stored.

**`QueueUse`** is the queue under every order of its callers' critical sections (`Stage`,
`Live`, `FlushRound`, `Acked`, `Lost`), where backlogs and windows can be larger than inside
the whole client.

**`MC…`** give the constants values. `MCCodec` is a specification too: it sends one message of
any type to the reader of the other side, whole, cut at any byte, with bytes behind it, or
under another type byte.

A few operators are labelled *Faulty variant*. They are plausible mistakes in the operator
that follows them, used to confirm that each property of a passing run notices such a
mistake. No specification uses them.

## 3. What is checked

### Runs that pass

| Run | Instance | Shows |
|---|---|---|
| `queue` | backlog up to 5, window 2, frames of 2, points that fit no other | `FlushKeepsNumbers`: a round's frames carry exactly the points it marks as sent, under their own numbers, although the encoder numbers by position. `InflightInOrder`, on which it rests: InFlight ends at the last number assigned, without a gap, and unsent points stand behind sent ones. `FramesAreFull`: nothing lost, reordered or cut early |
| `trip` | 5 samples, cap 3, window 2; a lost connection, and one of: a failed dial, a refused start, a deferred `Resume`, a track the server forgets; fairness | `BufferBounded`, `InflightIsARun`, `SeqNamesOnePoint`, `AckedIsDone` across retransmission under the old numbers; `OneTripOneTrack`: on one trip no start reaches the server while a track is live; `SessionStaysDriven`; `QueueDrains`: the buffer empties in the end; `ResumesAgain`: the track is bound again |
| `sockets` | a sample, a `Relocate`, a lost connection, a credentials refresh, a failure and `close()`, up to three dials, `max_attempts` 1 | `NewestSocketWins`: only the newest dial installs its socket, once. `ClosedForGood`: no dial under way gives a closed session a socket. `KeepsConnection`: the session implements `Connection`. `SessionStaysDriven`: no step leaves an unclosed session without a task that dials and without a socket that is read, but the failure of the newest dial in a task that drops the error (`DialErrorDropped`). `TypeOK` |
| `calls` | two application tasks that start, stop, resume by hand (an earlier run's track, or an empty uid) and close, around a lost connection, an authentication error without a callback, or an event; fairness | `CloseReleasesCallers`: `close()` leaves no caller waiting. `ReadyHasTrack`: nothing but a `resume()` with an empty uid leaves `session_ready` set without a track |
| `listen` | two tasks and two devices, one of them in the configuration; subscribing and unsubscribing around a lost connection, a `Relocate`, a failed dial or `close()`; a channel of one event; fairness | `InStep`: server and tables agree on what is followed. `Unsubscribed`: nothing else is served. `NamedRight`: an event of the newest socket bears the device it is about, or none. `ServedAgain`: every subscription is served again, read or not. `KeepsConnection`; `TypeOK` (the channel stays within its capacity) |
| `wire` | every type of message with its fields at their limits | `ReadAsSent`: a message is read as what the protocol can carry of it, or refused, never as something else. `CutIsRefused`: no prefix of a message is a message. `NewerIsSkipped`: unknown types are skipped, those of the other direction refused. `FramesRenumber`: the points of a backlog come out under their own numbers |
| `refresh` | a batch of two requests and a lone one, on several threads; expiry, a proactive refresh, refreshes that fail in each way, network and client errors, a cancellation; fairness | `SingleFlight`; `KeepsRotation`: the requests implement `TokenRotation`. `LatchHasLeader`: the flag is up just as long as somebody is there to lower it, unless a leader was dropped. `FreshTokenPresented`: unless an answer was lost, a rotated refresh token is never posted. `FailedBatchIsOver`. `WaitersReturn`: every request returns that neither missed the notification nor waits for a dropped leader. `TypeOK` |

`ReadAsSent` is stated with the losses of the protocol written out (`MCCodec!Survives`): no
uid on `TrackStop`, `Loc` and `Event`; numbers modulo 2^32; strings cut at 4096 bytes; an
accuracy or interval capped at 16 bits; `Some(0)` read as `None` where 0 means absent; an
uid that is no uuid read as the nil uuid; and `encode_client_cmd` of a batch writes its first
frame only (`codec.rs:496`), which is why `flush_queue` calls `encode_loc_frames`.

### Bounds, and why they are enough

* `Budget` says how often the application calls and the network misbehaves; TLC explores
  *where* these events fall. One lost connection may hit any of the in-flight, acked,
  half-flushed or unanswered states, which is where the retransmission logic can err.
* `MaxQueue = 3`, `Window = 2`, `FrameCap = 2` with 5 samples: the cap is hit while
  points are in flight, a batch needs several frames, and the window fills. `Fits` lets the
  first samples share frames and keeps the last two apart, so frames also end early.
* `SeqSpace = 16` stands for 2^32. The session's runs stay below it; `wire` goes past it.
* `MaxGen` bounds the dials of a run, `Drivers` the dialing tasks that exist at once. In
  `trip` and `listen` there are enough of both for every loss and failure of the
  budget to be followed by a dial. In `sockets` the third dial is the last: three concurrent
  dials are all the orders of *older* and *newer* a generation check can confuse. In `calls`
  there is one dialing task at a time and one reconnect, enough for answers that arrive on
  another socket than the one that was asked.
* `Apart` names budgeted events of which a behaviour has one kind: in `trip` each failure
  comes with the lost connection, and in `calls` the lost connection, the authentication error
  and the event come each with all four calls, but not with one another.
* `trip` has one lost connection and no `Relocate`. With two connections lost, two reconnect
  tasks can make each other's `Resume` fail and dial in turns; such a run can consume any
  number of generations and would stop at the bound rather than in the code. Liveness after a
  `Relocate` is not checked; `QueueDrains` does fail there (see *Findings*). Safety on one trip
  is proved for any number of both.
* `ResumeArgs` in `calls` are an empty uid and the uid of an earlier run's track with a number
  ahead of what the server has acked: a session without a track, and one that gives numbers
  from where the application says. No sample is published there.
* `listen`: `Budgets` is a set of cases, so that one run covers each network event on its
  own next to both calls, and pairs of them next to one call. Two tasks let the two calls
  overlap; two devices and two handles are enough for a handle that changes its device. A
  `Relocate` together with a failing dial is left out: the session then stops dialing for
  good (see below).
* `wire`: `Base = 8`, strings of 3 bytes, frames of 3 points. All 1679 messages have their
  fields at the edges of their widths: the last value that fits, the first that does not,
  deltas of an `i16`, a character cut in two, a coordinate off the globe.
* `refresh`: `Limits` is a set of cases, each a few faults that may happen once. Three requests
  are a leader, a waiter, and one that comes late or becomes the next leader; a batch of two,
  both at once, and a request of another task are what threads can and cannot separate.
  `MaxRetries = 1` distinguishes a retried from a final failure.
* `MaxSeq = 7` in `queue` allows two full rounds and a live point. (`UseAssumption` keeps it
  below `SeqSpace`: the properties are about numbers a `u32` holds.)

`CHECK_DEADLOCK FALSE` in all runs: with the budget spent, a session that is closed or idle,
a client whose requests have returned, and a message that has been read, do rest.

### Fairness

`TrackingClient!FairSpec` and `Listener!FairSpec` add `WF_vars(Progress)`: while a call, a
dialing task, a read loop or the server *can* take a step, one of them does. Tokio runs ready
tasks; a delay ends; the server eventually answers what it has received. That is the weakest
form: nothing promises that a particular task is preferred, that the application calls again
(not even `recv`), or that a lost connection comes to pass. Since budgets are finite, this is
enough for every task to get its turn. `HttpSession!FairSpec` likewise adds weak fairness of
`\E r : Step(r)`; lost answers, expiries and cancellations are not fair.

### Findings

Each is a run with one property that a document or comment of the repository states, and
that TLC finds violated.

| Run | Property | What the code does |
|---|---|---|
| `starting` | `TripStarts` | `client.rs:979`: a lost connection takes the `TrackStart` with it and `starting` stays set; `publish` then stages for ever, although the session is open again |
| `newtrip` | `NoTripSuperseded` | `client.rs:541`: an `AUTH` error that arrives while a `Resume` is awaited counts as its fatal answer: the uid is forgotten, the dial after the credentials refresh resumes nothing, and the next `publish` starts a second track beside the live one |
| `stranded` | `DroppedIsReplaced` | `client.rs:462`: the error of the dial behind a `Relocate` (or, 644, a credentials refresh) is dropped; a socket that broke under it was not replaced either, because a newer dial had begun (661). Nothing dials any more |
| `acked` | `AckedPointsArrived` | `queue.rs:113`: `record_frame` of a live point marks unsent points below it as sent, and the ack of the live point drops them |
| `cancel` | `RequestsReturn` | `auth.rs:179`: a leader that is dropped leaves `refreshing` set; every later request waits for ever |

`PROJECT.json` quotes, for each, the line that says otherwise. Where a property of a passing run
touches one of these, the run does not keep out of it: the property names the exception.

* `SessionStaysDriven` excepts one step, `DialErrorDropped`: the newest dial fails in a task
  that drops the error. Every other step, in a run with that step behind it too, keeps a session
  that is alive alive.
* `OneTripOneTrack` holds for `OneTrip`; `NoTripSuperseded`, without that, is violated. `trip`
  goes past the end of a trip when the server forgets the track.
* `QueueDrains` and `ResumesAgain` except `StartBehindDial`: after `TRACK_NOT_FOUND` the reconnect
  task dials again, having no uid to resume, while `publish` starts a new track on the old
  socket. The new track is then never bound to the new socket.
* `WaitersReturn` excepts `Abandoned` (the finding `cancel`) and `MayMissWakeup`: on several
  threads `notify_waiters` can run between `drop(guard)` and `notified()` (`auth.rs:190`), and
  the waiter misses it.
* `ReadyHasTrack` excepts `resume("")`, which takes any string (`client.rs:937`).

The models have more behaviours that a maintainer should know of. Where a run keeps out of one
of them, it says so here.

* `client.rs:462`: `ServedAgain` fails as `stranded` does when `listen` has a `Relocate` and a
  failing dial in one budget.
* `client.rs:447`: a relocation or credentials refresh replaces the socket without
  `mark_unsent`; points in flight on the old one are not sent again, and `QueueDrains` fails
  with a `Relocate` in the budget of `trip`.
* `client.rs:480`, `473`: `dispatch` does not compare sockets. A `ResumeOk` of an old socket
  marks the new one ready before the server has bound it; a late `TrackStarted` can bring a
  superseded uid back; a late `Subscribed` fills the tables of the new socket (`crossed`).
* `client.rs:701`: a failed reconnect takes the generation that is *current* for its own,
  and may tear down a live socket that another task has installed. That socket stays open,
  and its read loop goes on dispatching.
* `client.rs:561`: after two lost connections two tasks may each send a `Resume` on the
  newest socket; if the server has forgotten the track, the second `TRACK_NOT_FOUND` clears
  `starting` and `publish` supersedes the track it has just started. `NoTripSuperseded` is
  violated this way too.
* `client.rs:611`, `646`: a session that gives up authentication does not reject its waiting
  callers; `close()` does. `CloseReleasesCallers` is about `close()`.
* `client.rs:303`: a dial that starts after `close()` sets the state to `Connecting` or
  `Reconnecting`: for good when a `Relocate` or a credentials refresh dialed, until it fails
  when a reconnect did.
* `client.rs:1149`: `close()` with an unanswered `TrackStart` sends no `TrackStop`.
* `client.rs:911`: `start_track` over a live track clears `session_ready`. When the server
  refuses it, or the send fails, the old track stays and is never marked ready again until
  the next reconnect.
* `client.rs:1019`: a live `publish` is numbered before points staged earlier.
* `client.rs:943`: a manual `resume()` may set `last_assigned_seq` back and keeps the queue,
  and of a session that was ready it keeps `session_ready`, before the server has answered.
* `client.rs:1133`: `unsubscribe` before `Subscribed` sends nothing, and the server goes on
  serving the device (`silent`).
* `client.rs:847`: `recv()` cannot return "receive channel closed": the `Client` holds a
  sender of its own.
* `auth.rs:228`: an invalid refresh answer fails the request with a code `is_auth()` does not
  know. `auth.rs:272`: a 401 for a token replaced meanwhile starts a second refresh.

## 4. What is proved

| Theorem | States |
|---|---|
| `TrackingClientProofs!TypeCorrect` | `Spec => []TypeOK` |
| `TrackingClientProofs!BufferStaysBounded` | `Spec => []BufferBounded`: Staging and InFlight together stay within `max_size`, and the unacked frames within the window |
| `TrackingClientProofs!ReadyOnlyOnTrack` | `Spec => ReadyHasTrack` |
| `TrackingClientSockets!ImplementsConnection` | `Spec => KeepsConnection`: the session implements `Connection` |
| `TrackingClientSockets!NewestWins`, `StaysClosed` | `Spec => NewestSocketWins`, `Spec => ClosedForGood` |
| `TrackingClientSockets!StaysDriven` | `Spec => SessionStaysDriven` |
| `TrackingClientTrips!RunOnOneTrip`, `AckedOnOneTrip` | `Spec => [](OneTrip => InflightIsARun)`, `Spec => [](OneTrip => AckedIsDone)` |
| `TrackingClientTrips!OneTrackOnOneTrip` | `Spec => OneTripOneTrack` |
| `TrackingClientTrips!OnePointPerNumber` | `Spec => [](OneTrip /\ g.last_assigned_seq < SeqSpace => SeqNamesOnePoint)` |
| `ContractProofs!NewestStays` | `Spec => []NewestInPlace`, of the abstract connection |
| `HttpSessionProofs!TypeCorrect` | `Spec => []TypeOK`, which bounds the retry counter by `max_retries` |
| `HttpSessionProofs!RefreshIsSingleFlight` | `Spec => []SingleFlight` |
| `HttpSessionProofs!LatchIsLed` | `Spec => []LatchHasLeader` |
| `HttpSessionProofs!ImplementsRotation` | `Spec => KeepsRotation`: the token session implements `TokenRotation` |
| `HttpSessionProofs!BatchIsOver`, `NewestTokenPresented` | `Spec => []FailedBatchIsOver`, `Spec => []FreshTokenPresented` |
| `ContractProofs!AtMostOneBehind`, `LostAnswerIsFinal` | of the abstract rotation: the stored pair is at most one behind the server's; once an answer is lost, no refresh succeeds any more |
| `ListenerProofs!TypeCorrect` | `Spec => []TypeOK`, which bounds the event channel |
| `ListenerProofs!ImplementsConnection` | `Spec => KeepsConnection`: so does a listener |
| `ListenerProofs!StampsRight` | `Spec => []NamedRight`, of the events of the newest socket, which bear the right name or none |
| `ListenerProofs!FollowsDevices`, `LeavesDevices` | `Spec => []InStep`, `Spec => []Unsubscribed` |
| `QueueUseProofs!StaysInOrder` | `Spec => []InflightInOrder` |
| `QueueUseProofs!NumbersKept` | `Spec => FlushKeepsNumbers` |
| `QueueUseProofs!FramesFull` | `Spec => []FramesAreFull` |

They hold for every set of samples, tasks, sockets, devices, handles, requests and batches,
and every cap, window, frame size, geometry and budget. The assumptions are `QueueAssumption`,
`ClientAssumption`, `ListenerAssumption` and `HttpAssumption`: the constants have their types,
caps are positive, and samples are numbered `1 .. Budget.publish`. `UseAssumption`, of the
three theorems about `QueueUse`, says that the numbers and the cap stay below `SeqSpace`:
`encode_loc_frames` casts to `u32`, and behind 2³² numbers would wrap. (`CodecAssumption` is that
of a module that is only checked.) TLC evaluates all of them on the runs.

**Buffer.** `BufferBounded` is not inductive on its own. `IInv` (in `TrackingClientProofs`)
adds the types; that a call about to stage or send holds a sample (`CallsOK`, from
`LeftOK`: no more samples are taken than there are); and that a read loop that is sending
has a frame left (`ReadersOK`). The argument rests on one lemma per queue operator in
`OfflineQueueProofs`: staging and enqueuing add one point and drop one when the cap is
exceeded (`PushStagingBounded`, `EnqueueBounded`); assigning moves points
between the lists (`FlushAssignMoves`); a round of `flush_queue` encodes no more frames than
the window has room for (`FlushEncodeFits`), and recording adds just those
(`FlushRecordBounded`); acks and lost sockets only remove (`AckThroughBounded`,
`MarkUnsentBounded`). `Invariance` then has one step per action.

**Numbers.** `QInv` (in `QueueUseProofs`) is `InflightInOrder` with the caps and the types; it
is inductive. The lemmas it rests on are in `OfflineQueueProofs`, where the session's proofs use
them too. An ack takes a head of InFlight away (`OrderlyAck`), `enforce_cap` its first point
(`OrderlyTail`), a live point goes behind the last one (`RunAppend`), a lost socket makes all of
it unsent (`OrderlyUnsent`), and `flush_queue` assigns numbers only when nothing unsent is left
(`AssignOrderly`). So the batch of a round is the end of InFlight (`BatchByPlace`), and counting
back from its last number gives each point its own: `NumberedByPlace` says what the server reads
from the frames, `SentByPlace` which points the queue marks, and `EncodeByPlace` compares the
two. Below these is the arithmetic of positions: `Position` inverts `Rank` and rises with it
(`PositionRises`), and the pieces between the ends of frames follow one another
(`PiecesFollow`).

**Full frames.** `FrameEnds` is defined with a function that refers to its own earlier values.
That there is one is proved from a least point without (`FirstExists`), which needs no
induction theorem; between two ends it is constant (`PieceFull`), from which follow the length
of a frame and why it ended.

**Readiness.** `ReadyHasTrack` says which steps may leave the session ready without a track: none
but a `resume()` with an empty uid. Readiness comes from two messages, and `Granted` says that
every `TrackStarted` and `ResumeOk` on its way names a track: the server answers with the track
it has, and never gives out uid 0 (`ServerStepGranted`). It does not matter what a `Resume`
asked for, so the application may pass anything. `RInv` is `Granted` with the types. All other
steps but `resume()` grant nothing (`GrantsNothing`): a session ready after them was ready before, on the same
track. The theorem does not say that the track is the one the readiness was granted for:
`resume()` of another track changes the uid under it.

**One trip.** What the session promises its points holds while nobody ends the track. `OneTrip`
says so: the application has published and sent events, and `start_track`, `stop_track`,
`resume` and `close` have not been called; no earlier run left a track behind; the server has
neither forgotten the track nor rejected the credentials. Everything else may happen any number of times, in any order and at
the same time: lost connections, relocations, failed dials, refused starts, resumes that are
deferred, several publishers. The hypothesis is not for convenience: by *Findings*, a `resume()`
by hand gives numbers a second time, and a `TRACK_NOT_FOUND` or an `AUTH` error can lead to a
second track beside a live one; a `start_track` over points in flight begins at number 1 again
while acks for the old numbers are still on their way. (`stop_track` and `close` end the trip.)
Acts once done stay done (`BudgetsFall`), so a state on one trip has only such states behind it,
and `OneTripOneTrack`, an action property, need only ask for `OneTrip` after the step.

`Trip`, the invariant, follows the one start. `PhaseOf` tells where it stands: nothing asked,
asked for, given by the server, known to the client. `UpOK` and `DownOK` say which messages
may be on their way in a phase, `PublisherOK`, `DialerOK` and `FlusherOK` what the tasks may be
doing, and `OneStart` that at most one task or message carries the start. Since only an answer
to it can bring a uid, a `Resume` names uid 1, the server never has another track to
supersede, and nothing carries a number before the track is on. With that, `Ordered` (the queue
is orderly and what is acked is not in flight) is inductive: every number on a wire or in a
round is at most `last_assigned_seq`, so an ack of any socket, however late, takes a head of
InFlight away.

**Names.** For `SeqNamesOnePoint` the invariant must say who carries which point under which
number: InFlight, a live publish about to send, the frames a flush round has still to send, the
frames on every socket, and the server's store. `Names` is the set of all these pairs, and
`NameInv` says that a number names one point and a point has one number (`OneName`), given out
by now (`GivenOut`), and that the points still waiting for theirs, in Staging or in a publish
that has not locked the mutex, are each in one place and have none (`Waiting`, `KeptApart`). Numbers
are given by two actions only, a live publish (`NamesAtLive`) and a round of `flush_queue`
(`NamesAtRound`); every other step moves names from one carrier to the next or loses some
(`NamesStay`). For the round, `RoundOrderly` says that its frames, which are numbered by
position, carry unsent points of InFlight under their own numbers; that is where `Ordered` is
needed. Frames carry numbers modulo `SeqSpace`, so the theorem is about the first 2³² numbers of
a trip; behind them the server really reads numbers a second time.

**Sockets.** A step of the session that installs a socket must be `Connection!Install`, whose
guard says that this generation was never in place. That needs `Fresh`: a dial that has taken
a generation is alone with it, the generation is one of those given out, and no read loop was
started under it. `SInv` is `Fresh` with the types; every action keeps it, and every action is
a step of `Connection` or leaves its variables alone. `NewestWins` and `StaysClosed` follow
from the same invariant. `ListenerProofs` has the same argument for the listener; there
`InPlace` adds that the socket in place is the newest that was ever read, which its tables need.

**A session that keeps itself alive.** `Driven` names who answers for a session that is not
over: a task on its way to a dial or back from a failed one, the newest dial, or the read loop
of the socket in place. `SessionStaysDriven` is about single steps, so the proof asks of each
what becomes of the one who answers before it. A task that has lost the race (its generation is
not the newest) may stop, because the newer dial answers; a read loop that ends hands over to
`SocketClosed`, and that either finds a newer dial or spawns a task; a dial that fails hands over
to the retry, unless its task drops the error, which is the exception. `Follows` and `Awake` say
what all other steps have in common: they leave the other tasks where they are and end no read
loop. The only invariant needed is `SInv`: a dial that takes a generation is the newest.

**The listener's tables.** An event carries a handle, and the device it is stamped with comes
from a table that other messages fill. `NInv` follows the messages of a socket in their order:
`Naming` says, of each position in what the server has sent, that the handles it uses mean
what the table will say when that position is read (`Named`); it holds for the newest socket
until something crosses it. `Unused` starts it off: a socket nobody reads has carried nothing.
For `InStep` and `Unsubscribed` the invariant must speak of devices whose `Subscribe` or
`Unsubscribe` is still in a task's hands, on the wire, or answered and unread. `Tracked` says
so for each device: a subscribed one is followed already, or a message or task that will bring
it about is under way and nothing behind it undoes it; one that is not is left, or will be.
`MInv` says what the tasks mean (a call that subscribes, and a resubscription, ask for devices
that are subscribed, unless `silent` or `raced` records why not), and `OneHandle` that the
server gives a device one handle. `TInv` is all of these with `NInv`.

**Single flight and rotation.** `SingleFlight` needs `FlagUp`: whoever is between raising and
lowering `refreshing` keeps the flag up, so nobody else passes `Lead`'s guard. Dropping a
request at any point only removes it from that region. For the rotation `Carries` adds what
the holder has in its hands: before the server answers the stored pair, after it the pair
that replaces it (`PInv`). `LatchIsLed` is the converse of `FlagUp`: a flag that is up has a
leader, or a request was dropped. A leader leaves its section only through `Unlatch`, which
every way a refresh can fail passes, or by being dropped (`LeaderStays`), and a dropped
request is never started again (`DroppedStays`).

**Batches and lost answers.** `HInv` adds `Ended`: only a request that is
done has an outcome, a running batch has no errors, a failed one no active request, and two
requests of a batch with an error are the same; and `Traced`: a stored pair that differs from
the server's is being replaced right now, or an answer was lost. The second one uses the
refinement: only `Lose` and `Release` of `TokenRotation` end a fetched answer without storing
it, and in the detailed session these are a lost or invalid answer and a dropped request.

**Only model-checked**: all liveness (fairness and `ENABLED` are beyond the prover),
`ServedAgain`, `QueueDrains` and `WaitersReturn` included; and the codec, whose readers and
writers are folds over the bytes, so that what they compute needs an induction over data. Of the
session, `InflightIsARun`, `AckedIsDone` and `SeqNamesOnePoint` are proved for one trip. Without
`OneTrip` they do not hold for every budget, for the reasons above; the run `trip` checks them
past the end of a trip too, when the server forgets one track and the client begins another.

## 5. What is not modelled, and why

* **The command channel** (`recv_command`, `ack_command`): filled and lost like the event
  channel, which is modelled.
* **Noise filter, rate gate** (`filter.rs`, `rate.rs`): floating-point geometry and the wall
  clock. A sample they refuse changes nothing the models keep, so the models' samples are
  those that pass.
* **Rounding of `f64`, text of uids**: the codec's coordinates are in the units of the wire,
  and a uid is a value.
* **Delays** (backoff, relocation, retry): arbitrary. The attempt counter and its limit are
  modelled.
* **Credentials, endpoints, URLs, bodies, headers, query building**: no property depends on
  them.
* **Static tokens and API keys**: never refreshed.
* **HTTP facade, devices, routing, address, minting, configuration**: one request or none,
  no state.
* **`push_inflight_unsent` and the peek methods of the queue**: nothing in the repository's
  client calls them.
* **A listener that also publishes**: `Inner` holds both halves, but they share only the
  dialing rules, the socket and the mutex; each module leaves the other half out.

## 6. Order of work, and what is left

Done, in this order: the queue; the session with its server, safety before liveness; the
token session and the batches; the bounds and single flight proved; `resume`, `send_event`
and explicit stops; `Connection` and `TokenRotation` with their refinements checked and
proved; the listener; the codec; what follows from the refinements; readiness proved; the
listener proved, with two tasks; the latch and the driven session proved; the queue's numbers
and frames proved; one trip, with its points and their numbers, proved.

Left: what of one trip is true again on the track behind it, once nothing of the old track is
on its way any more; a module for the rate gate with its refill over integer time.

## 7. Running it

```
tlc -config trip.cfg MCTrackingClient      # any run: see PROJECT.json for its module
tlapm TrackingClientSockets.tla
```

The longest runs (`trip`, `calls`, `listen`) take about two minutes each on two workers.
