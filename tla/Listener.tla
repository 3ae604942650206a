-------------------------------- MODULE Listener --------------------------------
(***************************************************************************)
(* A listener's tracking session (src/src/tracking/client.rs): which       *)
(* devices it follows, the one-byte handles the server gives them on each  *)
(* socket, the tables that map the two, and the channel its events reach   *)
(* the application by.                                                     *)
(*                                                                         *)
(*   call[p]    application task p inside subscribe, unsubscribe, recv or  *)
(*              close                                                      *)
(*   driver[d]  a task that dials: connect(), the task on_socket_closed    *)
(*              spawns, handle_relocate; it ends with resubscribe          *)
(*   reading    the sockets with a read loop; all of them are listened to  *)
(*   wire[s]    socket s, named after its dial generation, with the table  *)
(*              of handles the server keeps for it (external)              *)
(*                                                                         *)
(* Not modelled: tracks (a listener has none, so that no dial resumes),    *)
(* commands (a channel of their own, filled and lost like this one), a     *)
(* credentials refresh (it dials like a Relocate: module TrackingClient),  *)
(* and the limit on reconnect attempts.                                    *)
(***************************************************************************)
EXTENDS Integers, FiniteSets, Sequences

CONSTANTS
  Devices,   \* device uids
  Subs,      \* the handles a server can give, a byte in the code
  Subscribe, \* cfg.subscribe
  Procs,     \* application tasks sharing the Client
  Drivers,   \* slots for dialing tasks (bound)
  MaxGen,    \* bound on dial_gen
  MaxRecv,   \* capacity of the receive channel, 64 in the code
  Budgets    \* how often the application and the network may act: the cases

Acts == {"subscribe", "unsubscribe", "added", "close", "drop", "fail", "relocate"}
Unknown == "unknown"   \* no device, the empty uid
None    == 0           \* no socket, no handle

ASSUME ListenerAssumption ==
  /\ Subs \in SUBSET (Nat \ {0}) /\ Subscribe \in SUBSET Devices /\ Unknown \notin Devices
  /\ Drivers \in SUBSET Nat /\ Drivers # {}
  /\ MaxGen \in Nat \ {0} /\ MaxRecv \in Nat \ {0}
  /\ Budgets \subseteq [Acts -> Nat]

VARIABLES
  g, driver, call, reading, wire, recv, left,
  crossed,  \* history: sockets on which what belongs to another took effect
  silent,   \* history: devices of an unsubscribe the server cannot know of
  raced     \* history: devices subscribed and unsubscribed by two tasks at once
vars == <<g, driver, call, reading, wire, recv, left, crossed, silent, raced>>
history == <<crossed, silent, raced>>

Gens == 1 .. MaxGen

Inner == [state : {"Connecting", "Open", "Reconnecting", "Closed"}, intentional : BOOLEAN,
          dial_gen : 0 .. MaxGen, out_tx : 0 .. MaxGen,
          subscriptions : SUBSET Devices,
          sub_by_device : [Devices -> Subs \cup {None}],
          device_by_sub : [Subs -> Devices \cup {Unknown}]]

\* todo: the devices resubscribe has still to ask for.
Driver == [pc : {"idle", "gone", "closed", "sleep", "relocate", "dial", "connecting",
                 "install", "resubscribe", "send", "failed"},
           origin : {"connect", "reconnect", "ignore"}, gen : 0 .. MaxGen,
           todo : SUBSET Devices]

Call == [pc : {"idle", "subscribe", "unsubscribe"},
         device : Devices \cup {Unknown}, sub : Subs \cup {None}]

\* LocationAdded, EventAdded and DevicePresence are "Added".  An Added and an
\* Unsubscribe carry a handle only: their device says whom the sender means.
Msg == [type : {"Subscribe", "Unsubscribe", "Close", "Subscribed", "Added", "Relocate"},
        device : Devices \cup {Unknown}, sub : Subs \cup {None}]
M(type, device, sub) == [type |-> type, device |-> device, sub |-> sub]

Wire == [up : BOOLEAN, c2s : Seq(Msg), s2c : Seq(Msg),
         table : [Subs -> Devices \cup {Unknown}]]

TypeOK ==
  /\ g \in Inner
  /\ driver \in [Drivers -> Driver]
  /\ call \in [Procs -> Call]
  /\ reading \in [Gens -> {"none", "read", "done"}]
  /\ wire \in [Gens -> Wire]
  /\ recv \in Seq(Devices \cup {Unknown}) /\ Len(recv) <= MaxRecv
  /\ left \in [Acts -> Nat]
  /\ crossed \subseteq Gens /\ silent \subseteq Devices /\ raced \subseteq Devices

-----------------------------------------------------------------------------
NoSubs     == [s \in Subs |-> Unknown]
IdleDriver == [pc |-> "idle", origin |-> "ignore", gen |-> 0, todo |-> {}]
IdleCall   == [pc |-> "idle", device |-> Unknown, sub |-> None]
ClosedWire == [up |-> FALSE, c2s |-> <<>>, s2c |-> <<>>, table |-> NoSubs]
FirstDriver == CHOOSE d \in Drivers : \A e \in Drivers : d <= e

\* connect(): the subscriptions of the configuration, and the first dial.
Init ==
  /\ g = [state |-> "Connecting", intentional |-> FALSE, dial_gen |-> 0, out_tx |-> None,
          subscriptions |-> Subscribe, sub_by_device |-> [d \in Devices |-> None],
          device_by_sub |-> NoSubs]
  /\ driver = [d \in Drivers |->
       IF d = FirstDriver THEN [IdleDriver EXCEPT !.pc = "dial", !.origin = "connect"]
       ELSE IdleDriver]
  /\ call = [p \in Procs |-> IdleCall]
  /\ reading = [s \in Gens |-> "none"]
  /\ wire = [s \in Gens |-> ClosedWire]
  /\ recv = <<>>
  /\ left \in Budgets
  /\ crossed = {} /\ silent = {} /\ raced = {}

Spend(act) == left[act] > 0 /\ left' = [left EXCEPT ![act] = @ - 1]
Connected  == \A d \in Drivers : driver[d].origin # "connect"

Spawn(rec) ==
  \E d \in Drivers :
    /\ driver[d].pc = "idle"
    /\ \A e \in Drivers : driver[e].pc = "idle" => d <= e
    /\ driver' = [driver EXCEPT ![d] = rec]

Push(s, m) == [wire EXCEPT ![s].c2s = IF wire[s].up THEN Append(@, m) ELSE @]

\* send_bin: the current socket; a dead one may still take the message.
CanSend   == g.out_tx # None /\ ~(g.state = "Closed" /\ g.intentional)
Sent(m)   == CanSend /\ wire' = Push(g.out_tx, m)
SendFails == (CanSend => ~wire[g.out_tx].up) /\ UNCHANGED wire

-----------------------------------------------------------------------------
(* Application calls.                                                        *)

Calls(p, act, rec) ==
  /\ call[p].pc = "idle" /\ Connected
  /\ Spend(act)
  /\ call' = [call EXCEPT ![p] = rec]
\* Neither call holds the lock while it sends: which of two goes out first is open.
Races(device, pc) ==
  raced' = IF \E q \in Procs : call[q].pc = pc /\ call[q].device = device
           THEN raced \cup {device} ELSE raced
Returns(p) == call' = [call EXCEPT ![p] = IdleCall]

\* subscribe: remembered first, then sent.
SubscribeBegin(p, device) ==
  /\ Calls(p, "subscribe", [IdleCall EXCEPT !.pc = "subscribe", !.device = device])
  /\ g' = [g EXCEPT !.subscriptions = @ \cup {device}]
  /\ Races(device, "unsubscribe")
  /\ UNCHANGED <<driver, reading, wire, recv, crossed, silent>>

SubscribeSend(p) ==
  /\ call[p].pc = "subscribe"
  /\ Sent(M("Subscribe", call[p].device, None)) \/ SendFails
  /\ Returns(p)
  /\ UNCHANGED <<g, driver, reading, recv, left, history>>

\* unsubscribe: the handle is looked up now and sent later; without a handle
\* nothing is sent.
UnsubscribeBegin(p, device) ==
  /\ LET sub == g.sub_by_device[device]
     IN Calls(p, "unsubscribe",
              IF sub = None THEN IdleCall
              ELSE [pc |-> "unsubscribe", device |-> device, sub |-> sub])
  /\ g' = [g EXCEPT !.subscriptions = @ \ {device}, !.sub_by_device[device] = None]
  /\ silent' = IF g.sub_by_device[device] = None \/ \E d \in Drivers : device \in driver[d].todo
               THEN silent \cup {device} ELSE silent
  /\ Races(device, "subscribe")
  /\ UNCHANGED <<driver, reading, wire, recv, crossed>>

UnsubscribeSend(p) ==
  /\ call[p].pc = "unsubscribe"
  /\ Sent(M("Unsubscribe", call[p].device, call[p].sub)) \/ SendFails
  /\ Returns(p)
  /\ UNCHANGED <<g, driver, reading, recv, left, history>>

\* recv and its channel, which is never closed: the Client holds a sender of it.
Recv(p) ==
  /\ call[p].pc = "idle" /\ Connected /\ recv # <<>>
  /\ recv' = Tail(recv)
  /\ UNCHANGED <<g, driver, call, reading, wire, left, history>>

\* close: without a track there is nothing to stop and nobody to reject.
Close(p) ==
  /\ Calls(p, "close", IdleCall)
  /\ g' = [g EXCEPT !.intentional = TRUE, !.state = "Closed", !.out_tx = None]
  /\ wire' = IF g.out_tx = None THEN wire ELSE Push(g.out_tx, M("Close", Unknown, None))
  /\ UNCHANGED <<driver, reading, recv, history>>

CallStep(p) == SubscribeSend(p) \/ UnsubscribeSend(p)

NewCall(p) ==
  \/ \E device \in Devices : SubscribeBegin(p, device) \/ UnsubscribeBegin(p, device)
  \/ Recv(p) \/ Close(p)

-----------------------------------------------------------------------------
(* Dialing tasks.                                                            *)

Finish(d)   == driver' = [driver EXCEPT ![d] = IdleDriver]
Step(d, pc) == driver' = [driver EXCEPT ![d].pc = pc]
DialErr(d)  ==
  IF driver[d].origin = "ignore" THEN Finish(d)
  ELSE Step(d, IF driver[d].origin = "connect" THEN "gone" ELSE "failed")

ForgetHandles(i) == [i EXCEPT !.sub_by_device = [d \in Devices |-> None],
                              !.device_by_sub = NoSubs]

\* on_socket_closed(gen), the critical section of the spawned task.
SocketClosed(d) ==
  /\ driver[d].pc = "closed"
  /\ IF driver[d].gen # g.dial_gen
     THEN Finish(d) /\ UNCHANGED g
     ELSE /\ g' = [ForgetHandles(g) EXCEPT
                     !.out_tx = None,
                     !.state = IF g.intentional THEN "Closed" ELSE "Reconnecting"]
          /\ IF g.intentional THEN Finish(d) ELSE Step(d, "sleep")
  /\ UNCHANGED <<call, reading, wire, recv, left, history>>

Wake(d) ==
  /\ driver[d].pc = "sleep"
  /\ IF g.intentional THEN Finish(d) ELSE Step(d, "dial")
  /\ UNCHANGED <<g, call, reading, wire, recv, left, history>>

HandleRelocate(d) ==
  /\ driver[d].pc = "relocate"
  /\ IF g.intentional THEN DialErr(d) ELSE Step(d, "dial")
  /\ UNCHANGED <<g, call, reading, wire, recv, left, history>>

Dial(d) ==
  /\ driver[d].pc = "dial" /\ g.dial_gen < MaxGen
  /\ g' = [g EXCEPT !.dial_gen = @ + 1,
                    !.state = IF @ \in {"Open", "Reconnecting"}
                              THEN "Reconnecting" ELSE "Connecting"]
  /\ driver' = [driver EXCEPT ![d] = [@ EXCEPT !.pc = "connecting", !.gen = g.dial_gen + 1]]
  /\ UNCHANGED <<call, reading, wire, recv, left, history>>

DialHello(d) ==
  /\ driver[d].pc = "connecting"
  /\ Step(d, "install")
  /\ wire' = [wire EXCEPT ![driver[d].gen].up = TRUE]
  /\ UNCHANGED <<g, call, reading, recv, left, history>>

DialRelocated(d) ==
  /\ driver[d].pc = "connecting"
  /\ Spend("relocate")
  /\ Step(d, "relocate")
  /\ UNCHANGED <<g, call, reading, wire, recv, history>>

DialFails(d) ==
  /\ driver[d].pc = "connecting"
  /\ Spend("fail")
  /\ DialErr(d)
  /\ UNCHANGED <<g, call, reading, wire, recv, history>>

\* Faulty variant: the check forgets newer dials.
SupersededByClose(d) == g.intentional
Superseded(d) == driver[d].gen # g.dial_gen \/ g.intentional

Install(d) ==
  /\ driver[d].pc = "install"
  /\ LET s == driver[d].gen
     IN IF Superseded(d)
        THEN /\ DialErr(d)
             /\ wire' = [wire EXCEPT ![s] = ClosedWire]
             /\ UNCHANGED <<g, reading>>
        ELSE /\ g' = [g EXCEPT !.out_tx = s, !.state = "Open"]
             /\ reading' = [reading EXCEPT ![s] = "read"]
             /\ Step(d, "resubscribe")
             /\ UNCHANGED wire
  /\ UNCHANGED <<call, recv, left, history>>

\* Faulty variants: resubscribe goes back to the configuration, or adds it.
Configured == Subscribe
ConfiguredToo == g.subscriptions \cup Subscribe
Wanted == g.subscriptions

\* resubscribe, under the lock: the handles of the socket before are void.
Resubscribe(d) ==
  /\ driver[d].pc = "resubscribe"
  /\ g' = ForgetHandles(g)
  /\ IF Wanted = {} THEN Finish(d)
     ELSE driver' = [driver EXCEPT ![d] = [@ EXCEPT !.pc = "send", !.todo = Wanted]]
  /\ UNCHANGED <<call, reading, wire, recv, left, history>>

\* One Subscribe, on the socket current by now; an error is not looked at.
ResubscribeSend(d) ==
  /\ driver[d].pc = "send"
  /\ \E device \in driver[d].todo :
       /\ Sent(M("Subscribe", device, None)) \/ SendFails
       /\ IF driver[d].todo = {device} THEN Finish(d)
          ELSE driver' = [driver EXCEPT ![d].todo = @ \ {device}]
  /\ UNCHANGED <<g, call, reading, recv, left, history>>

ReconnectFailed(d) ==
  /\ driver[d].pc = "failed"
  /\ driver' = [driver EXCEPT ![d] = [@ EXCEPT !.pc = "closed", !.gen = g.dial_gen]]
  /\ UNCHANGED <<g, call, reading, wire, recv, left, history>>

DriverStep(d) ==
  \/ SocketClosed(d) \/ Wake(d) \/ HandleRelocate(d) \/ Dial(d) \/ DialHello(d)
  \/ DialRelocated(d) \/ DialFails(d) \/ Install(d) \/ Resubscribe(d)
  \/ ResubscribeSend(d) \/ ReconnectFailed(d)

-----------------------------------------------------------------------------
(* The read loop: dispatch.                                                  *)

Receives(s, type) ==
  reading[s] = "read" /\ wire[s].s2c # <<>> /\ Head(wire[s].s2c).type = type
Got(s)     == Head(wire[s].s2c)
Consume(s) == wire' = [wire EXCEPT ![s].s2c = Tail(@)]

\* Faulty variants: the read loop waits for room, or there is no bound.
DeliverWaits(device)   == Len(recv) < MaxRecv /\ recv' = Append(recv, device)
DeliverForced(device) == recv' = Append(recv, device)
\* try_send: an event the channel has no room for is lost.
Deliver(device) == recv' = IF Len(recv) < MaxRecv THEN Append(recv, device) ELSE recv

\* Faulty variant: a handle keeps the first device it was given to.
LearnOnce(i, device, sub) ==
  [i EXCEPT !.sub_by_device[device] = sub,
            !.device_by_sub[sub] = IF @ = Unknown THEN device ELSE @]
Learn(i, device, sub) ==
  [i EXCEPT !.sub_by_device[device] = sub, !.device_by_sub[sub] = device]

OnSubscribed(s) ==
  /\ Receives(s, "Subscribed")
  /\ g' = Learn(g, Got(s).device, Got(s).sub)
  /\ crossed' = crossed \cup {t \in Gens : t > s /\ reading[t] # "none"}
  /\ Deliver(Got(s).device) /\ Consume(s)
  /\ UNCHANGED <<driver, call, reading, left, silent, raced>>

\* The event is stamped with the device its handle stands for.
OnAdded(s) ==
  /\ Receives(s, "Added")
  /\ Deliver(g.device_by_sub[Got(s).sub])
  /\ Consume(s)
  /\ UNCHANGED <<g, driver, call, reading, left, history>>

OnRelocate(s) ==
  /\ Receives(s, "Relocate")
  /\ Spawn([IdleDriver EXCEPT !.pc = "relocate"])
  /\ Consume(s)
  /\ UNCHANGED <<g, call, reading, recv, left, history>>

ReaderEnds(s) ==
  /\ reading[s] = "read" /\ wire[s].s2c = <<>> /\ ~wire[s].up
  /\ reading' = [reading EXCEPT ![s] = "done"]
  /\ Spawn([IdleDriver EXCEPT !.pc = "closed", !.origin = "reconnect", !.gen = s])
  /\ UNCHANGED <<g, call, wire, recv, left, history>>

ReaderStep(s) == OnSubscribed(s) \/ OnAdded(s) \/ OnRelocate(s) \/ ReaderEnds(s)

-----------------------------------------------------------------------------
(* The server and the network (external).                                    *)

Quiet == UNCHANGED <<g, driver, call, reading, recv>>
Receiving(s, type) == wire[s].up /\ wire[s].c2s # <<>> /\ Head(wire[s].c2s).type = type
Answered(s) == [wire[s] EXCEPT !.c2s = Tail(@)]

\* A device keeps its handle on a socket; a new one gets any handle that is free.
ServerSubscribes(s) ==
  /\ Receiving(s, "Subscribe")
  /\ \E sub \in Subs :
       LET device == Head(wire[s].c2s).device
           table  == wire[s].table
       IN /\ IF \E h \in Subs : table[h] = device THEN table[sub] = device
             ELSE table[sub] = Unknown
          /\ wire' = [wire EXCEPT ![s] = [Answered(s) EXCEPT
                        !.table[sub] = device,
                        !.s2c = Append(@, M("Subscribed", device, sub))]]
  /\ Quiet /\ UNCHANGED <<left, history>>

ServerUnsubscribes(s) ==
  /\ Receiving(s, "Unsubscribe")
  /\ LET m == Head(wire[s].c2s)
     IN /\ wire' = [wire EXCEPT ![s] = [Answered(s) EXCEPT !.table[m.sub] = Unknown]]
        /\ crossed' = IF wire[s].table[m.sub] # m.device
                      THEN crossed \cup {s} ELSE crossed
  /\ Quiet /\ UNCHANGED <<left, silent, raced>>

ServerCloses(s) ==
  /\ Receiving(s, "Close")
  /\ wire' = [wire EXCEPT ![s] = [@ EXCEPT !.up = FALSE, !.c2s = <<>>, !.table = NoSubs]]
  /\ Quiet /\ UNCHANGED <<left, history>>

ServerAdds(s) ==
  /\ wire[s].up
  /\ Spend("added")
  /\ \E sub \in Subs :
       /\ wire[s].table[sub] # Unknown
       /\ wire' = [wire EXCEPT ![s].s2c = Append(@, M("Added", wire[s].table[sub], sub))]
  /\ Quiet /\ UNCHANGED history

ServerRelocates(s) ==
  /\ wire[s].up /\ reading[s] = "read"
  /\ Spend("relocate")
  /\ wire' = [wire EXCEPT ![s].s2c = Append(@, M("Relocate", Unknown, None))]
  /\ Quiet /\ UNCHANGED history

\* The connection breaks, with all that is in flight in both directions.
Drop(s) ==
  /\ wire[s].up
  /\ Spend("drop")
  /\ wire' = [wire EXCEPT ![s] = ClosedWire]
  /\ Quiet /\ UNCHANGED history

ServerStep(s)  == ServerSubscribes(s) \/ ServerUnsubscribes(s) \/ ServerCloses(s)
Environment(s) == ServerAdds(s) \/ ServerRelocates(s) \/ Drop(s)

Next ==
  \/ \E p \in Procs : NewCall(p) \/ CallStep(p)
  \/ \E d \in Drivers : DriverStep(d)
  \/ \E s \in Gens : ReaderStep(s) \/ ServerStep(s) \/ Environment(s)

Spec == Init /\ [][Next]_vars

\* What tokio and the server do by themselves; nobody has to call recv.
Progress ==
  \/ \E p \in Procs : CallStep(p)
  \/ \E d \in Drivers : DriverStep(d)
  \/ \E s \in Gens : ReaderStep(s) \/ ServerStep(s)

FairSpec == Spec /\ WF_vars(Progress)

-----------------------------------------------------------------------------
(* Properties.                                                               *)

\* Nothing is under way on the socket in place.
Settled(s) ==
  /\ g.out_tx = s /\ wire[s].up /\ wire[s].c2s = <<>> /\ wire[s].s2c = <<>>
  /\ \A d \in Drivers : driver[d].pc \in {"idle", "gone"}
  /\ \A p \in Procs : call[p].pc = "idle"

Followed(s, device) ==
  \E sub \in Subs : /\ wire[s].table[sub] = device
                    /\ g.device_by_sub[sub] = device
                    /\ g.sub_by_device[device] = sub

\* "Listener: subscribe these device UIDs after Hello (and again after
\* reconnect)" (Config): subscribe, unsubscribe, resubscribe and dispatch, in
\* any order over any number of sockets, leave each subscription served by the
\* server and both tables right about its handle, unless something of an older
\* socket has come across this one, or two tasks subscribed and unsubscribed the
\* device at the same time.
InStep ==
  \A s \in Gens : Settled(s) /\ s \notin crossed =>
    \A device \in g.subscriptions \ raced : Followed(s, device)

\* dispatch stamps an event with the device it is about or with none, as long as
\* it came by the newest socket and nothing of an older one has crossed it.
NamedRight ==
  \A s \in Gens \ crossed :
    /\ Receives(s, "Added")
    /\ \A t \in Gens : t > s => reading[t] = "none"
    =>
      g.device_by_sub[Got(s).sub] \in {Got(s).device, Unknown}

\* resubscribe after every reconnect: a device that stays subscribed is served
\* again, whether or not the application reads its events, unless one task
\* unsubscribed it while another subscribed it.
ServedAgain ==
  \A device \in Devices :
    [](device \in g.subscriptions =>
         <>(\/ device \notin g.subscriptions \ raced \/ ~Connected \/ g.intentional \/ crossed # {}
            \/ g.out_tx # None /\ Followed(g.out_tx, device)))

\* "Unsubscribe by the `sub` handle from `Subscribed`": once unsubscribe has
\* returned and nothing is under way, the server serves the device no more,
\* unless Subscribed had yet to come, a resubscribe was about to ask again, or
\* another task was subscribing it.
Unsubscribed ==
  \A s \in Gens : Settled(s) /\ s \notin crossed =>
    \A sub \in Subs : wire[s].table[sub] \in g.subscriptions \cup silent \cup raced \cup {Unknown}

\* The listener's sockets are kept as module Connection says.
Sockets == INSTANCE Connection WITH
  dial_gen <- g.dial_gen, out_tx <- g.out_tx, over <- g.intentional,
  opened   <- {s \in Gens : reading[s] # "none"}

\* dial, install and on_socket_closed of a listener, too: the newest socket wins,
\* and nothing is installed behind close().
KeepsConnection == Sockets!Spec
===============================================================================
