----------------------------- MODULE ListenerProofs -----------------------------
(***************************************************************************)
(* A listener is well typed and keeps its sockets as Connection says; its  *)
(* events are stamped with the right device; and once nothing is under way *)
(* every subscription is served and nothing else is.  For every number of  *)
(* devices, handles, tasks and sockets.                                    *)
(***************************************************************************)
EXTENDS Listener, SequenceTheorems, TLAPS

(* The inductive type invariant: what is asked for names a device, and a     *)
(* handle that is given, meant or withdrawn is one.                          *)
Fits(m) ==
  /\ m.type \in {"Subscribe", "Unsubscribe", "Subscribed", "Added"} => m.device \in Devices
  /\ m.type \in {"Unsubscribe", "Subscribed", "Added"} => m.sub \in Subs
FitMsg  == {m \in Msg : Fits(m)}
FitWire == [up : BOOLEAN, c2s : Seq(FitMsg), s2c : Seq(FitMsg),
            table : [Subs -> Devices \cup {Unknown}]]
FitCall == {c \in Call : /\ c.pc # "idle" => c.device \in Devices
                         /\ c.pc = "unsubscribe" => c.sub \in Subs}

DriversOK(f) == f \in [Drivers -> Driver]
CallsOK(f)   == f \in [Procs -> FitCall]
ReadingOK(f) == f \in [Gens -> {"none", "read", "done"}]
WiresOK(f)   == f \in [Gens -> FitWire]
RecvOK(q)    == q \in Seq(Devices \cup {Unknown}) /\ Len(q) <= MaxRecv
LeftOK(f)    == f \in [Acts -> Nat]
PastOK(a, b, c) == a \subseteq Gens /\ b \subseteq Devices /\ c \subseteq Devices

LInv == /\ g \in Inner /\ DriversOK(driver) /\ CallsOK(call) /\ ReadingOK(reading)
        /\ WiresOK(wire) /\ RecvOK(recv) /\ LeftOK(left) /\ PastOK(crossed, silent, raced)

-----------------------------------------------------------------------------
(* Constants.                                                                *)

LEMMA ConstantFacts ==
  /\ MaxGen \in Nat \ {0} /\ MaxRecv \in Nat \ {0} /\ Gens \subseteq Nat \ {0}
  /\ Subs \subseteq Nat \ {0} /\ None \notin Subs /\ None = 0 /\ None \notin Gens
  /\ Unknown \notin Devices /\ Subscribe \subseteq Devices
  /\ \A n \in 0 .. MaxGen : n # None => n \in Gens
BY ListenerAssumption DEF ListenerAssumption, Gens, None

\* The empty tables.
LEMMA NoHandles ==
  /\ NoSubs \in [Subs -> Devices \cup {Unknown}]
  /\ [d \in Devices |-> None] \in [Devices -> Subs \cup {None}]
BY DEF NoSubs

-----------------------------------------------------------------------------
(* Messages and sockets.                                                     *)

\* Every message the client or the server builds is one that fits.
LEMMA Built ==
  ASSUME NEW device \in Devices, NEW sub \in Subs
  PROVE  /\ M("Subscribe", device, None) \in FitMsg
         /\ M("Unsubscribe", device, sub) \in FitMsg
         /\ M("Subscribed", device, sub) \in FitMsg /\ M("Added", device, sub) \in FitMsg
         /\ M("Close", Unknown, None) \in FitMsg /\ M("Relocate", Unknown, None) \in FitMsg
<1> DEFINE types == {"Subscribe", "Unsubscribe", "Close", "Subscribed", "Added", "Relocate"}
<1>1. \A t \in types, d \in Devices \cup {Unknown}, h \in Subs \cup {None} :
         /\ M(t, d, h) \in Msg /\ M(t, d, h).type = t
         /\ M(t, d, h).device = d /\ M(t, d, h).sub = h
  BY DEF M, Msg
<1> QED BY <1>1 DEF FitMsg, Fits

\* The parts of a message.
LEMMA MsgParts ==
  ASSUME NEW m \in FitMsg
  PROVE  /\ Fits(m) /\ m.device \in Devices \cup {Unknown} /\ m.sub \in Subs \cup {None}
         /\ m.type \in {"Subscribe", "Unsubscribe", "Close", "Subscribed", "Added", "Relocate"}
BY DEF FitMsg, Msg

\* The parts of a socket.
LEMMA WireParts ==
  ASSUME NEW w, WiresOK(w), NEW s \in Gens
  PROVE  /\ w[s] \in FitWire /\ w[s].up \in BOOLEAN
         /\ w[s].c2s \in Seq(FitMsg) /\ w[s].s2c \in Seq(FitMsg)
         /\ w[s].table \in [Subs -> Devices \cup {Unknown}]
BY Zenon DEF WiresOK, FitWire

\* Changed fields of a socket.
LEMMA WireFields ==
  ASSUME NEW w \in FitWire, NEW a \in Seq(FitMsg), NEW b \in Seq(FitMsg), NEW x \in BOOLEAN,
         NEW t \in [Subs -> Devices \cup {Unknown}]
  PROVE  /\ [w EXCEPT !.c2s = a] \in FitWire /\ [w EXCEPT !.s2c = a] \in FitWire
         /\ [w EXCEPT !.up = x] \in FitWire /\ [w EXCEPT !.table = t] \in FitWire
         /\ [w EXCEPT !.c2s = a, !.table = t] \in FitWire
         /\ [w EXCEPT !.up = x, !.c2s = a, !.table = t] \in FitWire
         /\ [w EXCEPT !.c2s = a, !.s2c = b, !.table = t] \in FitWire
BY Zenon DEF FitWire

\* A changed socket is still a socket, whichever its number.
LEMMA WirePut ==
  ASSUME NEW w, WiresOK(w), NEW s, NEW v, s \in Gens => v \in FitWire
  PROVE  WiresOK([w EXCEPT ![s] = v])
BY Zenon DEF WiresOK

LEMMA ClosedWireType == ClosedWire \in FitWire
<1>1. <<>> \in Seq(FitMsg)
  OBVIOUS
<1> QED BY <1>1, NoHandles DEF ClosedWire, FitWire

\* Sending on a socket, live or dead.
LEMMA PushType ==
  ASSUME WiresOK(wire), NEW s, NEW m \in FitMsg
  PROVE  WiresOK(Push(s, m))
<1> DEFINE out == IF wire[s].up THEN Append(wire[s].c2s, m) ELSE wire[s].c2s
<1>1. s \in Gens => out \in Seq(FitMsg)
  BY WireParts
<1>2. s \in Gens => [wire[s] EXCEPT !.c2s = out] \in FitWire
  BY <1>1, WireParts, WireFields
<1>3. Push(s, m) = [wire EXCEPT ![s] = [wire[s] EXCEPT !.c2s = out]]
  BY Zenon DEF Push
<1> DEFINE v == [wire[s] EXCEPT !.c2s = out]
<1> HIDE DEF out, v
<1>4. WiresOK([wire EXCEPT ![s] = v])
  BY <1>2, WirePut DEF v
<1> QED BY <1>3, <1>4, Zenon DEF v

\* send_bin.
LEMMA SentType ==
  ASSUME WiresOK(wire), NEW m \in FitMsg, Sent(m) \/ SendFails
  PROVE  WiresOK(wire')
BY PushType DEF Sent, SendFails

\* The read loop takes the next message.
LEMMA ConsumeType ==
  ASSUME WiresOK(wire), NEW s \in Gens, wire[s].s2c # <<>>, Consume(s)
  PROVE  WiresOK(wire')
<1> DEFINE v == [wire[s] EXCEPT !.s2c = Tail(wire[s].s2c)]
<1>1. Tail(wire[s].s2c) \in Seq(FitMsg)
  BY WireParts
<1>2. v \in FitWire
  BY <1>1, WireParts, WireFields
<1>3. wire' = [wire EXCEPT ![s] = v]
  BY Zenon DEF Consume
<1> HIDE DEF v
<1> QED BY <1>2, <1>3, WirePut

\* The next message of the server fits.
LEMMA GotFits ==
  ASSUME WiresOK(wire), NEW s \in Gens, NEW type, Receives(s, type)
  PROVE  /\ wire[s].s2c # <<>> /\ reading[s] = "read" /\ Got(s) = wire[s].s2c[1]
         /\ Got(s) \in FitMsg /\ Got(s).type = type
<1>1. wire[s].s2c \in Seq(FitMsg) /\ wire[s].s2c # <<>> /\ Head(wire[s].s2c).type = type
      /\ reading[s] = "read"
  BY WireParts DEF Receives
<1> QED BY <1>1 DEF Got

\* The server answers the next message with the tables and answers it now has.
LEMMA AnswerType ==
  ASSUME WiresOK(wire), NEW s \in Gens, NEW type, Receiving(s, type)
  PROVE  /\ wire[s].c2s # <<>> /\ wire[s].up /\ Head(wire[s].c2s) = wire[s].c2s[1]
         /\ Head(wire[s].c2s) \in FitMsg /\ Head(wire[s].c2s).type = type
         /\ Tail(wire[s].c2s) \in Seq(FitMsg)
<1>1. wire[s].c2s \in Seq(FitMsg) /\ wire[s].c2s # <<>> /\ Head(wire[s].c2s).type = type
      /\ wire[s].up
  BY WireParts DEF Receiving
<1> QED BY <1>1

-----------------------------------------------------------------------------
(* The session record, calls, dialing tasks and the receive channel.         *)

\* The parts of the session record.
LEMMA InnerParts ==
  ASSUME NEW i \in Inner
  PROVE  /\ i.dial_gen \in 0 .. MaxGen /\ i.out_tx \in 0 .. MaxGen
         /\ i.subscriptions \subseteq Devices /\ i.intentional \in BOOLEAN
         /\ i.sub_by_device \in [Devices -> Subs \cup {None}]
         /\ i.device_by_sub \in [Subs -> Devices \cup {Unknown}]
         /\ i.state \in {"Connecting", "Open", "Reconnecting", "Closed"}
BY Zenon DEF Inner

\* Changed fields of the session record.
LEMMA InnerFields ==
  ASSUME NEW i \in Inner, NEW n \in 0 .. MaxGen, NEW o \in 0 .. MaxGen, NEW b \in BOOLEAN,
         NEW x \in {"Connecting", "Open", "Reconnecting", "Closed"}, NEW S \in SUBSET Devices,
         NEW f \in [Devices -> Subs \cup {None}], NEW h \in [Subs -> Devices \cup {Unknown}]
  PROVE  /\ [i EXCEPT !.subscriptions = S] \in Inner
         /\ [i EXCEPT !.subscriptions = S, !.sub_by_device = f] \in Inner
         /\ [i EXCEPT !.sub_by_device = f, !.device_by_sub = h] \in Inner
         /\ [i EXCEPT !.intentional = b, !.state = x, !.out_tx = o] \in Inner
         /\ [i EXCEPT !.out_tx = o, !.state = x] \in Inner
         /\ [i EXCEPT !.dial_gen = n, !.state = x] \in Inner
<1>1. /\ [i EXCEPT !.subscriptions = S] \in Inner
      /\ [i EXCEPT !.subscriptions = S, !.sub_by_device = f] \in Inner
      /\ [i EXCEPT !.sub_by_device = f, !.device_by_sub = h] \in Inner
  BY Zenon DEF Inner
<1>2. /\ [i EXCEPT !.intentional = b, !.state = x, !.out_tx = o] \in Inner
      /\ [i EXCEPT !.out_tx = o, !.state = x] \in Inner
      /\ [i EXCEPT !.dial_gen = n, !.state = x] \in Inner
  BY Zenon DEF Inner
<1> QED BY <1>1, <1>2

\* Forgotten handles.
LEMMA ForgetType ==
  ASSUME NEW i \in Inner
  PROVE  /\ ForgetHandles(i) \in Inner
         /\ ForgetHandles(i).device_by_sub = NoSubs
         /\ ForgetHandles(i).dial_gen = i.dial_gen /\ ForgetHandles(i).out_tx = i.out_tx
         /\ ForgetHandles(i).intentional = i.intentional
         /\ ForgetHandles(i).subscriptions = i.subscriptions
<1>1. ForgetHandles(i) \in Inner
  BY NoHandles, Zenon DEF ForgetHandles, Inner
<1>2. /\ ForgetHandles(i).device_by_sub = NoSubs
      /\ ForgetHandles(i).dial_gen = i.dial_gen /\ ForgetHandles(i).out_tx = i.out_tx
      /\ ForgetHandles(i).intentional = i.intentional
      /\ ForgetHandles(i).subscriptions = i.subscriptions
  BY Zenon DEF ForgetHandles, Inner
<1> QED BY <1>1, <1>2

\* What the table of a Subscribed message's handle becomes.
LEMMA LearnsHandle ==
  ASSUME NEW i \in Inner, NEW device \in Devices, NEW sub \in Subs
  PROVE  Learn(i, device, sub).device_by_sub = [i.device_by_sub EXCEPT ![sub] = device]
<1> DEFINE f == [i.sub_by_device EXCEPT ![device] = sub]
           h == [i.device_by_sub EXCEPT ![sub] = device]
<1>1. Learn(i, device, sub) = [i EXCEPT !.sub_by_device = f, !.device_by_sub = h]
  BY Zenon DEF Learn
<1> HIDE DEF f, h
<1>2. [i EXCEPT !.sub_by_device = f, !.device_by_sub = h].device_by_sub = h
  BY Zenon DEF Inner
<1> QED BY <1>1, <1>2, Zenon DEF h

\* A learned handle.
LEMMA LearnType ==
  ASSUME NEW i \in Inner, NEW device \in Devices, NEW sub \in Subs
  PROVE  /\ Learn(i, device, sub) \in Inner
         /\ Learn(i, device, sub).device_by_sub = [i.device_by_sub EXCEPT ![sub] = device]
         /\ Learn(i, device, sub).sub_by_device = [i.sub_by_device EXCEPT ![device] = sub]
         /\ Learn(i, device, sub).dial_gen = i.dial_gen
         /\ Learn(i, device, sub).out_tx = i.out_tx
         /\ Learn(i, device, sub).intentional = i.intentional
         /\ Learn(i, device, sub).subscriptions = i.subscriptions
<1> DEFINE f == [i.sub_by_device EXCEPT ![device] = sub]
           h == [i.device_by_sub EXCEPT ![sub] = device]
<1>1. f \in [Devices -> Subs \cup {None}] /\ h \in [Subs -> Devices \cup {Unknown}]
  BY InnerParts
<1>2. Learn(i, device, sub) = [i EXCEPT !.sub_by_device = f, !.device_by_sub = h]
  BY Zenon DEF Learn
<1> HIDE DEF f, h
<1>3. [i EXCEPT !.sub_by_device = f, !.device_by_sub = h] \in Inner
  BY <1>1, Zenon DEF Inner
<1>4. /\ [i EXCEPT !.sub_by_device = f, !.device_by_sub = h].device_by_sub = h
      /\ [i EXCEPT !.sub_by_device = f, !.device_by_sub = h].sub_by_device = f
      /\ [i EXCEPT !.sub_by_device = f, !.device_by_sub = h].dial_gen = i.dial_gen
      /\ [i EXCEPT !.sub_by_device = f, !.device_by_sub = h].out_tx = i.out_tx
      /\ [i EXCEPT !.sub_by_device = f, !.device_by_sub = h].intentional = i.intentional
      /\ [i EXCEPT !.sub_by_device = f, !.device_by_sub = h].subscriptions = i.subscriptions
  BY Zenon DEF Inner
<1> QED BY <1>2, <1>3, <1>4, Zenon DEF f, h

\* The record of one call.
LEMMA CallParts ==
  ASSUME CallsOK(call), NEW p \in Procs
  PROVE  /\ call[p].pc \in {"idle", "subscribe", "unsubscribe"}
         /\ call[p].pc # "idle" => call[p].device \in Devices
         /\ call[p].pc = "unsubscribe" => call[p].sub \in Subs
BY DEF CallsOK, FitCall, Call

\* A call begins or ends.
LEMMA CallPut ==
  ASSUME CallsOK(call), NEW p \in Procs, NEW c \in FitCall
  PROVE  CallsOK([call EXCEPT ![p] = c])
BY Zenon DEF CallsOK

LEMMA CallTypes ==
  ASSUME NEW device \in Devices, NEW sub \in Subs
  PROVE  /\ IdleCall \in FitCall
         /\ [IdleCall EXCEPT !.pc = "subscribe", !.device = device] \in FitCall
         /\ [pc |-> "unsubscribe", device |-> device, sub |-> sub] \in FitCall
BY DEF IdleCall, FitCall, Call

LEMMA IdleCallType == IdleCall \in FitCall
BY DEF IdleCall, FitCall, Call

\* A budget is spent.
LEMMA SpendType ==
  ASSUME LeftOK(left), NEW act \in Acts, Spend(act)
  PROVE  LeftOK(left')
BY DEF LeftOK, Spend

\* An event for the application, kept or lost.
LEMMA DeliverType ==
  ASSUME RecvOK(recv), NEW device \in Devices \cup {Unknown}, Deliver(device)
  PROVE  RecvOK(recv')
<1>1. Len(recv) \in Nat /\ Append(recv, device) \in Seq(Devices \cup {Unknown})
      /\ Len(Append(recv, device)) = Len(recv) + 1
  BY DEF RecvOK
<1> QED BY <1>1, ConstantFacts DEF RecvOK, Deliver

\* The record of one dialing task.
LEMMA DriverParts ==
  ASSUME DriversOK(driver), NEW d \in Drivers
  PROVE  /\ driver[d] \in Driver /\ driver[d].gen \in 0 .. MaxGen
         /\ driver[d].todo \subseteq Devices
BY Zenon DEF DriversOK, Driver

DriverPc == {"idle", "gone", "closed", "sleep", "relocate", "dial", "connecting",
             "install", "resubscribe", "send", "failed"}

\* Changed fields of one dialing task.
LEMMA DriverFields ==
  ASSUME NEW v \in Driver, NEW x \in DriverPc, NEW n \in 0 .. MaxGen, NEW S \in SUBSET Devices
  PROVE  /\ [v EXCEPT !.pc = x] \in Driver /\ [v EXCEPT !.todo = S] \in Driver
         /\ [v EXCEPT !.pc = x, !.gen = n] \in Driver
         /\ [v EXCEPT !.pc = x, !.todo = S] \in Driver
BY Zenon DEF Driver, DriverPc

LEMMA DriverPut ==
  ASSUME DriversOK(driver), NEW d, d \in Drivers, NEW v \in Driver
  PROVE  DriversOK([driver EXCEPT ![d] = v])
BY Zenon DEF DriversOK

LEMMA IdleDriverType ==
  /\ IdleDriver \in Driver /\ [IdleDriver EXCEPT !.pc = "relocate"] \in Driver
  /\ [IdleDriver EXCEPT !.pc = "dial", !.origin = "connect"] \in Driver
  /\ \A s \in Gens : [IdleDriver EXCEPT !.pc = "closed", !.origin = "reconnect", !.gen = s] \in Driver
<1>1. 0 \in 0 .. MaxGen /\ Gens \subseteq 0 .. MaxGen
  BY ConstantFacts DEF Gens
<1> QED BY <1>1 DEF IdleDriver, Driver

\* A task ends, moves on, or is spawned.
LEMMA FinishType ==
  ASSUME DriversOK(driver), NEW d \in Drivers, Finish(d)
  PROVE  DriversOK(driver')
BY IdleDriverType, DriverPut DEF Finish

LEMMA StepType ==
  ASSUME DriversOK(driver), NEW d \in Drivers, NEW x \in DriverPc, Step(d, x)
  PROVE  DriversOK(driver')
<1> DEFINE v == [driver[d] EXCEPT !.pc = x]
<1>1. v \in Driver
  BY DriverParts, Zenon DEF Driver, DriverPc
<1>2. driver' = [driver EXCEPT ![d] = v]
  BY Zenon DEF Step
<1> HIDE DEF v
<1> QED BY <1>1, <1>2, DriverPut

LEMMA DialErrType ==
  ASSUME DriversOK(driver), NEW d \in Drivers, DialErr(d)
  PROVE  DriversOK(driver')
<1>1. "gone" \in DriverPc /\ "failed" \in DriverPc
  BY DEF DriverPc
<1>2. \/ Finish(d) \/ Step(d, "gone") \/ Step(d, "failed")
  BY Zenon DEF DialErr
<1> QED BY <1>1, <1>2, StepType, FinishType

LEMMA SpawnType ==
  ASSUME DriversOK(driver), NEW v \in Driver, Spawn(v)
  PROVE  DriversOK(driver')
<1>1. PICK d \in Drivers : driver' = [driver EXCEPT ![d] = v]
  BY Zenon DEF Spawn
<1> QED BY <1>1, DriverPut

-----------------------------------------------------------------------------
(* The type invariant.                                                       *)

\* Calls that begin.
LEMMA CallsType ==
  ASSUME CallsOK(call), LeftOK(left), NEW p \in Procs, NEW act \in Acts, NEW c \in FitCall,
         Calls(p, act, c)
  PROVE  CallsOK(call') /\ LeftOK(left')
BY CallPut, SpendType DEF Calls

\* What two tasks do at once.
LEMMA RacesType ==
  ASSUME raced \subseteq Devices, NEW device \in Devices, NEW pc, Races(device, pc)
  PROVE  raced' \subseteq Devices
BY DEF Races

LEMMA SubscribeBeginType ==
  ASSUME LInv, NEW p \in Procs, NEW device \in Devices, SubscribeBegin(p, device)
  PROVE  LInv'
<1> DEFINE c == [IdleCall EXCEPT !.pc = "subscribe", !.device = device]
           S == g.subscriptions \cup {device}
<1>1. c \in FitCall
  BY DEF IdleCall, FitCall, Call
<1>2. Calls(p, "subscribe", c)
  BY Zenon DEF SubscribeBegin
<1> HIDE DEF c
<1>3. CallsOK(call') /\ LeftOK(left')
  BY <1>1, <1>2, CallsType DEF LInv, Acts
<1>4. S \in SUBSET Devices /\ g \in Inner
  BY InnerParts DEF LInv
<1>5. g' = [g EXCEPT !.subscriptions = S]
  BY Zenon DEF SubscribeBegin
<1> HIDE DEF S
<1>6. g' \in Inner
  BY <1>4, <1>5, Zenon DEF Inner
<1>7. raced' \subseteq Devices
  BY RacesType DEF LInv, PastOK, SubscribeBegin
<1> QED BY <1>3, <1>6, <1>7 DEF LInv, SubscribeBegin, DriversOK, ReadingOK, WiresOK, RecvOK, PastOK

LEMMA UnsubscribeBeginType ==
  ASSUME LInv, NEW p \in Procs, NEW device \in Devices, UnsubscribeBegin(p, device)
  PROVE  LInv'
<1> DEFINE sub == g.sub_by_device[device]
           r == [pc |-> "unsubscribe", device |-> device, sub |-> sub]
           c == IF sub = None THEN IdleCall ELSE r
           S == g.subscriptions \ {device}
           f == [g.sub_by_device EXCEPT ![device] = None]
<1>0. g \in Inner
  BY DEF LInv
<1>1. sub \in Subs \cup {None}
  BY <1>0, InnerParts
<1>2. c \in FitCall
  BY <1>1, CallTypes, IdleCallType
<1>3. Calls(p, "unsubscribe", c)
  BY Zenon DEF UnsubscribeBegin
<1>4. S \in SUBSET Devices /\ f \in [Devices -> Subs \cup {None}]
  BY <1>0, InnerParts
<1>5. g' = [g EXCEPT !.subscriptions = S, !.sub_by_device = f]
  BY Zenon DEF UnsubscribeBegin
<1>6. silent' \subseteq silent \cup {device}
  BY DEF UnsubscribeBegin
<1> HIDE DEF sub, r, c, S, f
<1>7. CallsOK(call') /\ LeftOK(left')
  BY <1>2, <1>3, CallsType DEF LInv, Acts
<1>8. g' \in Inner
  BY <1>0, <1>4, <1>5, Zenon DEF Inner
<1>9. raced' \subseteq Devices
  BY RacesType DEF LInv, PastOK, UnsubscribeBegin
<1> QED BY <1>6, <1>7, <1>8, <1>9
        DEF LInv, UnsubscribeBegin, DriversOK, ReadingOK, WiresOK, RecvOK, PastOK

LEMMA CloseType ==
  ASSUME LInv, NEW p \in Procs, Close(p)
  PROVE  LInv'
<1>0. g \in Inner
  BY DEF LInv
<1>1. CallsOK(call') /\ LeftOK(left')
  BY CallsType, IdleCallType DEF LInv, Acts, Close
<1>2. g' = [g EXCEPT !.intentional = TRUE, !.state = "Closed", !.out_tx = None]
  BY Zenon DEF Close
<1>3. None \in 0 .. MaxGen
  BY ConstantFacts DEF None
<1>4. g' \in Inner
  BY <1>0, <1>2, <1>3, Zenon DEF Inner
<1>5. M("Close", Unknown, None) \in FitMsg
  BY DEF M, FitMsg, Msg, Fits
<1>6. WiresOK(wire')
  BY <1>5, PushType DEF LInv, Close
<1> QED BY <1>1, <1>4, <1>6
        DEF LInv, Close, DriversOK, ReadingOK, RecvOK, PastOK, history

LEMMA NewCallType ==
  ASSUME LInv, NEW p \in Procs, NewCall(p)
  PROVE  LInv'
<1>1. ASSUME Recv(p) PROVE LInv'
  <2>1. RecvOK(recv')
    <3>1. recv \in Seq(Devices \cup {Unknown}) /\ recv # <<>> /\ Len(recv) <= MaxRecv
      BY <1>1 DEF LInv, RecvOK, Recv
    <3>2. Tail(recv) \in Seq(Devices \cup {Unknown}) /\ Len(Tail(recv)) = Len(recv) - 1
          /\ Len(recv) \in Nat
      BY <3>1
    <3> QED BY <1>1, <3>1, <3>2, ConstantFacts DEF Recv, RecvOK
  <2> QED BY <1>1, <2>1
          DEF LInv, Recv, DriversOK, CallsOK, ReadingOK, WiresOK, LeftOK, PastOK, history
<1> QED BY <1>1, SubscribeBeginType, UnsubscribeBeginType, CloseType DEF NewCall

LEMMA CallStepType ==
  ASSUME LInv, NEW p \in Procs, CallStep(p)
  PROVE  LInv'
<1>1. CallsOK(call')
  BY CallPut, IdleCallType DEF CallStep, SubscribeSend, UnsubscribeSend, Returns, LInv
<1>2. WiresOK(wire')
  <2>1. ASSUME SubscribeSend(p) PROVE WiresOK(wire')
    <3>1. M("Subscribe", call[p].device, None) \in FitMsg
      <4>1. call[p].device \in Devices
        BY <2>1, CallParts DEF LInv, SubscribeSend
      <4> QED BY <4>1 DEF M, FitMsg, Msg, Fits
    <3> QED BY <2>1, <3>1, SentType DEF LInv, SubscribeSend
  <2>2. ASSUME UnsubscribeSend(p) PROVE WiresOK(wire')
    <3>1. M("Unsubscribe", call[p].device, call[p].sub) \in FitMsg
      BY <2>2, CallParts, Built DEF LInv, UnsubscribeSend
    <3> QED BY <2>2, <3>1, SentType DEF LInv, UnsubscribeSend
  <2> QED BY <2>1, <2>2 DEF CallStep
<1> QED BY <1>1, <1>2 DEF LInv, CallStep, SubscribeSend, UnsubscribeSend, DriversOK, ReadingOK,
                          RecvOK, LeftOK, PastOK, history

\* Dialing tasks: their records,
LEMMA DriverStepDrivers ==
  ASSUME LInv, NEW d \in Drivers, DriverStep(d)
  PROVE  DriversOK(driver')
<1>0. DriversOK(driver) /\ g \in Inner /\ driver[d] \in Driver
  BY DriverParts DEF LInv
<1>1. \/ Finish(d) \/ DialErr(d)
      \/ \E x \in DriverPc : Step(d, x)
      \/ \E x \in DriverPc, n \in 0 .. MaxGen :
           driver' = [driver EXCEPT ![d] = [@ EXCEPT !.pc = x, !.gen = n]]
      \/ \E x \in DriverPc, S \in SUBSET Devices :
           driver' = [driver EXCEPT ![d] = [@ EXCEPT !.pc = x, !.todo = S]]
      \/ \E S \in SUBSET Devices : driver' = [driver EXCEPT ![d].todo = S]
  <2>1. {"sleep", "dial", "relocate", "install", "resubscribe", "closed", "connecting", "send"}
          \subseteq DriverPc
    BY DEF DriverPc
  <2>2. g.dial_gen \in 0 .. MaxGen /\ g.subscriptions \in SUBSET Devices
        /\ driver[d].todo \in SUBSET Devices
    BY <1>0, InnerParts, DriverParts
  <2>3. CASE Dial(d)
    <3>1. g.dial_gen + 1 \in 0 .. MaxGen
      BY <2>2, <2>3, ConstantFacts DEF Dial
    <3> QED BY <2>1, <2>3, <3>1, Zenon DEF Dial
  <2>4. CASE ResubscribeSend(d)
    <3>1. PICK device \in driver[d].todo :
            IF driver[d].todo = {device} THEN Finish(d)
            ELSE driver' = [driver EXCEPT ![d].todo = @ \ {device}]
      BY <2>4, Zenon DEF ResubscribeSend
    <3>2. driver[d].todo \ {device} \in SUBSET Devices
      BY <2>2
    <3> QED BY <3>1, <3>2, Zenon
  <2>5. CASE SocketClosed(d) \/ Wake(d) \/ HandleRelocate(d)
    BY <2>1, <2>5, Zenon DEF SocketClosed, Wake, HandleRelocate
  <2>6. CASE DialHello(d) \/ DialRelocated(d) \/ DialFails(d) \/ Install(d)
    BY <2>1, <2>6, Zenon DEF DialHello, DialRelocated, DialFails, Install
  <2>7. CASE Resubscribe(d) \/ ReconnectFailed(d)
    BY <2>1, <2>2, <2>7, Zenon DEF Resubscribe, ReconnectFailed, Wanted
  <2> QED BY <2>3, <2>4, <2>5, <2>6, <2>7 DEF DriverStep
<1>2. CASE Finish(d) \/ DialErr(d) \/ \E x \in DriverPc : Step(d, x)
  BY <1>0, <1>2, FinishType, DialErrType, StepType
<1>3. ASSUME NEW x \in DriverPc, NEW n \in 0 .. MaxGen, NEW S \in SUBSET Devices
      PROVE  /\ DriversOK([driver EXCEPT ![d] = [@ EXCEPT !.pc = x, !.gen = n]])
             /\ DriversOK([driver EXCEPT ![d] = [@ EXCEPT !.pc = x, !.todo = S]])
             /\ DriversOK([driver EXCEPT ![d].todo = S])
  <2> DEFINE u == [driver[d] EXCEPT !.pc = x, !.gen = n]
             v == [driver[d] EXCEPT !.pc = x, !.todo = S]
             w == [driver[d] EXCEPT !.todo = S]
  <2>1. u \in Driver /\ v \in Driver /\ w \in Driver
    BY <1>0, DriverFields
  <2>2. /\ [driver EXCEPT ![d] = [@ EXCEPT !.pc = x, !.gen = n]] = [driver EXCEPT ![d] = u]
        /\ [driver EXCEPT ![d] = [@ EXCEPT !.pc = x, !.todo = S]] = [driver EXCEPT ![d] = v]
        /\ [driver EXCEPT ![d].todo = S] = [driver EXCEPT ![d] = w]
    BY Zenon
  <2> HIDE DEF u, v, w
  <2>3. /\ DriversOK([driver EXCEPT ![d] = u]) /\ DriversOK([driver EXCEPT ![d] = v])
        /\ DriversOK([driver EXCEPT ![d] = w])
    BY <1>0, <2>1, DriverPut
  <2> QED BY <2>2, <2>3, Zenon
<1>4. ASSUME NEW x \in DriverPc, NEW n \in 0 .. MaxGen,
             driver' = [driver EXCEPT ![d] = [@ EXCEPT !.pc = x, !.gen = n]]
      PROVE  DriversOK(driver')
  BY <1>3, <1>4, Zenon
<1>5. ASSUME NEW x \in DriverPc, NEW S \in SUBSET Devices,
             \/ driver' = [driver EXCEPT ![d] = [@ EXCEPT !.pc = x, !.todo = S]]
             \/ driver' = [driver EXCEPT ![d].todo = S]
      PROVE  DriversOK(driver')
  <2>1. 0 \in 0 .. MaxGen
    BY ConstantFacts
  <2> QED BY <1>3, <1>5, <2>1, Zenon
<1>6. "send" \in DriverPc
  BY DEF DriverPc
<1> QED BY <1>1, <1>2, <1>4, <1>5, <1>6, Zenon

\* the session,
LEMMA DriverStepInner ==
  ASSUME LInv, NEW d \in Drivers, DriverStep(d)
  PROVE  g' \in Inner
<1>0. g \in Inner /\ g.dial_gen \in 0 .. MaxGen /\ driver[d].gen \in 0 .. MaxGen
      /\ None \in 0 .. MaxGen
  BY InnerParts, DriverParts, ConstantFacts DEF LInv, None
<1>1. CASE UNCHANGED g
  BY <1>0, <1>1
<1>2. CASE g' = ForgetHandles(g)
  BY <1>0, <1>2, ForgetType
<1>3. CASE SocketClosed(d)
  <2>1. CASE g' = [ForgetHandles(g) EXCEPT
                     !.out_tx = None,
                     !.state = IF g.intentional THEN "Closed" ELSE "Reconnecting"]
    <3>1. ForgetHandles(g) \in Inner
      BY <1>0, ForgetType
    <3> QED BY <1>0, <2>1, <3>1, Zenon DEF Inner
  <2> QED BY <1>1, <1>3, <2>1 DEF SocketClosed
<1>4. CASE Dial(d)
  <2>1. g.dial_gen + 1 \in 0 .. MaxGen
    BY <1>0, <1>4, ConstantFacts DEF Dial
  <2>2. g' = [g EXCEPT !.dial_gen = g.dial_gen + 1,
                       !.state = IF @ \in {"Open", "Reconnecting"}
                                 THEN "Reconnecting" ELSE "Connecting"]
    BY <1>4, Zenon DEF Dial
  <2> QED BY <1>0, <2>1, <2>2, Zenon DEF Inner
<1>5. CASE g' = [g EXCEPT !.out_tx = driver[d].gen, !.state = "Open"]
  BY <1>0, <1>5, Zenon DEF Inner
<1> QED BY <1>1, <1>2, <1>3, <1>4, <1>5
        DEF DriverStep, Wake, HandleRelocate, DialHello, DialRelocated, DialFails, Install,
            Resubscribe, ResubscribeSend, ReconnectFailed

\* and the sockets.
LEMMA DriverStepWires ==
  ASSUME LInv, NEW d \in Drivers, DriverStep(d)
  PROVE  WiresOK(wire')
<1>0. WiresOK(wire) /\ DriversOK(driver)
  BY DEF LInv
<1>1. CASE UNCHANGED wire
  BY <1>0, <1>1 DEF WiresOK
<1>2. CASE DialHello(d)
  <2> DEFINE s == driver[d].gen
             v == [wire[s] EXCEPT !.up = TRUE]
  <2>1. s \in Gens => v \in FitWire
    BY <1>0, WireParts, Zenon DEF FitWire
  <2>2. wire' = [wire EXCEPT ![s] = v]
    BY <1>2, Zenon DEF DialHello
  <2> HIDE DEF s, v
  <2> QED BY <1>0, <2>1, <2>2, WirePut
<1>3. CASE wire' = [wire EXCEPT ![driver[d].gen] = ClosedWire]
  BY <1>0, <1>3, ClosedWireType, WirePut
<1>4. CASE ResubscribeSend(d)
  <2>1. PICK device \in driver[d].todo : Sent(M("Subscribe", device, None)) \/ SendFails
    BY <1>4, Zenon DEF ResubscribeSend
  <2>2. device \in Devices
    BY <1>0, DriverParts
  <2>3. M("Subscribe", device, None) \in FitMsg
    BY <2>2 DEF M, FitMsg, Msg, Fits
  <2> QED BY <1>0, <2>1, <2>3, SentType
<1> QED BY <1>1, <1>2, <1>3, <1>4
        DEF DriverStep, SocketClosed, Wake, HandleRelocate, Dial, DialRelocated, DialFails,
            Install, Resubscribe, ReconnectFailed

LEMMA DriverStepType ==
  ASSUME LInv, NEW d \in Drivers, DriverStep(d)
  PROVE  LInv'
<1>1. ReadingOK(reading')
  <2>1. \/ UNCHANGED reading
        \/ reading' = [reading EXCEPT ![driver[d].gen] = "read"]
    BY Zenon DEF DriverStep, SocketClosed, Wake, HandleRelocate, Dial, DialHello, DialRelocated,
           DialFails, Install, Resubscribe, ResubscribeSend, ReconnectFailed
  <2> QED BY <2>1 DEF LInv, ReadingOK
<1>2. LeftOK(left')
  <2>1. UNCHANGED left \/ Spend("relocate") \/ Spend("fail")
    BY Zenon DEF DriverStep, SocketClosed, Wake, HandleRelocate, Dial, DialHello, DialRelocated,
           DialFails, Install, Resubscribe, ResubscribeSend, ReconnectFailed
  <2> QED BY <2>1, SpendType DEF LInv, LeftOK, Acts
<1>3. UNCHANGED <<call, recv, history>>
  BY Zenon DEF DriverStep, SocketClosed, Wake, HandleRelocate, Dial, DialHello, DialRelocated,
         DialFails, Install, Resubscribe, ResubscribeSend, ReconnectFailed
<1> QED BY <1>1, <1>2, <1>3, DriverStepDrivers, DriverStepInner, DriverStepWires
        DEF LInv, CallsOK, RecvOK, PastOK, history

\* The read loops.
LEMMA ReaderStepType ==
  ASSUME LInv, NEW s \in Gens, ReaderStep(s)
  PROVE  LInv'
<1>0. WiresOK(wire) /\ DriversOK(driver) /\ g \in Inner /\ RecvOK(recv)
  BY DEF LInv
<1>1. CASE OnSubscribed(s)
  <2>1. Got(s) \in FitMsg /\ Got(s).type = "Subscribed" /\ wire[s].s2c # <<>>
    BY <1>0, <1>1, GotFits DEF OnSubscribed
  <2>2. Got(s).device \in Devices /\ Got(s).sub \in Subs
    BY <2>1, MsgParts DEF Fits
  <2>3. g' \in Inner
    BY <1>0, <1>1, <2>2, LearnType DEF OnSubscribed
  <2>4. RecvOK(recv') /\ WiresOK(wire')
    BY <1>0, <1>1, <2>1, <2>2, DeliverType, ConsumeType DEF OnSubscribed
  <2>5. crossed' \subseteq crossed \cup Gens
    BY <1>1 DEF OnSubscribed
  <2> QED BY <1>1, <2>3, <2>4, <2>5
          DEF OnSubscribed, LInv, DriversOK, CallsOK, ReadingOK, LeftOK, PastOK
<1>2. CASE OnAdded(s)
  <2>1. Got(s) \in FitMsg /\ Got(s).type = "Added" /\ wire[s].s2c # <<>>
    BY <1>0, <1>2, GotFits DEF OnAdded
  <2>2. Got(s).sub \in Subs
    BY <2>1, MsgParts DEF Fits
  <2>3. g.device_by_sub[Got(s).sub] \in Devices \cup {Unknown}
    BY <1>0, <2>2, InnerParts
  <2>4. RecvOK(recv') /\ WiresOK(wire')
    BY <1>0, <1>2, <2>1, <2>3, DeliverType, ConsumeType DEF OnAdded
  <2> QED BY <1>2, <2>4
          DEF OnAdded, LInv, DriversOK, CallsOK, ReadingOK, LeftOK, PastOK, history
<1>3. CASE OnRelocate(s)
  <2>1. wire[s].s2c # <<>>
    BY <1>0, <1>3, GotFits DEF OnRelocate
  <2>2. DriversOK(driver') /\ WiresOK(wire')
    BY <1>0, <1>3, <2>1, IdleDriverType, SpawnType, ConsumeType DEF OnRelocate
  <2> QED BY <1>3, <2>2
          DEF OnRelocate, LInv, CallsOK, ReadingOK, RecvOK, LeftOK, PastOK, history
<1>4. CASE ReaderEnds(s)
  <2>1. DriversOK(driver')
    BY <1>0, <1>4, IdleDriverType, SpawnType DEF ReaderEnds
  <2>2. ReadingOK(reading')
    BY <1>4 DEF ReaderEnds, LInv, ReadingOK
  <2> QED BY <1>4, <2>1, <2>2
          DEF ReaderEnds, LInv, CallsOK, WiresOK, RecvOK, LeftOK, PastOK, history
<1> QED BY <1>1, <1>2, <1>3, <1>4 DEF ReaderStep

\* The server and the network.
LEMMA ServerWires ==
  ASSUME LInv, NEW s \in Gens, ServerStep(s) \/ Environment(s)
  PROVE  WiresOK(wire')
<1>0. /\ WiresOK(wire) /\ wire[s] \in FitWire /\ <<>> \in Seq(FitMsg)
      /\ wire[s].c2s \in Seq(FitMsg) /\ wire[s].s2c \in Seq(FitMsg)
      /\ wire[s].table \in [Subs -> Devices \cup {Unknown}]
  BY WireParts DEF LInv
<1>1. CASE ServerSubscribes(s)
  <2> DEFINE device == Head(wire[s].c2s).device
  <2>1. device \in Devices /\ Tail(wire[s].c2s) \in Seq(FitMsg)
    BY <1>0, <1>1, AnswerType, MsgParts DEF ServerSubscribes, Fits
  <2>2. PICK sub \in Subs :
          wire' = [wire EXCEPT ![s] = [Answered(s) EXCEPT
                     !.table[sub] = device,
                     !.s2c = Append(@, M("Subscribed", device, sub))]]
    BY <1>1, Zenon DEF ServerSubscribes
  <2> HIDE DEF device
  <2> DEFINE q == Append(wire[s].s2c, M("Subscribed", device, sub))
             t == [wire[s].table EXCEPT ![sub] = device]
             v == [wire[s] EXCEPT !.c2s = Tail(wire[s].c2s), !.s2c = q, !.table = t]
  <2>3. M("Subscribed", device, sub) \in FitMsg
    BY <2>1, Built
  <2>4. q \in Seq(FitMsg) /\ t \in [Subs -> Devices \cup {Unknown}]
    BY <1>0, <2>1, <2>3
  <2>5. [Answered(s) EXCEPT !.table[sub] = device,
                            !.s2c = Append(@, M("Subscribed", device, sub))] = v
    <3> DEFINE w == [wire[s] EXCEPT !.c2s = Tail(wire[s].c2s)]
    <3>1. w.table = wire[s].table /\ w.s2c = wire[s].s2c
      BY <1>0, Zenon DEF FitWire
    <3>2. Answered(s) = w
      BY Zenon DEF Answered
    <3>3. [w EXCEPT !.table = t, !.s2c = q] = v
      <4> HIDE DEF q, t
      <4> QED BY <1>0, Zenon DEF FitWire
    <3> QED BY <3>1, <3>2, <3>3, Zenon
  <2> HIDE DEF q, t
  <2>6. v \in FitWire
    BY <1>0, <2>1, <2>4, Zenon DEF FitWire
  <2> HIDE DEF v
  <2> QED BY <1>0, <2>2, <2>5, <2>6, WirePut
<1>2. CASE ServerUnsubscribes(s)
  <2> DEFINE m == Head(wire[s].c2s)
             t == [wire[s].table EXCEPT ![m.sub] = Unknown]
             v == [wire[s] EXCEPT !.c2s = Tail(wire[s].c2s), !.table = t]
  <2>1. m.sub \in Subs /\ Tail(wire[s].c2s) \in Seq(FitMsg)
    BY <1>0, <1>2, AnswerType, MsgParts DEF ServerUnsubscribes, Fits
  <2>2. t \in [Subs -> Devices \cup {Unknown}]
    BY <1>0, <2>1
  <2>3. wire' = [wire EXCEPT ![s] = [Answered(s) EXCEPT !.table[m.sub] = Unknown]]
    BY <1>2, Zenon DEF ServerUnsubscribes
  <2>4. [Answered(s) EXCEPT !.table[m.sub] = Unknown] = v
    <3> DEFINE w == [wire[s] EXCEPT !.c2s = Tail(wire[s].c2s)]
    <3>1. w.table = wire[s].table
      BY <1>0, Zenon DEF FitWire
    <3>2. Answered(s) = w
      BY Zenon DEF Answered
    <3>3. [w EXCEPT !.table = t] = v
      <4> HIDE DEF t
      <4> QED BY <1>0, Zenon DEF FitWire
    <3> QED BY <3>1, <3>2, <3>3, Zenon
  <2> HIDE DEF t
  <2>5. v \in FitWire
    BY <1>0, <2>1, <2>2, Zenon DEF FitWire
  <2> HIDE DEF v
  <2> QED BY <1>0, <2>3, <2>4, <2>5, WirePut
<1>3. CASE ServerCloses(s)
  <2>1. [wire[s] EXCEPT !.up = FALSE, !.c2s = <<>>, !.table = NoSubs] \in FitWire
    BY <1>0, NoHandles, WireFields
  <2> QED BY <1>0, <1>3, <2>1, Zenon DEF ServerCloses, WiresOK
<1>4. CASE ServerAdds(s)
  <2>1. PICK sub \in Subs :
          /\ wire[s].table[sub] # Unknown
          /\ wire' = [wire EXCEPT ![s].s2c =
                        Append(@, M("Added", wire[s].table[sub], sub))]
    BY <1>4, Zenon DEF ServerAdds
  <2> DEFINE q == Append(wire[s].s2c, M("Added", wire[s].table[sub], sub))
             v == [wire[s] EXCEPT !.s2c = q]
  <2>2. wire[s].table[sub] \in Devices
    BY <1>0, <2>1
  <2>3. q \in Seq(FitMsg)
    BY <1>0, <2>2, Built
  <2>4. wire' = [wire EXCEPT ![s] = v]
    BY <2>1, Zenon
  <2> HIDE DEF q
  <2>5. v \in FitWire
    BY <1>0, <2>3, WireFields
  <2> HIDE DEF v
  <2> QED BY <1>0, <2>4, <2>5, WirePut
<1>5. CASE ServerRelocates(s)
  <2> DEFINE q == Append(wire[s].s2c, M("Relocate", Unknown, None))
             v == [wire[s] EXCEPT !.s2c = q]
  <2>1. M("Relocate", Unknown, None) \in FitMsg
    BY DEF M, FitMsg, Msg, Fits
  <2>2. q \in Seq(FitMsg)
    BY <1>0, <2>1
  <2>3. wire' = [wire EXCEPT ![s] = v]
    BY <1>5, Zenon DEF ServerRelocates
  <2> HIDE DEF q
  <2>4. v \in FitWire
    BY <1>0, <2>2, WireFields
  <2> HIDE DEF v
  <2> QED BY <1>0, <2>3, <2>4, WirePut
<1>6. CASE Drop(s)
  BY <1>0, <1>6, ClosedWireType, WirePut DEF Drop
<1> QED BY <1>1, <1>2, <1>3, <1>4, <1>5, <1>6 DEF ServerStep, Environment

LEMMA ServerType ==
  ASSUME LInv, NEW s \in Gens, ServerStep(s) \/ Environment(s)
  PROVE  LInv'
<1>1. UNCHANGED <<g, driver, call, reading, recv>>
  BY Zenon DEF ServerStep, Environment, ServerSubscribes, ServerUnsubscribes, ServerCloses,
         ServerAdds, ServerRelocates, Drop, Quiet
<1>2. LeftOK(left')
  <2>1. UNCHANGED left \/ Spend("added") \/ Spend("relocate") \/ Spend("drop")
    BY Zenon DEF ServerStep, Environment, ServerSubscribes, ServerUnsubscribes, ServerCloses,
           ServerAdds, ServerRelocates, Drop
  <2> QED BY <2>1, SpendType DEF LInv, LeftOK, Acts
<1>3. /\ UNCHANGED <<silent, raced>>
      /\ crossed' \in {crossed, crossed \cup {s}}
  BY Zenon DEF ServerStep, Environment, ServerSubscribes, ServerUnsubscribes, ServerCloses,
         ServerAdds, ServerRelocates, Drop, history
<1>4. PastOK(crossed', silent', raced')
  BY <1>3 DEF LInv, PastOK
<1> QED BY <1>1, <1>2, <1>4, ServerWires DEF LInv, DriversOK, CallsOK, ReadingOK, RecvOK

LEMMA InitType == Init => LInv
<1> SUFFICES ASSUME Init PROVE LInv
  OBVIOUS
<1>1. g \in Inner
  <2>1. 0 \in 0 .. MaxGen
    BY ConstantFacts
  <2> QED BY <2>1, NoHandles, ConstantFacts DEF Init, Inner, None
<1>2. DriversOK(driver)
  <2> DEFINE first == [IdleDriver EXCEPT !.pc = "dial", !.origin = "connect"]
  <2>1. driver = [d \in Drivers |-> IF d = FirstDriver THEN first ELSE IdleDriver]
    BY Zenon DEF Init
  <2>2. first \in Driver /\ IdleDriver \in Driver
    BY IdleDriverType
  <2> HIDE DEF first
  <2> QED BY <2>1, <2>2 DEF DriversOK
<1>3. CallsOK(call) /\ WiresOK(wire)
  BY IdleCallType, ClosedWireType DEF Init, CallsOK, WiresOK
<1>4. ReadingOK(reading) /\ RecvOK(recv) /\ LeftOK(left) /\ PastOK(crossed, silent, raced)
  <2>1. left \in [Acts -> Nat]
    BY ListenerAssumption, Zenon DEF Init, ListenerAssumption
  <2>2. <<>> \in Seq(Devices \cup {Unknown}) /\ Len(<<>>) = 0
    OBVIOUS
  <2> QED BY <2>1, <2>2, ConstantFacts DEF Init, ReadingOK, RecvOK, LeftOK, PastOK
<1> QED BY <1>1, <1>2, <1>3, <1>4 DEF LInv

LEMMA StepsKeepLInv ==
  ASSUME LInv, [Next]_vars
  PROVE  LInv'
<1>1. ASSUME UNCHANGED vars PROVE LInv'
  BY <1>1 DEF vars, LInv, DriversOK, CallsOK, ReadingOK, WiresOK, RecvOK, LeftOK, PastOK
<1> QED BY <1>1, NewCallType, CallStepType, DriverStepType, ReaderStepType, ServerType DEF Next

LEMMA WellTyped == LInv => TypeOK
<1> SUFFICES ASSUME LInv PROVE TypeOK
  OBVIOUS
<1>1. call \in [Procs -> Call]
  BY DEF LInv, CallsOK, FitCall
<1>2. wire \in [Gens -> Wire]
  <2>1. FitMsg \subseteq Msg
    BY DEF FitMsg
  <2>2. Seq(FitMsg) \subseteq Seq(Msg)
    BY <2>1
  <2>3. FitWire \subseteq Wire
    BY <2>2 DEF FitWire, Wire
  <2> QED BY <2>3 DEF LInv, WiresOK
<1> QED BY <1>1, <1>2 DEF LInv, DriversOK, ReadingOK, RecvOK, LeftOK, PastOK, TypeOK

\* The tables, the sockets and the bounded receive channel of a listener keep
\* their types: no event is queued beyond the channel's capacity (try_send).
THEOREM TypeCorrect == Spec => []TypeOK
<1>1. LInv /\ [Next]_vars => LInv'
  BY StepsKeepLInv
<1> QED BY <1>1, InitType, WellTyped, PTL DEF Spec

-----------------------------------------------------------------------------
(* Dials and sockets: each dial in progress has a generation of its own that *)
(* no read loop belongs to yet, the socket in place is the newest that was,  *)
(* and a session that is over has none.                                      *)

DialingPc  == {"connecting", "install"}
Dialing(f) == {d \in Drivers : f[d].pc \in DialingPc}

Fresh(f, n, r) ==
  /\ \A d \in Dialing(f) : f[d].gen \in 1 .. n /\ r[f[d].gen] = "none"
  /\ \A d, e \in Dialing(f) : f[d].gen = f[e].gen => d = e
  /\ \A s \in Gens : r[s] # "none" => s <= n

InPlace(i, r) ==
  /\ i.out_tx # None => /\ r[i.out_tx] # "none"
                        /\ \A s \in Gens : r[s] # "none" => s <= i.out_tx
  /\ i.intentional => i.out_tx = None

SInv == LInv /\ Fresh(driver, g.dial_gen, reading) /\ InPlace(g, reading)

Abstract == [Sockets!Next]_(Sockets!connection)

\* The kinds of steps: those that leave the sockets alone or give one up, and
\* the two that begin and end a dial.
Settles(f, h)   == \A d \in Dialing(h) : d \in Dialing(f) /\ h[d].gen = f[d].gen
SamePhase(r, q) == \A s \in Gens : q[s] = "none" <=> r[s] = "none"
KeepsConn(i, j) == /\ j.dial_gen = i.dial_gen /\ (i.intentional => j.intentional)
                   /\ \/ j.out_tx = None
                      \/ j.out_tx = i.out_tx /\ j.intentional = i.intentional
Stays == Settles(driver, driver') /\ SamePhase(reading, reading') /\ KeepsConn(g, g')

\* What the abstract variables are.
LEMMA Mapped ==
  /\ Sockets!connection = <<g.dial_gen, g.out_tx, {s \in Gens : reading[s] # "none"},
                            g.intentional>>
  /\ Sockets!None = 0 /\ None = 0
BY DEF Sockets!connection, Sockets!None, None

LEMMA StaysKeeps ==
  ASSUME SInv, Stays, g' \in Inner
  PROVE  Fresh(driver', g'.dial_gen, reading') /\ InPlace(g', reading') /\ Abstract
<1>0. /\ Fresh(driver, g.dial_gen, reading) /\ InPlace(g, reading)
      /\ Settles(driver, driver') /\ g'.dial_gen = g.dial_gen
      /\ g.intentional => g'.intentional
      /\ \/ g'.out_tx = None
         \/ g'.out_tx = g.out_tx /\ g'.intentional = g.intentional
  BY DEF SInv, Stays, KeepsConn
<1>1. /\ g.dial_gen \in 0 .. MaxGen /\ MaxGen \in Nat
      /\ g'.intentional \in BOOLEAN /\ g.intentional \in BOOLEAN
      /\ g.out_tx \in 0 .. MaxGen
  BY InnerParts, ConstantFacts DEF SInv, LInv
<1>2. \A s \in Gens : reading'[s] = "none" <=> reading[s] = "none"
  BY DEF Stays, SamePhase
<1>3. 1 .. g.dial_gen \subseteq Gens
  BY <1>1 DEF Gens
<1>4. \A d \in Dialing(driver') : d \in Dialing(driver) /\ driver'[d].gen = driver[d].gen
  BY <1>0 DEF Settles
<1>5. Fresh(driver', g'.dial_gen, reading')
  BY <1>0, <1>2, <1>3, <1>4 DEF Fresh
<1>6. g.out_tx # None => g.out_tx \in Gens
  BY <1>1, ConstantFacts
<1>7. InPlace(g', reading')
  BY <1>0, <1>2, <1>6 DEF InPlace
<1>8. {s \in Gens : reading'[s] # "none"} = {s \in Gens : reading[s] # "none"}
  BY <1>2
<1>9. Abstract
  <2>1. CASE g'.out_tx = g.out_tx /\ g'.intentional = g.intentional
    BY <1>0, <1>8, <2>1 DEF Sockets!connection, Abstract
  <2>2. CASE g'.out_tx = None /\ g'.intentional = g.intentional
    BY <1>0, <1>8, <2>2, Mapped DEF Sockets!Lose, Sockets!Next, Abstract
  <2>3. CASE g'.out_tx = None /\ g'.intentional /\ ~g.intentional
    <3>1. g'.intentional = TRUE
      BY <1>1, <2>3
    <3> QED BY <1>0, <1>8, <2>3, <3>1, Mapped DEF Sockets!End, Sockets!Next, Abstract
  <2> QED BY <1>0, <1>1, <2>1, <2>2, <2>3
<1> QED BY <1>5, <1>7, <1>9

LEMMA SettlesPut ==
  ASSUME DriversOK(driver), NEW d, d \in Drivers, NEW v, driver' = [driver EXCEPT ![d] = v],
         v.pc \in DialingPc => driver[d].pc \in DialingPc /\ v.gen = driver[d].gen
  PROVE  Settles(driver, driver')
<1>1. \A e \in Drivers : driver'[e] = IF e = d THEN v ELSE driver[e]
  BY DEF DriversOK
<1> QED BY <1>1 DEF Settles, Dialing

LEMMA SettlesStep ==
  ASSUME DriversOK(driver), NEW d \in Drivers, NEW x,
         x \in DialingPc => driver[d].pc \in DialingPc, Step(d, x)
  PROVE  Settles(driver, driver')
<1> DEFINE v == [driver[d] EXCEPT !.pc = x]
<1>1. v.pc = x /\ v.gen = driver[d].gen
  BY DriverParts, Zenon DEF Driver
<1>2. driver' = [driver EXCEPT ![d] = v]
  BY Zenon DEF Step
<1> HIDE DEF v
<1> QED BY <1>1, <1>2, SettlesPut

LEMMA SettlesFinish ==
  ASSUME DriversOK(driver), NEW d \in Drivers, Finish(d)
  PROVE  Settles(driver, driver')
<1>1. IdleDriver.pc \notin DialingPc
  BY DEF IdleDriver, DialingPc
<1> QED BY <1>1, SettlesPut DEF Finish

LEMMA SettlesErr ==
  ASSUME DriversOK(driver), NEW d \in Drivers, DialErr(d)
  PROVE  Settles(driver, driver')
<1>1. "gone" \notin DialingPc /\ "failed" \notin DialingPc
  BY DEF DialingPc
<1>2. \/ Finish(d) \/ Step(d, "gone") \/ Step(d, "failed")
  BY Zenon DEF DialErr
<1> QED BY <1>1, <1>2, SettlesStep, SettlesFinish

LEMMA SettlesSpawn ==
  ASSUME DriversOK(driver), NEW v, v.pc \notin DialingPc, Spawn(v)
  PROVE  Settles(driver, driver')
<1>1. PICK d \in Drivers : driver' = [driver EXCEPT ![d] = v]
  BY Zenon DEF Spawn
<1> QED BY <1>1, SettlesPut

LEMMA Unmoved ==
  /\ UNCHANGED driver => Settles(driver, driver')
  /\ UNCHANGED reading => SamePhase(reading, reading')
  /\ UNCHANGED g => KeepsConn(g, g')
BY DEF Settles, SamePhase, KeepsConn

LEMMA CallsStay ==
  ASSUME SInv, NEW p \in Procs, NewCall(p) \/ CallStep(p)
  PROVE  Stays
<1>0. g \in Inner
  BY DEF SInv, LInv
<1>1. UNCHANGED <<driver, reading>>
  BY DEF NewCall, SubscribeBegin, UnsubscribeBegin, Recv, Close, CallStep, SubscribeSend,
         UnsubscribeSend
<1>2. \/ UNCHANGED g
      \/ \E S : g' = [g EXCEPT !.subscriptions = S]
      \/ \E S, f : g' = [g EXCEPT !.subscriptions = S, !.sub_by_device = f]
      \/ g' = [g EXCEPT !.intentional = TRUE, !.state = "Closed", !.out_tx = None]
  <2>1. CASE \E device \in Devices : SubscribeBegin(p, device)
    BY <2>1, Zenon DEF SubscribeBegin
  <2>2. CASE \E device \in Devices : UnsubscribeBegin(p, device)
    BY <2>2, Zenon DEF UnsubscribeBegin
  <2>3. CASE Recv(p) \/ Close(p) \/ CallStep(p)
    BY <2>3, Zenon DEF Recv, Close, CallStep, SubscribeSend, UnsubscribeSend
  <2> QED BY <2>1, <2>2, <2>3 DEF NewCall
<1>3. KeepsConn(g, g')
  <2>1. ASSUME NEW S, g' = [g EXCEPT !.subscriptions = S] PROVE KeepsConn(g, g')
    BY <1>0, <2>1, Zenon DEF Inner, KeepsConn
  <2>2. ASSUME NEW S, NEW f, g' = [g EXCEPT !.subscriptions = S, !.sub_by_device = f]
        PROVE  KeepsConn(g, g')
    BY <1>0, <2>2, Zenon DEF Inner, KeepsConn
  <2>3. ASSUME g' = [g EXCEPT !.intentional = TRUE, !.state = "Closed", !.out_tx = None]
        PROVE  KeepsConn(g, g')
    BY <1>0, <2>3, Zenon DEF Inner, KeepsConn
  <2> QED BY <1>2, <2>1, <2>2, <2>3, Unmoved, Zenon
<1> QED BY <1>1, <1>3, Unmoved DEF Stays

LEMMA ServerStays ==
  ASSUME NEW s \in Gens, ServerStep(s) \/ Environment(s)
  PROVE  Stays
<1>1. UNCHANGED <<g, driver, reading>>
  BY Zenon DEF ServerStep, Environment, ServerSubscribes, ServerUnsubscribes, ServerCloses,
         ServerAdds, ServerRelocates, Drop, Quiet
<1> QED BY <1>1, Unmoved DEF Stays

LEMMA ReaderStays ==
  ASSUME SInv, NEW s \in Gens, ReaderStep(s)
  PROVE  Stays
<1>0. g \in Inner /\ DriversOK(driver) /\ WiresOK(wire) /\ ReadingOK(reading)
  BY DEF SInv, LInv
<1>1. CASE OnSubscribed(s)
  <2>1. Got(s).device \in Devices /\ Got(s).sub \in Subs
    BY <1>0, <1>1, GotFits, MsgParts DEF OnSubscribed, Fits
  <2>2. KeepsConn(g, g')
    BY <1>0, <1>1, <2>1, LearnType DEF OnSubscribed, KeepsConn
  <2> QED BY <1>1, <2>2, Unmoved DEF OnSubscribed, Stays
<1>2. CASE OnAdded(s)
  BY <1>2, Unmoved DEF OnAdded, Stays
<1>3. CASE OnRelocate(s)
  <2>1. [IdleDriver EXCEPT !.pc = "relocate"].pc \notin DialingPc
    BY DEF IdleDriver, DialingPc
  <2> QED BY <1>0, <1>3, <2>1, SettlesSpawn, Unmoved DEF OnRelocate, Stays
<1>4. CASE ReaderEnds(s)
  <2>1. [IdleDriver EXCEPT !.pc = "closed", !.origin = "reconnect", !.gen = s].pc
          \notin DialingPc
    BY DEF IdleDriver, DialingPc
  <2>2. SamePhase(reading, reading')
    BY <1>0, <1>4 DEF ReaderEnds, SamePhase, ReadingOK
  <2> QED BY <1>0, <1>4, <2>1, <2>2, SettlesSpawn, Unmoved DEF ReaderEnds, Stays
<1> QED BY <1>1, <1>2, <1>3, <1>4 DEF ReaderStep

\* Dial: a generation of its own.
LEMMA DialDials ==
  ASSUME SInv, NEW d \in Drivers, Dial(d)
  PROVE  Fresh(driver', g'.dial_gen, reading') /\ InPlace(g', reading') /\ Abstract
<1>0. /\ g \in Inner /\ DriversOK(driver) /\ driver[d] \in Driver
      /\ Fresh(driver, g.dial_gen, reading) /\ InPlace(g, reading) /\ UNCHANGED reading
      /\ g.dial_gen \in Nat /\ g.dial_gen < MaxGen /\ MaxGen \in Nat
  BY DriverParts, InnerParts, ConstantFacts DEF SInv, LInv, Dial
<1> DEFINE n == g.dial_gen + 1
           v == [driver[d] EXCEPT !.pc = "connecting", !.gen = n]
<1>1. v.gen = n /\ v.pc = "connecting"
  BY <1>0, Zenon DEF Driver
<1>2. driver' = [driver EXCEPT ![d] = v]
  BY Zenon DEF Dial
<1>3. g'.dial_gen = n /\ g'.out_tx = g.out_tx /\ g'.intentional = g.intentional
  BY <1>0, Zenon DEF Dial, Inner
<1> HIDE DEF v
<1>4. \A e \in Drivers : driver'[e] = IF e = d THEN v ELSE driver[e]
  BY <1>0, <1>2 DEF DriversOK
<1>5. n \in Gens /\ reading[n] = "none"
  <2>1. n \in Gens /\ ~(n <= g.dial_gen)
    BY <1>0 DEF Gens
  <2> QED BY <1>0, <2>1 DEF Fresh
<1>6. Fresh(driver', g'.dial_gen, reading')
  <2>1. d \in Dialing(driver')
    BY <1>1, <1>4 DEF Dialing, DialingPc
  <2>2. \A e \in Dialing(driver') : e # d => e \in Dialing(driver) /\ driver'[e] = driver[e]
    BY <1>4 DEF Dialing
  <2>3. \A e \in Dialing(driver') : e # d => driver'[e].gen \in 1 .. g.dial_gen
    BY <1>0, <2>2 DEF Fresh
  <2>4. driver'[d].gen = n
    BY <1>1, <1>4
  <2>5. \A e \in Dialing(driver') : driver'[e].gen \in 1 .. n /\ reading[driver'[e].gen] = "none"
    BY <1>0, <1>5, <2>2, <2>3, <2>4 DEF Fresh
  <2>6. \A e, h \in Dialing(driver') : driver'[e].gen = driver'[h].gen => e = h
    BY <1>0, <2>2, <2>3, <2>4 DEF Fresh
  <2>7. \A s \in Gens : reading[s] # "none" => s <= n
    <3>1. \A s \in Gens : s \in Nat /\ (reading[s] # "none" => s <= g.dial_gen)
      BY <1>0, ConstantFacts DEF Fresh
    <3> QED BY <1>0, <3>1
  <2> QED BY <1>0, <1>3, <2>5, <2>6, <2>7 DEF Fresh
<1>7. InPlace(g', reading')
  BY <1>0, <1>3 DEF InPlace
<1>8. Sockets!Dial
  BY <1>0, <1>3, Mapped DEF Sockets!Dial
<1> QED BY <1>6, <1>7, <1>8 DEF Abstract, Sockets!Next

\* Install: the newest dial, or none.
LEMMA InstallInstalls ==
  ASSUME SInv, NEW d \in Drivers, Install(d)
  PROVE  Fresh(driver', g'.dial_gen, reading') /\ InPlace(g', reading') /\ Abstract
<1>0. /\ g \in Inner /\ DriversOK(driver) /\ driver[d].gen \in 0 .. MaxGen
      /\ Fresh(driver, g.dial_gen, reading) /\ ReadingOK(reading) /\ d \in Dialing(driver)
      /\ g.dial_gen \in Nat /\ MaxGen \in Nat
  BY DriverParts, InnerParts, ConstantFacts DEF SInv, LInv, Install, Dialing, DialingPc
<1>1. CASE Superseded(d)
  <2>1. DialErr(d) /\ UNCHANGED <<g, reading>>
    BY <1>1 DEF Install
  <2>2. Stays
    BY <1>0, <2>1, SettlesErr, Unmoved DEF Stays
  <2> QED BY <1>0, <2>1, <2>2, StaysKeeps
<1>2. CASE ~Superseded(d)
  <2> DEFINE s == driver[d].gen
  <2>0. /\ g' = [g EXCEPT !.out_tx = s, !.state = "Open"]
        /\ reading' = [reading EXCEPT ![s] = "read"]
        /\ Step(d, "resubscribe")
    BY <1>2, Zenon DEF Install
  <2>1. s = g.dial_gen /\ ~g.intentional /\ s \in Gens /\ reading[s] = "none" /\ s # None
        /\ 1 .. g.dial_gen \subseteq Gens
    BY <1>0, <1>2 DEF Superseded, Fresh, Gens, None
  <2>2. g'.dial_gen = g.dial_gen /\ g'.out_tx = s /\ g'.intentional = g.intentional
    <3> HIDE DEF s
    <3> QED BY <1>0, <2>0, Zenon DEF Inner
  <2> HIDE DEF s
  <2>3. \A t \in Gens : reading'[t] = IF t = s THEN "read" ELSE reading[t]
    BY <1>0, <2>0 DEF ReadingOK
  <2>4. Settles(driver, driver')
    <3>1. "resubscribe" \notin DialingPc
      BY DEF DialingPc
    <3> QED BY <1>0, <2>0, <3>1, SettlesStep
  <2>5. d \notin Dialing(driver')
    <3> DEFINE v == [driver[d] EXCEPT !.pc = "resubscribe"]
    <3>1. v.pc = "resubscribe" /\ driver' = [driver EXCEPT ![d] = v]
      BY <1>0, <2>0, DriverParts, Zenon DEF Driver, Step
    <3> HIDE DEF v
    <3>2. driver'[d] = v
      BY <1>0, <3>1 DEF DriversOK
    <3> QED BY <3>1, <3>2 DEF Dialing, DialingPc
  <2>6. \A e \in Dialing(driver') :
          e \in Dialing(driver) /\ driver'[e].gen = driver[e].gen /\ driver[e].gen # s
    BY <1>0, <2>4, <2>5 DEF Settles, Fresh, s
  <2>7. Fresh(driver', g'.dial_gen, reading')
    <3>1. \A e \in Dialing(driver') :
            driver'[e].gen \in 1 .. g.dial_gen /\ reading'[driver'[e].gen] = "none"
      BY <1>0, <2>1, <2>3, <2>6 DEF Fresh
    <3>2. \A e, h \in Dialing(driver') : driver'[e].gen = driver'[h].gen => e = h
      BY <1>0, <2>6 DEF Fresh
    <3>3. \A t \in Gens : reading'[t] # "none" => t <= g.dial_gen
      BY <1>0, <2>1, <2>3 DEF Fresh
    <3> QED BY <2>2, <3>1, <3>2, <3>3 DEF Fresh
  <2>8. InPlace(g', reading')
    <3>1. reading'[s] = "read" /\ \A t \in Gens : reading'[t] # "none" => t <= s
      BY <1>0, <2>1, <2>3 DEF Fresh
    <3> QED BY <2>1, <2>2, <3>1 DEF InPlace
  <2>9. Sockets!Install
    <3>1. {t \in Gens : reading'[t] # "none"} = {t \in Gens : reading[t] # "none"} \cup {s}
      BY <2>1, <2>3
    <3> QED BY <2>1, <2>2, <3>1, Mapped DEF Sockets!Install
  <2> QED BY <2>7, <2>8, <2>9 DEF Abstract, Sockets!Next
<1> QED BY <1>1, <1>2

\* The other steps of a dialing task.
LEMMA DriverStays ==
  ASSUME SInv, NEW d \in Drivers, DriverStep(d), ~Dial(d), ~Install(d)
  PROVE  Stays
<1>0. g \in Inner /\ DriversOK(driver) /\ driver[d] \in Driver
  BY DriverParts DEF SInv, LInv
<1>1. UNCHANGED reading
  BY Zenon DEF DriverStep, SocketClosed, Wake, HandleRelocate, DialHello, DialRelocated,
         DialFails, Resubscribe, ResubscribeSend, ReconnectFailed
<1>2. KeepsConn(g, g')
  <2>1. /\ ForgetHandles(g) \in Inner /\ ForgetHandles(g).dial_gen = g.dial_gen
        /\ ForgetHandles(g).out_tx = g.out_tx
        /\ ForgetHandles(g).intentional = g.intentional
    BY <1>0, ForgetType
  <2>2. CASE SocketClosed(d)
    <3>1. CASE g' = [ForgetHandles(g) EXCEPT
                       !.out_tx = None,
                       !.state = IF g.intentional THEN "Closed" ELSE "Reconnecting"]
      <4> DEFINE i == ForgetHandles(g)
      <4>1. g'.out_tx = None /\ g'.dial_gen = i.dial_gen /\ g'.intentional = i.intentional
        BY <2>1, <3>1, Zenon DEF Inner
      <4> QED BY <2>1, <4>1 DEF KeepsConn
    <3> QED BY <2>2, <3>1, Unmoved DEF SocketClosed
  <2>3. CASE g' = ForgetHandles(g)
    BY <2>1, <2>3 DEF KeepsConn
  <2> QED BY <2>2, <2>3, Unmoved
          DEF DriverStep, Wake, HandleRelocate, DialHello, DialRelocated, DialFails,
              Resubscribe, ResubscribeSend, ReconnectFailed
<1>3. Settles(driver, driver')
  <2>1. CASE SocketClosed(d) \/ Wake(d) \/ HandleRelocate(d)
    <3>1. \/ Finish(d) \/ DialErr(d) \/ Step(d, "sleep") \/ Step(d, "dial")
      BY <2>1, Zenon DEF SocketClosed, Wake, HandleRelocate
    <3>2. "sleep" \notin DialingPc /\ "dial" \notin DialingPc
      BY DEF DialingPc
    <3> QED BY <1>0, <3>1, <3>2, SettlesStep, SettlesFinish, SettlesErr
  <2>2. CASE DialHello(d) \/ DialRelocated(d) \/ DialFails(d)
    <3>1. /\ driver[d].pc = "connecting"
          /\ Step(d, "install") \/ Step(d, "relocate") \/ DialErr(d)
      BY <2>2, Zenon DEF DialHello, DialRelocated, DialFails
    <3>2. "relocate" \notin DialingPc /\ "connecting" \in DialingPc
      BY DEF DialingPc
    <3> QED BY <1>0, <3>1, <3>2, SettlesStep, SettlesErr
  <2>3. CASE Resubscribe(d)
    <3> DEFINE v == [driver[d] EXCEPT !.pc = "send", !.todo = Wanted]
    <3>1. Finish(d) \/ driver' = [driver EXCEPT ![d] = v]
      BY <2>3, Zenon DEF Resubscribe
    <3>2. v.pc = "send"
      BY <1>0, Zenon DEF Driver
    <3> HIDE DEF v
    <3>3. v.pc \notin DialingPc
      BY <3>2 DEF DialingPc
    <3> QED BY <1>0, <3>1, <3>3, SettlesPut, SettlesFinish
  <2>4. CASE ResubscribeSend(d)
    <3>1. PICK device \in driver[d].todo :
            Finish(d) \/ driver' = [driver EXCEPT ![d].todo = @ \ {device}]
      BY <2>4, Zenon DEF ResubscribeSend
    <3> DEFINE v == [driver[d] EXCEPT !.todo = @ \ {device}]
    <3>2. v.pc = driver[d].pc /\ v.gen = driver[d].gen
      BY <1>0, Zenon DEF Driver
    <3>3. Finish(d) \/ driver' = [driver EXCEPT ![d] = v]
      BY <3>1, Zenon
    <3> HIDE DEF v
    <3> QED BY <1>0, <3>2, <3>3, SettlesPut, SettlesFinish
  <2>5. CASE ReconnectFailed(d)
    <3> DEFINE v == [driver[d] EXCEPT !.pc = "closed", !.gen = g.dial_gen]
    <3>1. driver' = [driver EXCEPT ![d] = v]
      BY <2>5, Zenon DEF ReconnectFailed
    <3>2. v.pc = "closed"
      BY <1>0, Zenon DEF Driver
    <3> HIDE DEF v
    <3>3. v.pc \notin DialingPc
      BY <3>2 DEF DialingPc
    <3> QED BY <1>0, <3>1, <3>3, SettlesPut
  <2> QED BY <2>1, <2>2, <2>3, <2>4, <2>5 DEF DriverStep
<1> QED BY <1>1, <1>2, <1>3, Unmoved DEF Stays

LEMMA InitFresh == Init => SInv /\ Sockets!Init
<1> SUFFICES ASSUME Init PROVE SInv /\ Sockets!Init
  OBVIOUS
<1>1. g.dial_gen = 0 /\ g.out_tx = None /\ g.intentional = FALSE
  BY Zenon DEF Init
<1>2. \A s \in Gens : reading[s] = "none"
  BY DEF Init
<1>3. Dialing(driver) = {}
  <2> DEFINE first == [IdleDriver EXCEPT !.pc = "dial", !.origin = "connect"]
  <2>1. driver = [d \in Drivers |-> IF d = FirstDriver THEN first ELSE IdleDriver]
    BY Zenon DEF Init
  <2>2. first.pc = "dial" /\ IdleDriver.pc = "idle"
    BY DEF IdleDriver
  <2> HIDE DEF first
  <2> QED BY <2>1, <2>2 DEF Dialing, DialingPc
<1>4. SInv
  BY <1>1, <1>2, <1>3, InitType DEF SInv, Fresh, InPlace
<1> QED BY <1>1, <1>2, <1>4 DEF Sockets!Init, Sockets!None, None

\* Every step of every task is a step of Connection, or none of its steps.
LEMMA StepsKeepSockets ==
  ASSUME SInv, [Next]_vars
  PROVE  SInv' /\ Abstract
<1>1. LInv' /\ g' \in Inner
  BY StepsKeepLInv DEF SInv, LInv
<1>2. CASE Stays
  BY <1>1, <1>2, StaysKeeps DEF SInv
<1>3. ASSUME NEW d \in Drivers, DriverStep(d) PROVE SInv' /\ Abstract
  BY <1>1, <1>2, <1>3, DialDials, InstallInstalls, DriverStays DEF SInv
<1>4. ASSUME UNCHANGED vars PROVE Stays
  BY <1>4, Unmoved DEF vars, Stays
<1> QED BY <1>2, <1>3, <1>4, CallsStay, ReaderStays, ServerStays DEF Next

\* connect, on_socket_closed, handle_relocate and close() of a listener implement
\* Connection, however many of them run at a time.
THEOREM ImplementsConnection == Spec => KeepsConnection
<1>1. SInv /\ [Next]_vars => SInv' /\ [Sockets!Next]_(Sockets!connection)
  BY StepsKeepSockets DEF Abstract
<1> QED BY <1>1, InitFresh, PTL DEF Spec, KeepsConnection, Sockets!Spec

-----------------------------------------------------------------------------
(* What the steps do to a socket.                                            *)

Others(s) == \A t \in Gens : t # s => wire'[t] = wire[t]

\* A socket takes a new value.
LEMMA PutParts ==
  ASSUME WiresOK(wire), NEW s \in Gens, NEW v, wire' = [wire EXCEPT ![s] = v]
  PROVE  wire'[s] = v /\ Others(s)
BY DEF WiresOK, Others

LEMMA PushParts ==
  ASSUME WiresOK(wire), NEW s \in Gens, NEW m, wire' = Push(s, m)
  PROVE  /\ Others(s) /\ wire'[s].up = wire[s].up /\ wire'[s].s2c = wire[s].s2c
         /\ wire'[s].table = wire[s].table
         /\ wire'[s].c2s = IF wire[s].up THEN Append(wire[s].c2s, m) ELSE wire[s].c2s
<1> DEFINE out == IF wire[s].up THEN Append(wire[s].c2s, m) ELSE wire[s].c2s
           v == [wire[s] EXCEPT !.c2s = out]
<1>1. wire' = [wire EXCEPT ![s] = v]
  BY Zenon DEF Push
<1>2. v.up = wire[s].up /\ v.s2c = wire[s].s2c /\ v.table = wire[s].table /\ v.c2s = out
  <2> HIDE DEF out
  <2> QED BY WireParts, Zenon DEF FitWire
<1> HIDE DEF v
<1>3. wire'[s] = v /\ Others(s)
  BY <1>1, PutParts
<1> QED BY <1>2, <1>3

\* send_bin puts a message on the current socket, or nowhere.
LEMMA SentParts ==
  ASSUME LInv, NEW m, Sent(m) \/ SendFails
  PROVE  \/ UNCHANGED wire
         \/ g.out_tx \in Gens /\ wire' = Push(g.out_tx, m)
<1>1. g.out_tx # None => g.out_tx \in Gens
  BY InnerParts, ConstantFacts DEF LInv
<1> QED BY <1>1 DEF Sent, SendFails, CanSend

LEMMA TakeParts ==
  ASSUME WiresOK(wire), NEW s \in Gens, Consume(s)
  PROVE  /\ Others(s) /\ wire'[s].up = wire[s].up /\ wire'[s].s2c = Tail(wire[s].s2c)
         /\ wire'[s].table = wire[s].table /\ wire'[s].c2s = wire[s].c2s
<1> DEFINE v == [wire[s] EXCEPT !.s2c = Tail(@)]
<1>1. wire' = [wire EXCEPT ![s] = v]
  BY Zenon DEF Consume
<1>2. /\ v.up = wire[s].up /\ v.s2c = Tail(wire[s].s2c)
      /\ v.table = wire[s].table /\ v.c2s = wire[s].c2s
  BY WireParts, Zenon DEF FitWire
<1> HIDE DEF v
<1>3. wire'[s] = v /\ Others(s)
  BY <1>1, PutParts
<1> QED BY <1>2, <1>3

LEMMA GrantParts ==
  ASSUME WiresOK(wire), NEW s \in Gens, ServerSubscribes(s)
  PROVE  LET device == wire[s].c2s[1].device
         IN \E sub \in Subs :
              /\ Others(s) /\ wire'[s].up = wire[s].up /\ wire'[s].c2s = Tail(wire[s].c2s)
              /\ wire'[s].table = [wire[s].table EXCEPT ![sub] = device]
              /\ wire'[s].s2c = Append(wire[s].s2c, M("Subscribed", device, sub))
              /\ IF \E h \in Subs : wire[s].table[h] = device THEN wire[s].table[sub] = device
                 ELSE wire[s].table[sub] = Unknown
<1> DEFINE device == Head(wire[s].c2s).device
<1>0. device = wire[s].c2s[1].device
  BY AnswerType DEF ServerSubscribes
<1>1. PICK sub \in Subs :
        /\ IF \E h \in Subs : wire[s].table[h] = device THEN wire[s].table[sub] = device
           ELSE wire[s].table[sub] = Unknown
        /\ wire' = [wire EXCEPT ![s] = [Answered(s) EXCEPT
                      !.table[sub] = device,
                      !.s2c = Append(@, M("Subscribed", device, sub))]]
  BY Zenon DEF ServerSubscribes
<1> HIDE DEF device
<1> DEFINE v == [Answered(s) EXCEPT !.table[sub] = device,
                                    !.s2c = Append(@, M("Subscribed", device, sub))]
<1>2. /\ v.up = wire[s].up /\ v.c2s = Tail(wire[s].c2s)
      /\ v.table = [wire[s].table EXCEPT ![sub] = device]
      /\ v.s2c = Append(wire[s].s2c, M("Subscribed", device, sub))
  BY WireParts, Zenon DEF FitWire, Answered
<1> HIDE DEF v
<1>3. wire'[s] = v /\ Others(s)
  BY <1>1, PutParts DEF v
<1> QED BY <1>0, <1>1, <1>2, <1>3

LEMMA RevokeParts ==
  ASSUME WiresOK(wire), NEW s \in Gens, ServerUnsubscribes(s)
  PROVE  /\ Others(s) /\ wire'[s].up = wire[s].up /\ wire'[s].c2s = Tail(wire[s].c2s)
         /\ wire'[s].table = [wire[s].table EXCEPT ![wire[s].c2s[1].sub] = Unknown]
         /\ wire'[s].s2c = wire[s].s2c
         /\ crossed' = IF wire[s].table[wire[s].c2s[1].sub] # wire[s].c2s[1].device
                       THEN crossed \cup {s} ELSE crossed
<1> DEFINE m == Head(wire[s].c2s)
           v == [Answered(s) EXCEPT !.table[m.sub] = Unknown]
<1>0. m = wire[s].c2s[1]
  BY AnswerType DEF ServerUnsubscribes
<1>1. /\ wire' = [wire EXCEPT ![s] = v]
      /\ crossed' = IF wire[s].table[m.sub] # m.device THEN crossed \cup {s} ELSE crossed
  BY Zenon DEF ServerUnsubscribes
<1> HIDE DEF m
<1>2. /\ v.up = wire[s].up /\ v.c2s = Tail(wire[s].c2s)
      /\ v.table = [wire[s].table EXCEPT ![m.sub] = Unknown]
      /\ v.s2c = wire[s].s2c
  BY WireParts, Zenon DEF FitWire, Answered
<1> HIDE DEF v
<1>3. wire'[s] = v /\ Others(s)
  BY <1>1, PutParts DEF v
<1> QED BY <1>0, <1>1, <1>2, <1>3

LEMMA EndParts ==
  ASSUME WiresOK(wire), NEW s \in Gens, ServerCloses(s)
  PROVE  /\ Others(s) /\ wire'[s].up = FALSE /\ wire'[s].c2s = <<>>
         /\ wire'[s].table = NoSubs /\ wire'[s].s2c = wire[s].s2c
<1> DEFINE v == [wire[s] EXCEPT !.up = FALSE, !.c2s = <<>>, !.table = NoSubs]
<1>1. wire' = [wire EXCEPT ![s] = v]
  BY Zenon DEF ServerCloses
<1>2. v.up = FALSE /\ v.c2s = <<>> /\ v.table = NoSubs /\ v.s2c = wire[s].s2c
  BY WireParts, Zenon DEF FitWire
<1> HIDE DEF v
<1>3. wire'[s] = v /\ Others(s)
  BY <1>1, PutParts
<1> QED BY <1>2, <1>3

LEMMA TellParts ==
  ASSUME WiresOK(wire), NEW s \in Gens, NEW m, wire' = [wire EXCEPT ![s].s2c = Append(@, m)]
  PROVE  /\ Others(s) /\ wire'[s].up = wire[s].up /\ wire'[s].c2s = wire[s].c2s
         /\ wire'[s].table = wire[s].table /\ wire'[s].s2c = Append(wire[s].s2c, m)
<1> DEFINE v == [wire[s] EXCEPT !.s2c = Append(@, m)]
<1>1. wire' = [wire EXCEPT ![s] = v]
  BY Zenon
<1>2. /\ v.up = wire[s].up /\ v.c2s = wire[s].c2s
      /\ v.table = wire[s].table /\ v.s2c = Append(wire[s].s2c, m)
  BY WireParts, Zenon DEF FitWire
<1> HIDE DEF v
<1>3. wire'[s] = v /\ Others(s)
  BY <1>1, PutParts
<1> QED BY <1>2, <1>3

Closed(w) == w.up = FALSE /\ w.c2s = <<>> /\ w.s2c = <<>> /\ w.table = NoSubs

LEMMA CloseParts ==
  ASSUME WiresOK(wire), NEW s \in Gens, wire' = [wire EXCEPT ![s] = ClosedWire]
  PROVE  Others(s) /\ Closed(wire'[s])
<1>1. Closed(ClosedWire)
  BY DEF Closed, ClosedWire
<1> QED BY <1>1, PutParts, Zenon

LEMMA HelloParts ==
  ASSUME SInv, NEW d \in Drivers, DialHello(d)
  PROVE  /\ driver[d].gen \in Gens /\ reading[driver[d].gen] = "none" /\ Others(driver[d].gen)
         /\ wire'[driver[d].gen].c2s = wire[driver[d].gen].c2s
         /\ wire'[driver[d].gen].s2c = wire[driver[d].gen].s2c
         /\ wire'[driver[d].gen].table = wire[driver[d].gen].table
<1> DEFINE s == driver[d].gen
           v == [wire[s] EXCEPT !.up = TRUE]
<1>0. s \in 0 .. MaxGen /\ s \in 1 .. g.dial_gen /\ reading[s] = "none" /\ WiresOK(wire)
      /\ g.dial_gen \in 0 .. MaxGen
  BY DriverParts, InnerParts DEF DialHello, SInv, LInv, Fresh, Dialing, DialingPc
<1>1. s \in Gens
  BY <1>0, ConstantFacts DEF Gens
<1>2. wire' = [wire EXCEPT ![s] = v]
  BY Zenon DEF DialHello
<1> HIDE DEF s
<1>3. v.c2s = wire[s].c2s /\ v.s2c = wire[s].s2c /\ v.table = wire[s].table
  BY <1>0, <1>1, WireParts, Zenon DEF FitWire
<1> HIDE DEF v
<1>4. wire'[s] = v /\ Others(s)
  BY <1>0, <1>1, <1>2, PutParts
<1> QED BY <1>0, <1>1, <1>3, <1>4 DEF s

-----------------------------------------------------------------------------
(* What the messages on their way will have taught the listener: the last    *)
(* Subscribed about a handle before message i, or else the listener's own    *)
(* table, names device d for it, or the table names none.                    *)

IsSub(m, sub) == m.type = "Subscribed" /\ m.sub = sub

Told(q, i, sub, d) ==
  \A j \in 1 .. i - 1 :
    IsSub(q[j], sub) /\ (\A k \in j + 1 .. i - 1 : ~IsSub(q[k], sub)) => q[j].device = d
Untold(q, i, sub) == \A k \in 1 .. i - 1 : ~IsSub(q[k], sub)

\* on: what the listener's table h says still is about this socket.
Names(q, h, on, i, sub, d) ==
  Told(q, i, sub, d) /\ (on /\ Untold(q, i, sub) => h[sub] \in {d, Unknown})

\* Each event on its way, and each handle of the server's table.
Named(q, table, h, on) ==
  /\ \A i \in 1 .. Len(q) : q[i].type = "Added" => Names(q, h, on, i, q[i].sub, q[i].device)
  /\ \A sub \in Subs : table[sub] # Unknown => Names(q, h, on, Len(q) + 1, sub, table[sub])

Handles == [Subs -> Devices \cup {Unknown}]

\* Nothing is on its way, and the server serves nothing.
LEMMA NamedEmpty ==
  ASSUME NEW h, NEW on
  PROVE  Named(<<>>, NoSubs, h, on)
BY DEF Named, NoSubs

\* Handles are forgotten, on either side.
LEMMA NamedLess ==
  ASSUME NEW q \in Seq(FitMsg), NEW t \in Handles, NEW t2 \in Handles,
         NEW h \in Handles, NEW h2 \in Handles, NEW on, NEW on2,
         Named(q, t, h, on), on2 => on,
         \A sub \in Subs : t2[sub] \in {t[sub], Unknown},
         on2 => \A sub \in Subs : h2[sub] \in {h[sub], Unknown}
  PROVE  Named(q, t2, h2, on2)
<1>1. \A sub \in Subs : \A i \in Nat : \A d : Names(q, h, on, i, sub, d) => Names(q, h2, on2, i, sub, d)
  BY DEF Names
<1>2. \A i \in 1 .. Len(q) : q[i].type = "Added" => q[i].sub \in Subs
  BY MsgParts DEF Fits
<1>3. 1 .. Len(q) \subseteq Nat /\ Len(q) + 1 \in Nat
  OBVIOUS
<1> QED BY <1>1, <1>2, <1>3, Zenon DEF Named

\* The read loop takes a message, and learns from a Subscribed.
LEMMA NamesShift ==
  ASSUME NEW q \in Seq(FitMsg), q # <<>>, NEW h \in Handles, NEW h2 \in Handles,
         NEW on, NEW on2, on2 => on, NEW sub \in Subs, NEW d, NEW i \in 1 .. Len(q),
         \/ h2 = h /\ q[1].type # "Subscribed"
         \/ q[1].type = "Subscribed" /\ h2 = [h EXCEPT ![q[1].sub] = q[1].device],
         Names(q, h, on, i + 1, sub, d)
  PROVE  Names(Tail(q), h2, on2, i, sub, d)
<1>1. /\ Tail(q) \in Seq(FitMsg) /\ Len(Tail(q)) = Len(q) - 1 /\ Len(q) \in Nat
      /\ \A k \in 1 .. Len(q) - 1 : Tail(q)[k] = q[k + 1]
  OBVIOUS
<1>2. Told(Tail(q), i, sub, d)
  <2> SUFFICES ASSUME NEW j \in 1 .. i - 1, IsSub(Tail(q)[j], sub),
                      \A k \in j + 1 .. i - 1 : ~IsSub(Tail(q)[k], sub)
               PROVE  Tail(q)[j].device = d
    BY DEF Told
  <2>1. j + 1 \in 1 .. (i + 1) - 1 /\ Tail(q)[j] = q[j + 1]
    BY <1>1
  <2>2. ASSUME NEW k \in (j + 1) + 1 .. (i + 1) - 1 PROVE ~IsSub(q[k], sub)
    <3>1. k - 1 \in j + 1 .. i - 1 /\ Tail(q)[k - 1] = q[k]
      BY <1>1
    <3> QED BY <3>1
  <2> QED BY <2>1, <2>2 DEF Names, Told
<1>3. ASSUME on2, Untold(Tail(q), i, sub) PROVE h2[sub] \in {d, Unknown}
  <2>1. \A k \in 2 .. i : ~IsSub(q[k], sub)
    <3> TAKE k \in 2 .. i
    <3>1. k - 1 \in 1 .. i - 1 /\ Tail(q)[k - 1] = q[k]
      BY <1>1
    <3> QED BY <1>3, <3>1 DEF Untold
  <2>2. CASE IsSub(q[1], sub)
    <3>1. 1 \in 1 .. (i + 1) - 1 /\ \A k \in 1 + 1 .. (i + 1) - 1 : ~IsSub(q[k], sub)
      BY <2>1
    <3>2. q[1].device = d
      BY <2>2, <3>1 DEF Names, Told
    <3> QED BY <2>2, <3>2 DEF IsSub, Handles
  <2>3. CASE ~IsSub(q[1], sub)
    <3>1. Untold(q, i + 1, sub)
      BY <2>1, <2>3 DEF Untold
    <3>2. h[sub] \in {d, Unknown}
      BY <1>3, <3>1 DEF Names
    <3> QED BY <2>3, <3>2 DEF IsSub, Handles
  <2> QED BY <2>2, <2>3
<1> QED BY <1>2, <1>3 DEF Names

LEMMA NamedTail ==
  ASSUME NEW q \in Seq(FitMsg), q # <<>>, NEW t \in Handles,
         NEW h \in Handles, NEW h2 \in Handles, NEW on, NEW on2, on2 => on,
         \/ h2 = h /\ q[1].type # "Subscribed"
         \/ q[1].type = "Subscribed" /\ h2 = [h EXCEPT ![q[1].sub] = q[1].device],
         Named(q, t, h, on)
  PROVE  Named(Tail(q), t, h2, on2)
<1>1. /\ Tail(q) \in Seq(FitMsg) /\ Len(Tail(q)) = Len(q) - 1 /\ Len(q) \in Nat /\ Len(q) # 0
      /\ \A k \in 1 .. Len(q) - 1 : Tail(q)[k] = q[k + 1]
  OBVIOUS
<1>2. ASSUME NEW i \in 1 .. Len(Tail(q)), Tail(q)[i].type = "Added"
      PROVE  Names(Tail(q), h2, on2, i, Tail(q)[i].sub, Tail(q)[i].device)
  <2>1. Tail(q)[i] = q[i + 1] /\ i + 1 \in 1 .. Len(q) /\ i \in 1 .. Len(q)
    BY <1>1
  <2>2. q[i + 1].sub \in Subs
    BY <1>2, <2>1, MsgParts DEF Fits
  <2>3. Names(q, h, on, i + 1, q[i + 1].sub, q[i + 1].device)
    BY <1>2, <2>1 DEF Named
  <2> QED BY <2>1, <2>2, <2>3, NamesShift
<1>3. ASSUME NEW sub \in Subs, t[sub] # Unknown
      PROVE  Names(Tail(q), h2, on2, Len(Tail(q)) + 1, sub, t[sub])
  <2>1. Len(Tail(q)) + 1 = Len(q) /\ Len(q) \in 1 .. Len(q)
    BY <1>1
  <2>2. Names(q, h, on, Len(q) + 1, sub, t[sub])
    BY <1>3 DEF Named
  <2> QED BY <2>1, <2>2, NamesShift
<1> QED BY <1>2, <1>3 DEF Named

\* The server tells something new.
LEMMA NamesAppend ==
  ASSUME NEW q \in Seq(FitMsg), NEW m \in FitMsg, NEW h, NEW on, NEW sub, NEW d,
         NEW i \in 1 .. Len(q) + 1
  PROVE  Names(Append(q, m), h, on, i, sub, d) <=> Names(q, h, on, i, sub, d)
<1>1. \A k \in 1 .. Len(q) : Append(q, m)[k] = q[k]
  OBVIOUS
<1>2. \A k \in 1 .. i - 1 : Append(q, m)[k] = q[k]
  BY <1>1
<1>3. \A j \in 1 .. i - 1 : \A k \in j + 1 .. i - 1 : Append(q, m)[k] = q[k]
  BY <1>1
<1> QED BY <1>2, <1>3 DEF Names, Told, Untold

LEMMA NamesLast ==
  ASSUME NEW q \in Seq(FitMsg), NEW m \in FitMsg, NEW h, NEW on, NEW sub, NEW d,
         \/ ~IsSub(m, sub) /\ Names(q, h, on, Len(q) + 1, sub, d)
         \/ IsSub(m, sub) /\ m.device = d
  PROVE  Names(Append(q, m), h, on, Len(q) + 2, sub, d)
<1>1. /\ \A k \in 1 .. Len(q) : Append(q, m)[k] = q[k] /\ k \in 1 .. Len(q) + 1
      /\ Append(q, m)[Len(q) + 1] = m /\ Len(q) \in Nat
  OBVIOUS
<1> DEFINE p == Append(q, m)
           n == Len(q)
<1>2. \A k \in 1 .. n : p[k] = q[k]
  BY <1>1
<1>3. p[n + 1] = m /\ n \in Nat
  BY <1>1
<1> HIDE DEF p, n
<1>4. Told(p, n + 2, sub, d)
  <2> SUFFICES ASSUME NEW j \in 1 .. n + 1, IsSub(p[j], sub),
                      \A k \in j + 1 .. n + 1 : ~IsSub(p[k], sub)
               PROVE  p[j].device = d
    BY <1>3 DEF Told
  <2>1. CASE j = n + 1
    BY <1>3, <2>1 DEF Names, Told, n
  <2>2. CASE j # n + 1
    <3>1. j \in 1 .. n /\ n + 1 \in j + 1 .. n + 1 /\ j \in 1 .. (n + 1) - 1
      BY <1>3, <2>2
    <3>2. ~IsSub(m, sub)
      BY <1>3, <3>1
    <3>3. IsSub(q[j], sub)
      BY <1>2, <3>1
    <3>4. \A k \in j + 1 .. (n + 1) - 1 : ~IsSub(q[k], sub)
      BY <1>2, <1>3, <3>1
    <3>5. Told(q, n + 1, sub, d)
      BY <3>2 DEF Names, n
    <3>6. q[j].device = d
      BY <3>1, <3>3, <3>4, <3>5, Zenon DEF Told
    <3> QED BY <1>2, <3>1, <3>6
  <2> QED BY <2>1, <2>2
<1>5. ASSUME on, Untold(p, n + 2, sub) PROVE h[sub] \in {d, Unknown}
  <2>1. ~IsSub(m, sub)
    BY <1>3, <1>5 DEF Untold
  <2>2. Untold(q, n + 1, sub)
    BY <1>2, <1>3, <1>5 DEF Untold
  <2> QED BY <1>5, <2>1, <2>2 DEF Names, n
<1> QED BY <1>4, <1>5 DEF Names, p, n

\* An event goes out under the handle of its device, or a Relocate.
LEMMA NamedAppend ==
  ASSUME NEW q \in Seq(FitMsg), NEW m \in FitMsg, NEW t \in Handles, NEW h, NEW on,
         Named(q, t, h, on), m.type # "Subscribed",
         m.type = "Added" => m.device = t[m.sub] /\ t[m.sub] # Unknown
  PROVE  Named(Append(q, m), t, h, on)
<1>1. /\ Len(Append(q, m)) = Len(q) + 1 /\ Len(q) \in Nat
      /\ Append(q, m)[Len(q) + 1] = m
      /\ \A k \in 1 .. Len(q) : Append(q, m)[k] = q[k]
  OBVIOUS
<1>2. ASSUME NEW i \in 1 .. Len(Append(q, m)), Append(q, m)[i].type = "Added"
      PROVE  Names(Append(q, m), h, on, i, Append(q, m)[i].sub, Append(q, m)[i].device)
  <2>0. i \in 1 .. Len(q) + 1
    BY <1>1
  <2>1. CASE i = Len(q) + 1
    <3>1. m.sub \in Subs
      BY <1>1, <1>2, <2>1, MsgParts DEF Fits
    <3>2. Names(q, h, on, i, m.sub, m.device)
      BY <1>1, <1>2, <2>1, <3>1 DEF Named
    <3> QED BY <1>1, <2>0, <2>1, <3>2, NamesAppend
  <2>2. CASE i # Len(q) + 1
    <3>1. i \in 1 .. Len(q) /\ Append(q, m)[i] = q[i]
      BY <1>1, <2>0, <2>2
    <3>2. Names(q, h, on, i, q[i].sub, q[i].device)
      BY <1>2, <3>1 DEF Named
    <3> QED BY <2>0, <3>1, <3>2, NamesAppend
  <2> QED BY <2>1, <2>2
<1>3. ASSUME NEW sub \in Subs, t[sub] # Unknown
      PROVE  Names(Append(q, m), h, on, Len(Append(q, m)) + 1, sub, t[sub])
  <2>1. Len(Append(q, m)) + 1 = Len(q) + 2 /\ ~IsSub(m, sub)
    BY <1>1 DEF IsSub
  <2>2. Names(q, h, on, Len(q) + 1, sub, t[sub])
    BY <1>3 DEF Named
  <2> QED BY <2>1, <2>2, NamesLast
<1> QED BY <1>2, <1>3 DEF Named

\* The server gives a handle and says so.
LEMMA NamedGrant ==
  ASSUME NEW q \in Seq(FitMsg), NEW t \in Handles, NEW h, NEW on,
         NEW device \in Devices, NEW sub \in Subs, Named(q, t, h, on)
  PROVE  Named(Append(q, M("Subscribed", device, sub)), [t EXCEPT ![sub] = device], h, on)
<1> DEFINE m == M("Subscribed", device, sub)
<1>1. m \in FitMsg /\ m.type = "Subscribed" /\ m.sub = sub /\ m.device = device
  BY Built DEF M
<1> HIDE DEF m
<1>2. /\ Len(Append(q, m)) = Len(q) + 1 /\ Len(q) \in Nat
      /\ Append(q, m)[Len(q) + 1] = m
      /\ \A k \in 1 .. Len(q) : Append(q, m)[k] = q[k]
  OBVIOUS
<1>3. ASSUME NEW i \in 1 .. Len(Append(q, m)), Append(q, m)[i].type = "Added"
      PROVE  Names(Append(q, m), h, on, i, Append(q, m)[i].sub, Append(q, m)[i].device)
  <2>1. i \in 1 .. Len(q) /\ i \in 1 .. Len(q) + 1 /\ Append(q, m)[i] = q[i]
    BY <1>1, <1>2, <1>3
  <2>2. Names(q, h, on, i, q[i].sub, q[i].device)
    BY <1>3, <2>1 DEF Named
  <2> QED BY <1>1, <2>1, <2>2, NamesAppend
<1>4. ASSUME NEW x \in Subs, [t EXCEPT ![sub] = device][x] # Unknown
      PROVE  Names(Append(q, m), h, on, Len(Append(q, m)) + 1, x, [t EXCEPT ![sub] = device][x])
  <2>0. Len(Append(q, m)) + 1 = Len(q) + 2
    BY <1>2
  <2>1. CASE x = sub
    <3>1. [t EXCEPT ![sub] = device][x] = device /\ IsSub(m, x)
      BY <1>1, <2>1 DEF Handles, IsSub
    <3> QED BY <1>1, <2>0, <3>1, NamesLast
  <2>2. CASE x # sub
    <3>1. [t EXCEPT ![sub] = device][x] = t[x] /\ ~IsSub(m, x)
      BY <1>1, <2>2 DEF Handles, IsSub
    <3>2. Names(q, h, on, Len(q) + 1, x, t[x])
      BY <1>4, <3>1 DEF Named
    <3> QED BY <1>1, <2>0, <3>1, <3>2, NamesLast
  <2> QED BY <2>1, <2>2
<1> QED BY <1>3, <1>4 DEF Named, m

-----------------------------------------------------------------------------
(* Events are stamped with the right device.                                 *)

\* A socket nobody reads yet has carried nothing.
Unused == \A s \in Gens : reading[s] = "none" =>
            wire[s].c2s = <<>> /\ wire[s].s2c = <<>> /\ wire[s].table = NoSubs

\* The newest socket, which nothing of an older one has crossed.
Newest(s) == \A t \in Gens : t > s => reading[t] = "none"
On(s)     == Newest(s) /\ s \notin crossed

Naming == \A s \in Gens : Named(wire[s].s2c, wire[s].table, g.device_by_sub, On(s))

NInv == SInv /\ Unused /\ Naming

Forgets == \A sub \in Subs : g'.device_by_sub[sub] \in {g.device_by_sub[sub], Unknown}
Later   == /\ \A s \in Gens : reading[s] # "none" => reading'[s] # "none"
           /\ crossed \subseteq crossed'

\* What steps but the server's and the reader's do to sockets: a message is sent
\* on one in use, or one is shut.
Calm(s) == /\ wire'[s].s2c = wire[s].s2c /\ wire'[s].table = wire[s].table
           /\ reading[s] = "none" => wire'[s].c2s = wire[s].c2s
Calmly  == \A s \in Gens : Calm(s) \/ Closed(wire'[s])

LEMMA LaterOn ==
  ASSUME Later, NEW s \in Gens
  PROVE  On(s)' => On(s)
BY DEF Later, On, Newest

LEMMA HandlesParts ==
  ASSUME NEW i \in Inner, NEW w, WiresOK(w)
  PROVE  /\ i.device_by_sub \in Handles
         /\ \A s \in Gens : w[s].s2c \in Seq(FitMsg) /\ w[s].table \in Handles
BY InnerParts, WireParts DEF Handles

\* A socket with the same messages on their way and no more handles.
LEMMA NamingLess ==
  ASSUME NInv, LInv', Later, NEW s \in Gens, wire'[s].s2c = wire[s].s2c,
         \A sub \in Subs : wire'[s].table[sub] \in {wire[s].table[sub], Unknown},
         On(s)' => Forgets
  PROVE  Named(wire'[s].s2c, wire'[s].table, g'.device_by_sub, On(s)')
<1>1. /\ wire[s].s2c \in Seq(FitMsg) /\ wire[s].table \in Handles /\ wire'[s].table \in Handles
      /\ g.device_by_sub \in Handles /\ g'.device_by_sub \in Handles
  BY HandlesParts DEF NInv, SInv, LInv
<1>2. On(s)' => \A sub \in Subs : g'.device_by_sub[sub] \in {g.device_by_sub[sub], Unknown}
  BY DEF Forgets
<1>3. Named(wire[s].s2c, wire[s].table, g.device_by_sub, On(s)) /\ (On(s)' => On(s))
  BY LaterOn DEF NInv, Naming
<1> QED BY <1>1, <1>2, <1>3, NamedLess

LEMMA NamingCalm ==
  ASSUME NInv, LInv', Later, Forgets, Calmly
  PROVE  Unused' /\ Naming'
<1>1. ASSUME NEW s \in Gens
      PROVE  /\ Named(wire'[s].s2c, wire'[s].table, g'.device_by_sub, On(s)')
             /\ reading'[s] = "none" =>
                  wire'[s].c2s = <<>> /\ wire'[s].s2c = <<>> /\ wire'[s].table = NoSubs
  <2>1. CASE Closed(wire'[s])
    BY <2>1, NamedEmpty, Zenon DEF Closed
  <2>2. CASE Calm(s)
    <3>1. Named(wire'[s].s2c, wire'[s].table, g'.device_by_sub, On(s)')
      BY <2>2, NamingLess DEF Calm
    <3> QED BY <2>2, <3>1 DEF Calm, NInv, Unused, Later
  <2> QED BY <2>1, <2>2 DEF Calmly
<1> QED BY <1>1 DEF Unused, Naming

\* Sending.
LEMMA SentCalmly ==
  ASSUME SInv, NEW m, Sent(m) \/ SendFails
  PROVE  Calmly
<1>1. CASE UNCHANGED wire
  BY <1>1 DEF Calmly, Calm
<1>2. CASE g.out_tx \in Gens /\ wire' = Push(g.out_tx, m)
  <2>1. reading[g.out_tx] # "none"
    BY <1>2, ConstantFacts DEF SInv, InPlace
  <2>2. Others(g.out_tx) /\ Calm(g.out_tx)
    BY <1>2, <2>1, PushParts DEF SInv, LInv, Calm
  <2> QED BY <2>2 DEF Others, Calmly, Calm
<1> QED BY <1>1, <1>2, SentParts DEF SInv

\* An application call sends on the socket in place, if on any.
LEMMA CallsCalm ==
  ASSUME SInv, NEW p \in Procs, NewCall(p) \/ CallStep(p)
  PROVE  Calmly
<1>0. g \in Inner /\ LInv
  BY DEF SInv, LInv
<1>1. CASE UNCHANGED wire
  BY <1>1 DEF Calmly, Calm
<1>2. CASE \E m : Sent(m) \/ SendFails
  BY <1>0, <1>2, SentCalmly
<1>3. CASE Close(p) /\ g.out_tx # None
  <2>1. g.out_tx \in Gens
    BY <1>0, <1>3, InnerParts, ConstantFacts
  <2>2. wire' = Push(g.out_tx, M("Close", Unknown, None))
    BY <1>3 DEF Close
  <2>3. reading[g.out_tx] # "none"
    BY <1>0, <1>3, <2>1 DEF SInv, InPlace
  <2>4. Others(g.out_tx) /\ Calm(g.out_tx)
    BY <1>0, <2>1, <2>2, <2>3, PushParts DEF LInv, Calm
  <2> QED BY <2>4 DEF Others, Calmly, Calm
<1> QED BY <1>1, <1>2, <1>3
        DEF NewCall, SubscribeBegin, UnsubscribeBegin, Recv, Close, CallStep, SubscribeSend,
            UnsubscribeSend

LEMMA CallsNaming ==
  ASSUME NInv, LInv', NEW p \in Procs, NewCall(p) \/ CallStep(p)
  PROVE  Unused' /\ Naming'
<1>0. g \in Inner /\ SInv /\ LInv
  BY DEF NInv, SInv, LInv
<1>1. Later
  <2>1. UNCHANGED <<reading, crossed>>
    BY DEF NewCall, SubscribeBegin, UnsubscribeBegin, Recv, Close, CallStep, SubscribeSend,
           UnsubscribeSend, history
  <2> QED BY <2>1 DEF Later
<1>2. g'.device_by_sub = g.device_by_sub
  <2>1. CASE \E device \in Devices : SubscribeBegin(p, device)
    BY <1>0, <2>1, Zenon DEF SubscribeBegin, Inner
  <2>2. CASE \E device \in Devices : UnsubscribeBegin(p, device)
    BY <1>0, <2>2, Zenon DEF UnsubscribeBegin, Inner
  <2>3. CASE Close(p)
    BY <1>0, <2>3, Zenon DEF Close, Inner
  <2>4. CASE Recv(p) \/ CallStep(p)
    BY <2>4, Zenon DEF Recv, CallStep, SubscribeSend, UnsubscribeSend
  <2> QED BY <2>1, <2>2, <2>3, <2>4 DEF NewCall
<1>3. Calmly
  BY <1>0, CallsCalm
<1> QED BY <1>1, <1>2, <1>3, NamingCalm DEF Forgets

\* A dialing task sends on the socket in place, or shuts the one it has dialed.
LEMMA DriverCalm ==
  ASSUME SInv, NEW d \in Drivers, DriverStep(d)
  PROVE  Calmly
<1>0. g \in Inner /\ LInv /\ WiresOK(wire)
  BY DEF SInv, LInv
<1>1. CASE UNCHANGED wire
  BY <1>1 DEF Calmly, Calm
<1>2. CASE ResubscribeSend(d)
  BY <1>0, <1>2, SentCalmly DEF ResubscribeSend
<1>3. CASE DialHello(d)
  BY <1>0, <1>3, HelloParts DEF Others, Calmly, Calm
<1>4. CASE Install(d) /\ ~UNCHANGED wire
  <2> DEFINE s == driver[d].gen
  <2>1. wire' = [wire EXCEPT ![s] = ClosedWire]
    BY <1>4, Zenon DEF Install
  <2>2. s \in Gens
    <3>1. s \in 1 .. g.dial_gen /\ g.dial_gen \in 0 .. MaxGen
      BY <1>0, <1>4, InnerParts DEF Install, SInv, Fresh, Dialing, DialingPc
    <3> QED BY <3>1, ConstantFacts DEF Gens
  <2> HIDE DEF s
  <2>3. Others(s) /\ Closed(wire'[s])
    BY <1>0, <2>1, <2>2, CloseParts
  <2> QED BY <2>3 DEF Others, Calmly, Calm
<1> QED BY <1>1, <1>2, <1>3, <1>4
        DEF DriverStep, SocketClosed, Wake, HandleRelocate, Dial, DialRelocated, DialFails,
            Resubscribe, ReconnectFailed

LEMMA DriverNaming ==
  ASSUME NInv, LInv', NEW d \in Drivers, DriverStep(d)
  PROVE  Unused' /\ Naming'
<1>0. g \in Inner /\ SInv /\ LInv /\ ReadingOK(reading) /\ WiresOK(wire)
  BY DEF NInv, SInv, LInv
<1>1. Later
  <2>1. CASE Install(d)
    <3>1. UNCHANGED reading \/ \E s : reading' = [reading EXCEPT ![s] = "read"]
      BY <2>1, Zenon DEF Install
    <3>2. \A s \in Gens : reading[s] # "none" => reading'[s] # "none"
      BY <1>0, <3>1 DEF ReadingOK
    <3> QED BY <2>1, <3>2 DEF Install, history, Later
  <2> QED BY <2>1 DEF DriverStep, SocketClosed, Wake, HandleRelocate, Dial, DialHello,
                      DialRelocated, DialFails, Resubscribe, ResubscribeSend, ReconnectFailed,
                      history, Later
<1>2. Forgets
  <2>0. ForgetHandles(g) \in Inner /\ ForgetHandles(g).device_by_sub = NoSubs
    BY <1>0, ForgetType
  <2>1. CASE SocketClosed(d)
    <3> DEFINE i == ForgetHandles(g)
    <3>1. CASE g' = [i EXCEPT !.out_tx = None,
                              !.state = IF g.intentional THEN "Closed" ELSE "Reconnecting"]
      <4>1. g'.device_by_sub = i.device_by_sub
        BY <2>0, <3>1, Zenon DEF Inner
      <4> QED BY <2>0, <4>1 DEF Forgets, NoSubs
    <3> QED BY <2>1, <3>1 DEF SocketClosed, Forgets
  <2>2. CASE Resubscribe(d)
    BY <2>0, <2>2 DEF Resubscribe, Forgets, NoSubs
  <2>3. CASE Dial(d)
    <3>1. g'.device_by_sub = g.device_by_sub
      BY <1>0, <2>3, Zenon DEF Dial, Inner
    <3> QED BY <3>1 DEF Forgets
  <2>4. CASE Install(d)
    <3>1. g'.device_by_sub = g.device_by_sub
      BY <1>0, <2>4, Zenon DEF Install, Inner
    <3> QED BY <3>1 DEF Forgets
  <2> QED BY <2>1, <2>2, <2>3, <2>4
          DEF DriverStep, Wake, HandleRelocate, DialHello, DialRelocated, DialFails,
              ResubscribeSend, ReconnectFailed, Forgets
<1>3. Calmly
  BY <1>0, DriverCalm
<1> QED BY <1>1, <1>2, <1>3, NamingCalm

\* One socket changed, and no handle is learned.
LEMMA NamingOne ==
  ASSUME NInv, LInv', Later, NEW s \in Gens, Others(s), Forgets,
         Named(wire'[s].s2c, wire'[s].table, g'.device_by_sub, On(s)'),
         reading'[s] = "none" =>
           wire'[s].c2s = <<>> /\ wire'[s].s2c = <<>> /\ wire'[s].table = NoSubs
  PROVE  Unused' /\ Naming'
<1>1. ASSUME NEW t \in Gens, t # s
      PROVE  /\ Named(wire'[t].s2c, wire'[t].table, g'.device_by_sub, On(t)')
             /\ reading'[t] = "none" =>
                  wire'[t].c2s = <<>> /\ wire'[t].s2c = <<>> /\ wire'[t].table = NoSubs
  <2>1. wire'[t] = wire[t]
    BY <1>1 DEF Others
  <2>2. Named(wire'[t].s2c, wire'[t].table, g'.device_by_sub, On(t)')
    BY <2>1, NamingLess
  <2> QED BY <2>1, <2>2 DEF NInv, Unused, Later
<1> QED BY <1>1 DEF Unused, Naming

LEMMA ServerNaming ==
  ASSUME NInv, LInv', NEW s \in Gens, ServerStep(s) \/ Environment(s)
  PROVE  Unused' /\ Naming'
<1>0. /\ SInv /\ LInv /\ WiresOK(wire) /\ Forgets
      /\ wire[s].s2c \in Seq(FitMsg) /\ wire[s].table \in Handles
      /\ Named(wire[s].s2c, wire[s].table, g.device_by_sub, On(s))
  <2>1. UNCHANGED g
    BY Zenon DEF ServerStep, Environment, ServerSubscribes, ServerUnsubscribes, ServerCloses,
           ServerAdds, ServerRelocates, Drop, Quiet
  <2> QED BY <2>1, HandlesParts DEF NInv, SInv, LInv, Naming, Forgets
<1>1. UNCHANGED <<reading, g>> /\ (UNCHANGED crossed \/ ServerUnsubscribes(s))
  BY Zenon DEF ServerStep, Environment, ServerSubscribes, ServerUnsubscribes, ServerCloses,
         ServerAdds, ServerRelocates, Drop, Quiet, history
<1>2. Later
  BY <1>1 DEF ServerUnsubscribes, Later
<1>3. wire[s].c2s # <<>> => reading[s] # "none"
  BY DEF NInv, Unused
<1>4. CASE ServerSubscribes(s)
  <2>1. wire[s].c2s # <<>> /\ wire[s].c2s[1].device \in Devices
    BY <1>0, <1>4, AnswerType, MsgParts DEF ServerSubscribes, Fits
  <2> DEFINE device == wire[s].c2s[1].device
  <2>2. PICK sub \in Subs :
          /\ Others(s)
          /\ wire'[s].table = [wire[s].table EXCEPT ![sub] = device]
          /\ wire'[s].s2c = Append(wire[s].s2c, M("Subscribed", device, sub))
    BY <1>0, <1>4, GrantParts, Zenon
  <2> HIDE DEF device
  <2>3. Named(wire'[s].s2c, wire'[s].table, g.device_by_sub, On(s))
    BY <1>0, <2>1, <2>2, NamedGrant DEF device
  <2>4. On(s)' = On(s)
    BY <1>1, <1>4 DEF ServerSubscribes, history, On, Newest
  <2>5. Named(wire'[s].s2c, wire'[s].table, g'.device_by_sub, On(s)')
    BY <1>1, <2>3, <2>4
  <2> QED BY <1>0, <1>1, <1>2, <1>3, <2>1, <2>2, <2>5, NamingOne
<1>5. CASE ServerUnsubscribes(s)
  <2>1. wire[s].c2s # <<>> /\ wire[s].c2s[1].sub \in Subs
    BY <1>0, <1>5, AnswerType, MsgParts DEF ServerUnsubscribes, Fits
  <2>2. /\ Others(s) /\ wire'[s].s2c = wire[s].s2c
        /\ wire'[s].table = [wire[s].table EXCEPT ![wire[s].c2s[1].sub] = Unknown]
    BY <1>0, <1>5, RevokeParts
  <2>3. \A sub \in Subs : wire'[s].table[sub] \in {wire[s].table[sub], Unknown}
    BY <1>0, <2>2 DEF Handles
  <2>4. Named(wire'[s].s2c, wire'[s].table, g'.device_by_sub, On(s)')
    BY <1>0, <1>2, <2>2, <2>3, NamingLess
  <2> QED BY <1>0, <1>1, <1>2, <1>3, <2>1, <2>2, <2>4, NamingOne
<1>6. CASE ServerCloses(s)
  <2>1. wire[s].c2s # <<>>
    BY <1>0, <1>6, AnswerType DEF ServerCloses
  <2>2. Others(s) /\ wire'[s].table = NoSubs /\ wire'[s].s2c = wire[s].s2c
    BY <1>0, <1>6, EndParts
  <2>3. \A sub \in Subs : wire'[s].table[sub] \in {wire[s].table[sub], Unknown}
    BY <2>2 DEF NoSubs
  <2>4. Named(wire'[s].s2c, wire'[s].table, g'.device_by_sub, On(s)')
    BY <1>0, <1>2, <2>2, <2>3, NamingLess
  <2> QED BY <1>0, <1>1, <1>2, <1>3, <2>1, <2>2, <2>4, NamingOne
<1>7. CASE ServerAdds(s)
  <2>1. PICK sub \in Subs :
          /\ wire[s].table[sub] # Unknown
          /\ wire' = [wire EXCEPT ![s].s2c = Append(@, M("Added", wire[s].table[sub], sub))]
    BY <1>7, Zenon DEF ServerAdds
  <2> DEFINE m == M("Added", wire[s].table[sub], sub)
  <2>2. wire[s].table[sub] \in Devices
    BY <1>0, <2>1 DEF Handles
  <2>3. m \in FitMsg /\ m.type = "Added" /\ m.device = wire[s].table[sub] /\ m.sub = sub
    BY <2>2, Built DEF M
  <2>4. wire' = [wire EXCEPT ![s].s2c = Append(@, m)]
    BY <2>1, Zenon
  <2> HIDE DEF m
  <2>5. Others(s) /\ wire'[s].table = wire[s].table /\ wire'[s].s2c = Append(wire[s].s2c, m)
    BY <1>0, <2>4, TellParts
  <2>6. Named(wire'[s].s2c, wire'[s].table, g.device_by_sub, On(s))
    BY <1>0, <2>1, <2>3, <2>5, NamedAppend
  <2>7. On(s)' = On(s)
    BY <1>1, <1>7 DEF ServerAdds, history, On, Newest
  <2>8. reading[s] # "none"
    BY <2>1 DEF NInv, Unused, NoSubs
  <2>9. Named(wire'[s].s2c, wire'[s].table, g'.device_by_sub, On(s)')
    BY <1>1, <2>6, <2>7
  <2> QED BY <1>0, <1>1, <1>2, <2>5, <2>8, <2>9, NamingOne
<1>8. CASE ServerRelocates(s)
  <2> DEFINE m == M("Relocate", Unknown, None)
  <2>1. m \in FitMsg /\ m.type = "Relocate"
    BY DEF M, FitMsg, Msg, Fits
  <2>2. wire' = [wire EXCEPT ![s].s2c = Append(@, m)]
    BY <1>8, Zenon DEF ServerRelocates
  <2> HIDE DEF m
  <2>3. Others(s) /\ wire'[s].table = wire[s].table /\ wire'[s].s2c = Append(wire[s].s2c, m)
    BY <1>0, <2>2, TellParts
  <2>4. Named(wire'[s].s2c, wire'[s].table, g.device_by_sub, On(s))
    BY <1>0, <2>1, <2>3, NamedAppend
  <2>5. On(s)' = On(s)
    BY <1>1, <1>8 DEF ServerRelocates, history, On, Newest
  <2>6. reading[s] # "none"
    BY <1>8 DEF ServerRelocates
  <2>7. Named(wire'[s].s2c, wire'[s].table, g'.device_by_sub, On(s)')
    BY <1>1, <2>4, <2>5
  <2> QED BY <1>0, <1>1, <1>2, <2>3, <2>6, <2>7, NamingOne
<1>9. CASE Drop(s)
  <2>1. Others(s) /\ Closed(wire'[s])
    BY <1>0, <1>9, CloseParts DEF Drop
  <2>2. Named(wire'[s].s2c, wire'[s].table, g'.device_by_sub, On(s)')
    BY <2>1, NamedEmpty, Zenon DEF Closed
  <2> QED BY <1>0, <1>2, <2>1, <2>2, NamingOne DEF Closed
<1> QED BY <1>4, <1>5, <1>6, <1>7, <1>8, <1>9 DEF ServerStep, Environment

LEMMA ReaderNaming ==
  ASSUME NInv, LInv', NEW s \in Gens, ReaderStep(s)
  PROVE  Unused' /\ Naming'
<1>0. /\ SInv /\ LInv /\ WiresOK(wire) /\ ReadingOK(reading) /\ g \in Inner /\ g' \in Inner
      /\ wire[s].s2c \in Seq(FitMsg) /\ wire[s].table \in Handles
      /\ g.device_by_sub \in Handles /\ g'.device_by_sub \in Handles
      /\ Named(wire[s].s2c, wire[s].table, g.device_by_sub, On(s))
  BY HandlesParts DEF NInv, SInv, LInv, Naming
<1>1. Later
  <2>1. UNCHANGED reading \/ reading' = [reading EXCEPT ![s] = "done"]
    BY DEF ReaderStep, OnSubscribed, OnAdded, OnRelocate, ReaderEnds
  <2>2. crossed \subseteq crossed'
    BY DEF ReaderStep, OnSubscribed, OnAdded, OnRelocate, ReaderEnds, history
  <2>3. \A t \in Gens : reading[t] # "none" => reading'[t] # "none"
    BY <1>0, <2>1 DEF ReadingOK
  <2> QED BY <2>2, <2>3 DEF Later
<1>2. ASSUME NEW type, Receives(s, type), type # "Subscribed", Consume(s), UNCHANGED <<g, reading>>
      PROVE  Unused' /\ Naming'
  <2>1. wire[s].s2c # <<>> /\ wire[s].s2c[1].type # "Subscribed" /\ reading[s] = "read"
    BY <1>0, <1>2, GotFits
  <2>2. Others(s) /\ wire'[s].s2c = Tail(wire[s].s2c) /\ wire'[s].table = wire[s].table
    BY <1>0, <1>2, TakeParts
  <2>3. On(s)' => On(s)
    BY <1>1, LaterOn
  <2>4. Named(wire'[s].s2c, wire'[s].table, g'.device_by_sub, On(s)')
    BY <1>0, <1>2, <2>1, <2>2, <2>3, NamedTail
  <2>5. Forgets /\ reading'[s] # "none"
    BY <1>2, <2>1 DEF Forgets
  <2> QED BY <1>1, <2>2, <2>4, <2>5, NamingOne
<1>3. CASE OnAdded(s)
  BY <1>2, <1>3 DEF OnAdded
<1>4. CASE OnRelocate(s)
  BY <1>2, <1>4 DEF OnRelocate
<1>5. CASE ReaderEnds(s)
  <2>1. Calmly /\ Forgets
    BY <1>5 DEF ReaderEnds, Calmly, Calm, Forgets
  <2> QED BY <1>1, <2>1, NamingCalm
<1>6. CASE OnSubscribed(s)
  <2>1. /\ wire[s].s2c # <<>> /\ reading[s] = "read" /\ Got(s) = wire[s].s2c[1]
        /\ Got(s).type = "Subscribed" /\ Got(s).device \in Devices /\ Got(s).sub \in Subs
    BY <1>0, <1>6, GotFits, MsgParts DEF OnSubscribed, Fits
  <2>2. g'.device_by_sub = [g.device_by_sub EXCEPT ![Got(s).sub] = Got(s).device]
    <3> DEFINE device == Got(s).device
               sub    == Got(s).sub
    <3>1. g' = Learn(g, device, sub) /\ device \in Devices /\ sub \in Subs
      BY <1>6, <2>1 DEF OnSubscribed
    <3> HIDE DEF device, sub
    <3>2. Learn(g, device, sub).device_by_sub = [g.device_by_sub EXCEPT ![sub] = device]
      <4>1. g \in Inner /\ device \in Devices /\ sub \in Subs
        BY <1>0, <3>1
      <4> QED BY <4>1, LearnsHandle
    <3> QED BY <3>1, <3>2, Zenon DEF device, sub
  <2>3. Others(s) /\ wire'[s].s2c = Tail(wire[s].s2c) /\ wire'[s].table = wire[s].table
    BY <1>0, <1>6, TakeParts DEF OnSubscribed
  <2>4. On(s)' => On(s)
    BY <1>1, LaterOn
  <2>5. Named(wire'[s].s2c, wire'[s].table, g'.device_by_sub, On(s)')
    BY <1>0, <2>1, <2>2, <2>3, <2>4, NamedTail
  <2>6. UNCHANGED reading /\ crossed' = crossed \cup {t \in Gens : t > s /\ reading[t] # "none"}
    BY <1>6 DEF OnSubscribed
  <2>7. ASSUME NEW t \in Gens, t # s
        PROVE  Named(wire'[t].s2c, wire'[t].table, g'.device_by_sub, On(t)')
    <3>1. wire'[t] = wire[t]
      BY <2>3, <2>7 DEF Others
    <3>2. CASE reading[t] = "none"
      BY <3>1, <3>2, NamedEmpty DEF NInv, Unused
    <3>3. CASE reading[t] # "none"
      <4>1. t > s \/ s > t
        BY <2>7, ConstantFacts
      <4>2. ~On(t)'
        BY <2>1, <2>6, <3>3, <4>1 DEF On, Newest
      <4> QED BY <1>1, <3>1, <4>2, NamingLess
    <3> QED BY <3>2, <3>3
  <2>8. Naming'
    BY <2>5, <2>7 DEF Naming
  <2>9. Unused'
    BY <2>1, <2>3, <2>6 DEF NInv, Unused, Others
  <2> QED BY <2>8, <2>9
<1> QED BY <1>3, <1>4, <1>5, <1>6 DEF ReaderStep

LEMMA StepsKeepNaming ==
  ASSUME NInv, [Next]_vars
  PROVE  NInv'
<1>1. SInv' /\ LInv'
  BY StepsKeepSockets, StepsKeepLInv DEF NInv, SInv
<1>2. ASSUME UNCHANGED vars PROVE Unused' /\ Naming'
  <2>1. Later /\ Forgets /\ Calmly
    BY <1>2 DEF vars, Later, Forgets, Calmly, Calm
  <2> QED BY <1>1, <2>1, NamingCalm
<1> QED BY <1>1, <1>2, CallsNaming, DriverNaming, ReaderNaming, ServerNaming DEF Next, NInv

LEMMA InitNaming == Init => NInv
<1> SUFFICES ASSUME Init PROVE NInv
  OBVIOUS
<1>1. \A s \in Gens : Closed(wire[s])
  BY DEF Init, ClosedWire, Closed
<1> QED BY <1>1, InitFresh, NamedEmpty, Zenon DEF NInv, Unused, Naming, Closed

\* dispatch stamps an event of the newest socket with its device or with no name,
\* whatever handles the server gave, took back and gave again, unless something of
\* an older socket came across.  (Events of older sockets are not covered.)
THEOREM StampsRight == Spec => []NamedRight
<1>1. NInv /\ [Next]_vars => NInv'
  BY StepsKeepNaming
<1>2. NInv => NamedRight
  <2> SUFFICES ASSUME NInv, NEW s \in Gens \ crossed, Receives(s, "Added"),
                      \A t \in Gens : t > s => reading[t] = "none"
               PROVE  g.device_by_sub[Got(s).sub] \in {Got(s).device, Unknown}
    BY DEF NamedRight
  <2>1. /\ wire[s].s2c \in Seq(FitMsg) /\ wire[s].s2c # <<>> /\ Got(s) = wire[s].s2c[1]
        /\ Got(s).type = "Added"
    BY GotFits, WireParts DEF NInv, SInv, LInv
  <2>2. On(s) /\ 1 \in 1 .. Len(wire[s].s2c) /\ Untold(wire[s].s2c, 1, Got(s).sub)
    BY <2>1 DEF On, Newest, Untold
  <2>3. Names(wire[s].s2c, g.device_by_sub, On(s), 1, Got(s).sub, Got(s).device)
    BY <2>1, <2>2 DEF NInv, Naming, Named
  <2> QED BY <2>2, <2>3 DEF Names
<1> QED BY <1>1, <1>2, InitNaming, PTL DEF Spec

-----------------------------------------------------------------------------
(* What is on its way about one device, in either direction.                 *)

Is(m, type, d)    == m.type = type /\ m.device = d
Never(c, type, d) == \A i \in 1 .. Len(c) : ~Is(c[i], type, d)

\* Of what is on its way about d, type comes last.
Last(c, type, undo, d) ==
  \E i \in 1 .. Len(c) : Is(c[i], type, d) /\ \A k \in i + 1 .. Len(c) : ~Is(c[k], undo, d)

LEMMA NeverSend ==
  ASSUME NEW c \in Seq(FitMsg), NEW m \in FitMsg, NEW type, NEW d,
         Never(c, type, d), ~Is(m, type, d)
  PROVE  Never(Append(c, m), type, d)
BY DEF Never

LEMMA NeverTake ==
  ASSUME NEW c \in Seq(FitMsg), c # <<>>, NEW type, NEW d, Never(c, type, d)
  PROVE  Never(Tail(c), type, d)
<1>1. \A i \in 1 .. Len(Tail(c)) : i + 1 \in 1 .. Len(c) /\ Tail(c)[i] = c[i + 1]
  OBVIOUS
<1> QED BY <1>1 DEF Never

LEMMA LastSend ==
  ASSUME NEW c \in Seq(FitMsg), NEW m \in FitMsg, NEW type, NEW undo, NEW d,
         Last(c, type, undo, d), ~Is(m, undo, d)
  PROVE  Last(Append(c, m), type, undo, d)
<1>1. PICK i \in 1 .. Len(c) : Is(c[i], type, d) /\ \A k \in i + 1 .. Len(c) : ~Is(c[k], undo, d)
  BY DEF Last
<1>2. /\ i \in 1 .. Len(Append(c, m)) /\ Append(c, m)[i] = c[i]
      /\ \A k \in i + 1 .. Len(Append(c, m)) : \/ k \in i + 1 .. Len(c) /\ Append(c, m)[k] = c[k]
                                               \/ Append(c, m)[k] = m
  OBVIOUS
<1>3. \A k \in i + 1 .. Len(Append(c, m)) : ~Is(Append(c, m)[k], undo, d)
  BY <1>1, <1>2
<1> QED BY <1>1, <1>2, <1>3 DEF Last

LEMMA LastNew ==
  ASSUME NEW c \in Seq(FitMsg), NEW m \in FitMsg, NEW type, NEW undo, NEW d, Is(m, type, d)
  PROVE  Last(Append(c, m), type, undo, d)
<1>1. /\ Len(c) + 1 \in 1 .. Len(Append(c, m)) /\ Append(c, m)[Len(c) + 1] = m
      /\ (Len(c) + 1) + 1 .. Len(Append(c, m)) = {}
  OBVIOUS
<1> QED BY <1>1 DEF Last

LEMMA LastTake ==
  ASSUME NEW c \in Seq(FitMsg), c # <<>>, NEW type, NEW undo, NEW d, Last(c, type, undo, d)
  PROVE  \/ Last(Tail(c), type, undo, d)
         \/ Is(c[1], type, d) /\ Never(Tail(c), undo, d)
<1>1. PICK i \in 1 .. Len(c) : Is(c[i], type, d) /\ \A k \in i + 1 .. Len(c) : ~Is(c[k], undo, d)
  BY DEF Last
<1>2. \A k \in 1 .. Len(Tail(c)) : k + 1 \in 1 .. Len(c) /\ Tail(c)[k] = c[k + 1]
  OBVIOUS
<1>3. CASE i = 1
  <2>1. \A k \in 1 .. Len(Tail(c)) : k + 1 \in i + 1 .. Len(c)
    BY <1>3
  <2> QED BY <1>1, <1>2, <1>3, <2>1 DEF Never
<1>4. CASE i # 1
  <2>1. i - 1 \in 1 .. Len(Tail(c)) /\ Tail(c)[i - 1] = c[i]
    BY <1>4
  <2>2. \A k \in (i - 1) + 1 .. Len(Tail(c)) : k + 1 \in i + 1 .. Len(c) /\ Tail(c)[k] = c[k + 1]
    BY <1>2, <1>4
  <2>3. \A k \in (i - 1) + 1 .. Len(Tail(c)) : ~Is(Tail(c)[k], undo, d)
    BY <1>1, <2>2
  <2> QED BY <1>1, <2>1, <2>3 DEF Last
<1> QED BY <1>3, <1>4

\* The last answer about d gives it handle u.
Given(q, u, d) ==
  \A j \in 1 .. Len(q) :
    Is(q[j], "Subscribed", d) /\ (\A k \in j + 1 .. Len(q) : ~Is(q[k], "Subscribed", d))
    => q[j].sub = u

\* d has handle u at the server, and both tables of the listener say so as far as
\* they have been told.
Holds(q, t, h, b, u, d) ==
  /\ t[u] = d
  /\ Untold(q, Len(q) + 1, u) => h[u] = d
  /\ Given(q, u, d)
  /\ Never(q, "Subscribed", d) => b[d] = u

ByDevice == [Devices -> Subs \cup {None}]

LEMMA GivenSend ==
  ASSUME NEW q \in Seq(FitMsg), NEW m \in FitMsg, NEW u, NEW d, Given(q, u, d),
         Is(m, "Subscribed", d) => m.sub = u
  PROVE  Given(Append(q, m), u, d)
<1> DEFINE p == Append(q, m)
           n == Len(q)
<1>1. (\A k \in 1 .. n : p[k] = q[k]) /\ p[n + 1] = m /\ Len(p) = n + 1 /\ n \in Nat
  OBVIOUS
<1> HIDE DEF p, n
<1> SUFFICES ASSUME NEW j \in 1 .. n + 1, Is(p[j], "Subscribed", d),
                    \A k \in j + 1 .. n + 1 : ~Is(p[k], "Subscribed", d)
             PROVE  p[j].sub = u
  BY <1>1, Zenon DEF Given, p
<1>2. CASE j = n + 1
  BY <1>1, <1>2
<1>3. CASE j # n + 1
  <2>1. j \in 1 .. n /\ \A k \in j + 1 .. n : k \in j + 1 .. n + 1 /\ p[k] = q[k]
    BY <1>1, <1>3
  <2>2. p[j] = q[j] /\ \A k \in j + 1 .. n : ~Is(q[k], "Subscribed", d)
    BY <1>1, <2>1
  <2> QED BY <2>1, <2>2 DEF Given, n
<1> QED BY <1>2, <1>3

LEMMA GivenTake ==
  ASSUME NEW q \in Seq(FitMsg), q # <<>>, NEW u, NEW d, Given(q, u, d)
  PROVE  /\ Given(Tail(q), u, d)
         /\ Is(q[1], "Subscribed", d) /\ Never(Tail(q), "Subscribed", d) => q[1].sub = u
<1>1. \A k \in 1 .. Len(Tail(q)) : k + 1 \in 1 .. Len(q) /\ Tail(q)[k] = q[k + 1]
  OBVIOUS
<1>2. ASSUME NEW j \in 1 .. Len(Tail(q)), Is(Tail(q)[j], "Subscribed", d),
             \A k \in j + 1 .. Len(Tail(q)) : ~Is(Tail(q)[k], "Subscribed", d)
      PROVE  Tail(q)[j].sub = u
  <2>1. ASSUME NEW k \in (j + 1) + 1 .. Len(q) PROVE ~Is(q[k], "Subscribed", d)
    <3>1. k - 1 \in j + 1 .. Len(Tail(q)) /\ Tail(q)[k - 1] = q[k]
      OBVIOUS
    <3> QED BY <1>2, <3>1
  <2> QED BY <1>1, <1>2, <2>1 DEF Given
<1>3. ASSUME Is(q[1], "Subscribed", d), Never(Tail(q), "Subscribed", d)
      PROVE  q[1].sub = u
  <2>1. ASSUME NEW k \in 1 + 1 .. Len(q) PROVE ~Is(q[k], "Subscribed", d)
    <3>1. k - 1 \in 1 .. Len(Tail(q)) /\ Tail(q)[k - 1] = q[k]
      OBVIOUS
    <3> QED BY <1>3, <3>1 DEF Never
  <2>2. 1 \in 1 .. Len(q)
    OBVIOUS
  <2> QED BY <1>3, <2>1, <2>2 DEF Given
<1> QED BY <1>2, <1>3 DEF Given

\* The server says something about another device and another handle.
LEMMA HoldsSend ==
  ASSUME NEW q \in Seq(FitMsg), NEW m \in FitMsg, NEW t, NEW t2, NEW h, NEW b,
         NEW u \in Subs, NEW d \in Devices, Holds(q, t, h, b, u, d), t2[u] = d,
         Is(m, "Subscribed", d) => m.sub = u
  PROVE  Holds(Append(q, m), t2, h, b, u, d)
<1>1. /\ Len(Append(q, m)) = Len(q) + 1 /\ Len(q) \in Nat
      /\ \A k \in 1 .. Len(q) : Append(q, m)[k] = q[k] /\ k \in 1 .. Len(q) + 1
      /\ 1 .. (Len(q) + 1) - 1 = 1 .. Len(q) /\ 1 .. (Len(q) + 2) - 1 = 1 .. Len(q) + 1
  OBVIOUS
<1>2. Untold(Append(q, m), Len(Append(q, m)) + 1, u) => Untold(q, Len(q) + 1, u)
  BY <1>1 DEF Untold
<1>3. Never(Append(q, m), "Subscribed", d) => Never(q, "Subscribed", d)
  BY <1>1 DEF Never
<1>4. Given(Append(q, m), u, d)
  BY GivenSend DEF Holds
<1> QED BY <1>2, <1>3, <1>4 DEF Holds

\* The server has just given d its handle.
LEMMA HoldsNew ==
  ASSUME NEW q \in Seq(FitMsg), NEW m \in FitMsg, NEW t, NEW h, NEW b,
         NEW u \in Subs, NEW d \in Devices, t[u] = d, Is(m, "Subscribed", d), m.sub = u
  PROVE  Holds(Append(q, m), t, h, b, u, d)
<1> DEFINE p == Append(q, m)
           n == Len(q)
<1>1. p[n + 1] = m /\ Len(p) = n + 1 /\ n \in Nat
  OBVIOUS
<1> HIDE DEF p, n
<1>2. ~Never(p, "Subscribed", d)
  BY <1>1 DEF Never
<1>3. ~Untold(p, Len(p) + 1, u)
  BY <1>1 DEF Untold, IsSub, Is
<1>4. Given(p, u, d)
  <2> SUFFICES ASSUME NEW j \in 1 .. n + 1, Is(p[j], "Subscribed", d),
                      \A k \in j + 1 .. n + 1 : ~Is(p[k], "Subscribed", d)
               PROVE  p[j].sub = u
    BY <1>1, Zenon DEF Given
  <2>1. j = n + 1 \/ n + 1 \in j + 1 .. n + 1
    BY <1>1
  <2> QED BY <1>1, <2>1
<1> QED BY <1>2, <1>3, <1>4 DEF Holds, p

\* The read loop takes a message, and learns from a Subscribed.
LEMMA HoldsTake ==
  ASSUME NEW q \in Seq(FitMsg), q # <<>>, NEW t, NEW h \in Handles, NEW h2,
         NEW b \in ByDevice, NEW b2, NEW u \in Subs, NEW d \in Devices,
         Holds(q, t, h, b, u, d), Told(q, Len(q) + 1, u, d),
         \/ h2 = h /\ b2 = b /\ q[1].type # "Subscribed"
         \/ /\ q[1].type = "Subscribed"
            /\ h2 = [h EXCEPT ![q[1].sub] = q[1].device]
            /\ b2 = [b EXCEPT ![q[1].device] = q[1].sub]
  PROVE  Holds(Tail(q), t, h2, b2, u, d)
<1>1. /\ \A k \in 1 .. Len(Tail(q)) : k + 1 \in 1 .. Len(q) /\ Tail(q)[k] = q[k + 1]
      /\ Len(Tail(q)) = Len(q) - 1 /\ Len(q) \in Nat /\ 1 \in 1 .. Len(q)
      /\ 1 \in 1 .. (Len(q) + 1) - 1
      /\ \A k \in 2 .. Len(q) : k - 1 \in 1 .. (Len(Tail(q)) + 1) - 1 /\ Tail(q)[k - 1] = q[k]
      /\ \A k \in 2 .. Len(q) : k - 1 \in 1 .. Len(Tail(q))
  OBVIOUS
<1>2. ASSUME Untold(Tail(q), Len(Tail(q)) + 1, u) PROVE h2[u] = d
  <2>1. \A k \in 2 .. Len(q) : ~IsSub(q[k], u)
    BY <1>1, <1>2 DEF Untold
  <2>2. CASE IsSub(q[1], u)
    <3>1. \A k \in 1 + 1 .. (Len(q) + 1) - 1 : ~IsSub(q[k], u)
      BY <1>1, <2>1
    <3>2. q[1].device = d
      BY <1>1, <2>2, <3>1 DEF Told
    <3> QED BY <2>2, <3>2 DEF IsSub, Handles
  <2>3. CASE ~IsSub(q[1], u)
    <3>1. Untold(q, Len(q) + 1, u)
      BY <1>1, <2>1, <2>3 DEF Untold
    <3>2. h[u] = d
      BY <3>1 DEF Holds
    <3> QED BY <2>3, <3>2 DEF IsSub, Handles
  <2> QED BY <2>2, <2>3
<1>3. ASSUME Never(Tail(q), "Subscribed", d) PROVE b2[d] = u
  <2>1. CASE Is(q[1], "Subscribed", d)
    <3>1. q[1].sub = u
      BY <1>3, <2>1, GivenTake DEF Holds
    <3> QED BY <2>1, <3>1 DEF Is, ByDevice
  <2>2. CASE ~Is(q[1], "Subscribed", d)
    <3>1. \A k \in 2 .. Len(q) : ~Is(q[k], "Subscribed", d)
      BY <1>1, <1>3 DEF Never
    <3>2. Never(q, "Subscribed", d)
      BY <1>1, <2>2, <3>1 DEF Never
    <3>3. b[d] = u
      BY <3>2 DEF Holds
    <3> QED BY <2>2, <3>3 DEF Is, ByDevice
  <2> QED BY <2>1, <2>2
<1>4. Given(Tail(q), u, d)
  BY GivenTake DEF Holds
<1> QED BY <1>2, <1>3, <1>4 DEF Holds

-----------------------------------------------------------------------------
(* A device has one handle on a socket; calls and dialing tasks ask for what *)
(* is subscribed, or was until somebody else's call.                         *)

OneHandle == \A s \in Gens : \A a, b \in Subs :
  wire[s].table[a] = wire[s].table[b] /\ wire[s].table[a] # Unknown => a = b

CallsMean == \A p \in Procs :
  /\ call[p].pc = "subscribe"   => call[p].device \in g.subscriptions \cup raced
  /\ call[p].pc = "unsubscribe" => call[p].device \notin g.subscriptions \ raced

DriversMean == \A d \in Drivers :
  driver[d].pc = "send" => driver[d].todo \subseteq g.subscriptions \cup silent \cup raced

\* The dialing tasks that ask for devices are left alone, and none joins them.
Asking == {"resubscribe", "send"}
KeepsAsking(f, h) ==
  \A d \in Drivers : (f[d].pc \in Asking => h[d] = f[d]) /\ (h[d].pc = "send" => h[d] = f[d])

LEMMA AskingPut ==
  ASSUME DriversOK(driver), NEW d, d \in Drivers, NEW v, driver' = [driver EXCEPT ![d] = v],
         driver[d].pc \notin Asking, v.pc # "send"
  PROVE  KeepsAsking(driver, driver')
<1>1. \A e \in Drivers : driver'[e] = IF e = d THEN v ELSE driver[e]
  BY DEF DriversOK
<1> QED BY <1>1 DEF KeepsAsking

LEMMA AskingStep ==
  ASSUME DriversOK(driver), NEW d \in Drivers, NEW x, x # "send",
         driver[d].pc \notin Asking, Step(d, x)
  PROVE  KeepsAsking(driver, driver')
<1> DEFINE v == [driver[d] EXCEPT !.pc = x]
<1>1. v.pc = x
  BY DriverParts, Zenon DEF Driver
<1>2. driver' = [driver EXCEPT ![d] = v]
  BY Zenon DEF Step
<1> HIDE DEF v
<1> QED BY <1>1, <1>2, AskingPut

LEMMA AskingFinish ==
  ASSUME DriversOK(driver), NEW d \in Drivers, driver[d].pc \notin Asking, Finish(d)
  PROVE  KeepsAsking(driver, driver')
<1>1. IdleDriver.pc # "send"
  BY DEF IdleDriver
<1> QED BY <1>1, AskingPut DEF Finish

LEMMA AskingErr ==
  ASSUME DriversOK(driver), NEW d \in Drivers, driver[d].pc \notin Asking, DialErr(d)
  PROVE  KeepsAsking(driver, driver')
<1>1. \/ Finish(d) \/ Step(d, "gone") \/ Step(d, "failed")
  BY Zenon DEF DialErr
<1> QED BY <1>1, AskingStep, AskingFinish

LEMMA AskingSpawn ==
  ASSUME DriversOK(driver), NEW v, v.pc # "send", Spawn(v)
  PROVE  KeepsAsking(driver, driver')
<1>1. PICK d \in Drivers : driver' = [driver EXCEPT ![d] = v] /\ driver[d].pc = "idle"
  BY Zenon DEF Spawn
<1>2. driver[d].pc \notin Asking
  BY <1>1 DEF Asking
<1> QED BY <1>1, <1>2, AskingPut

\* The steps of a dialing task outside resubscribe.
LEMMA DriverAsks ==
  ASSUME LInv, NEW d \in Drivers, DriverStep(d), ~Resubscribe(d), ~ResubscribeSend(d)
  PROVE  KeepsAsking(driver, driver')
<1>0. DriversOK(driver) /\ driver[d] \in Driver
  BY DriverParts DEF LInv
<1>1. driver[d].pc \notin Asking
  BY DEF DriverStep, SocketClosed, Wake, HandleRelocate, Dial, DialHello, DialRelocated,
         DialFails, Install, ReconnectFailed, Asking
<1>2. CASE Dial(d)
  <2> DEFINE n == g.dial_gen + 1
             v == [driver[d] EXCEPT !.pc = "connecting", !.gen = n]
  <2>1. driver' = [driver EXCEPT ![d] = v]
    BY <1>2, Zenon DEF Dial
  <2>2. v.pc = "connecting"
    BY <1>0, Zenon DEF Driver
  <2> HIDE DEF v
  <2> QED BY <1>0, <1>1, <2>1, <2>2, AskingPut
<1>3. CASE ReconnectFailed(d)
  <2> DEFINE v == [driver[d] EXCEPT !.pc = "closed", !.gen = g.dial_gen]
  <2>1. driver' = [driver EXCEPT ![d] = v]
    BY <1>3, Zenon DEF ReconnectFailed
  <2>2. v.pc = "closed"
    BY <1>0, Zenon DEF Driver
  <2> HIDE DEF v
  <2> QED BY <1>0, <1>1, <2>1, <2>2, AskingPut
<1>4. CASE \/ Finish(d) \/ DialErr(d)
           \/ \E x \in {"sleep", "dial", "install", "relocate", "resubscribe"} : Step(d, x)
  BY <1>0, <1>1, <1>4, AskingStep, AskingFinish, AskingErr
<1> QED BY <1>2, <1>3, <1>4, Zenon
        DEF DriverStep, SocketClosed, Wake, HandleRelocate, DialHello, DialRelocated,
            DialFails, Install

LEMMA ReaderAsks ==
  ASSUME LInv, NEW s \in Gens, ReaderStep(s)
  PROVE  KeepsAsking(driver, driver')
<1>1. CASE UNCHANGED driver
  BY <1>1 DEF KeepsAsking
<1>2. CASE OnRelocate(s)
  <2>1. [IdleDriver EXCEPT !.pc = "relocate"].pc # "send"
    BY DEF IdleDriver
  <2> QED BY <1>2, <2>1, AskingSpawn DEF OnRelocate, LInv
<1>3. CASE ReaderEnds(s)
  <2>1. [IdleDriver EXCEPT !.pc = "closed", !.origin = "reconnect", !.gen = s].pc # "send"
    BY DEF IdleDriver
  <2> QED BY <1>3, <2>1, AskingSpawn DEF ReaderEnds, LInv
<1> QED BY <1>1, <1>2, <1>3 DEF ReaderStep, OnSubscribed, OnAdded

\* Nothing is unsubscribed.
Grows == /\ g'.subscriptions = g.subscriptions /\ silent \subseteq silent' /\ raced \subseteq raced'
         /\ raced' \subseteq raced

LEMMA MeanKept ==
  ASSUME DriversMean, KeepsAsking(driver, driver'), Grows
  PROVE  DriversMean'
<1> SUFFICES ASSUME NEW d \in Drivers, driver'[d].pc = "send"
             PROVE  driver'[d].todo \subseteq g'.subscriptions \cup silent' \cup raced'
  BY DEF DriversMean
<1>1. driver'[d] = driver[d]
  BY DEF KeepsAsking
<1> QED BY <1>1 DEF DriversMean, Grows

\* What a call means, and whom it may cross.
LEMMA CallAt ==
  ASSUME CallsOK(call), NEW p \in Procs, NEW c, call' = [call EXCEPT ![p] = c]
  PROVE  call'[p] = c /\ \A q \in Procs : q # p => call'[q] = call[q]
BY DEF CallsOK

LEMMA SubscribeParts ==
  ASSUME LInv, NEW p \in Procs, NEW device \in Devices, SubscribeBegin(p, device)
  PROVE  /\ call[p].pc = "idle" /\ call'[p].pc = "subscribe" /\ call'[p].device = device
         /\ \A q \in Procs : q # p => call'[q] = call[q]
         /\ g'.subscriptions = g.subscriptions \cup {device}
         /\ g'.device_by_sub = g.device_by_sub /\ g'.sub_by_device = g.sub_by_device
         /\ g'.out_tx = g.out_tx
         /\ raced \subseteq raced' /\ raced' \subseteq raced \cup {device}
         /\ (\E q \in Procs : call[q].pc = "unsubscribe" /\ call[q].device = device)
              => device \in raced'
         /\ UNCHANGED <<driver, wire, silent, crossed>>
<1> DEFINE c == [IdleCall EXCEPT !.pc = "subscribe", !.device = device]
<1>1. call[p].pc = "idle" /\ call' = [call EXCEPT ![p] = c]
  BY Zenon DEF SubscribeBegin, Calls
<1>2. c.pc = "subscribe" /\ c.device = device
  BY DEF IdleCall
<1> HIDE DEF c
<1>3. call'[p] = c /\ \A q \in Procs : q # p => call'[q] = call[q]
  BY <1>1, CallAt DEF LInv
<1>4. /\ g'.subscriptions = g.subscriptions \cup {device}
      /\ g'.device_by_sub = g.device_by_sub /\ g'.sub_by_device = g.sub_by_device
      /\ g'.out_tx = g.out_tx
  BY Zenon DEF SubscribeBegin, LInv, Inner
<1>5. /\ raced \subseteq raced' /\ raced' \subseteq raced \cup {device}
      /\ (\E q \in Procs : call[q].pc = "unsubscribe" /\ call[q].device = device)
           => device \in raced'
  BY DEF SubscribeBegin, Races
<1> QED BY <1>1, <1>2, <1>3, <1>4, <1>5 DEF SubscribeBegin

LEMMA UnsubscribeParts ==
  ASSUME LInv, NEW p \in Procs, NEW device \in Devices, UnsubscribeBegin(p, device)
  PROVE  /\ call[p].pc = "idle"
         /\ \/ call'[p].pc = "idle" /\ device \in silent'
            \/ call'[p].pc = "unsubscribe" /\ call'[p].device = device
         /\ \A q \in Procs : q # p => call'[q] = call[q]
         /\ g'.subscriptions = g.subscriptions \ {device}
         /\ g'.device_by_sub = g.device_by_sub
         /\ g'.sub_by_device = [g.sub_by_device EXCEPT ![device] = None]
         /\ g'.out_tx = g.out_tx
         /\ raced \subseteq raced' /\ raced' \subseteq raced \cup {device}
         /\ (\E q \in Procs : call[q].pc = "subscribe" /\ call[q].device = device)
              => device \in raced'
         /\ silent \subseteq silent' /\ silent' \subseteq silent \cup {device}
         /\ (\E d \in Drivers : device \in driver[d].todo) => device \in silent'
         /\ UNCHANGED <<driver, wire, crossed>>
<1> DEFINE sub == g.sub_by_device[device]
           r == [pc |-> "unsubscribe", device |-> device, sub |-> sub]
           c == IF sub = None THEN IdleCall ELSE r
<1>1. call[p].pc = "idle" /\ call' = [call EXCEPT ![p] = c]
  BY Zenon DEF UnsubscribeBegin, Calls
<1>2. \/ sub = None /\ c.pc = "idle"
      \/ c.pc = "unsubscribe" /\ c.device = device
  BY DEF IdleCall
<1> HIDE DEF c
<1>3. call'[p] = c /\ \A q \in Procs : q # p => call'[q] = call[q]
  BY <1>1, CallAt DEF LInv
<1>4. /\ g'.subscriptions = g.subscriptions \ {device}
      /\ g'.device_by_sub = g.device_by_sub
      /\ g'.sub_by_device = [g.sub_by_device EXCEPT ![device] = None]
      /\ g'.out_tx = g.out_tx
  BY Zenon DEF UnsubscribeBegin, LInv, Inner
<1>5. /\ raced \subseteq raced' /\ raced' \subseteq raced \cup {device}
      /\ (\E q \in Procs : call[q].pc = "subscribe" /\ call[q].device = device)
           => device \in raced'
  BY DEF UnsubscribeBegin, Races
<1>6. /\ silent \subseteq silent' /\ silent' \subseteq silent \cup {device}
      /\ (\E d \in Drivers : device \in driver[d].todo) => device \in silent'
      /\ sub = None => device \in silent'
  BY DEF UnsubscribeBegin
<1> QED BY <1>1, <1>2, <1>3, <1>4, <1>5, <1>6 DEF UnsubscribeBegin

\* The calls that end.
LEMMA ReturnParts ==
  ASSUME LInv, NEW p \in Procs, Returns(p)
  PROVE  call'[p].pc = "idle" /\ \A q \in Procs : q # p => call'[q] = call[q]
<1>1. IdleCall.pc = "idle"
  BY DEF IdleCall
<1> QED BY <1>1, CallAt DEF LInv, Returns

MInv == CallsMean /\ DriversMean

LEMMA CallsKeepMeaning ==
  ASSUME LInv, MInv, NEW p \in Procs, NewCall(p) \/ CallStep(p)
  PROVE  MInv'
<1>1. ASSUME NEW device \in Devices, SubscribeBegin(p, device) PROVE MInv'
  <2>1. CallsMean'
    BY <1>1, SubscribeParts DEF MInv, CallsMean
  <2>2. DriversMean'
    BY <1>1, SubscribeParts DEF MInv, DriversMean
  <2> QED BY <2>1, <2>2 DEF MInv
<1>2. ASSUME NEW device \in Devices, UnsubscribeBegin(p, device) PROVE MInv'
  <2>0. /\ g'.subscriptions = g.subscriptions \ {device} /\ UNCHANGED driver
        /\ raced \subseteq raced' /\ silent \subseteq silent'
        /\ (\E d \in Drivers : device \in driver[d].todo) => device \in silent'
    BY <1>2, UnsubscribeParts
  <2>1. CallsMean'
    <3>1. /\ call'[p].pc # "subscribe"
          /\ call'[p].pc = "unsubscribe" => call'[p].device = device
          /\ \A q \in Procs : q # p => call'[q] = call[q]
          /\ raced' \subseteq raced \cup {device}
          /\ (\E q \in Procs : call[q].pc = "subscribe" /\ call[q].device = device)
               => device \in raced'
      BY <1>2, UnsubscribeParts
    <3>2. ASSUME NEW q \in Procs, q # p
          PROVE  /\ call'[q].pc = "subscribe" => call'[q].device \in g'.subscriptions \cup raced'
                 /\ call'[q].pc = "unsubscribe" => call'[q].device \notin g'.subscriptions \ raced'
      BY <2>0, <3>1, <3>2 DEF MInv, CallsMean
    <3> QED BY <2>0, <3>1, <3>2 DEF CallsMean
  <2>2. DriversMean'
    <3> SUFFICES ASSUME NEW d \in Drivers, driver[d].pc = "send", NEW x \in driver[d].todo
                 PROVE  x \in g'.subscriptions \cup silent' \cup raced'
      BY <2>0 DEF DriversMean
    <3>1. x \in g.subscriptions \cup silent \cup raced
      BY DEF MInv, DriversMean
    <3>2. x = device => x \in silent'
      BY <2>0
    <3> QED BY <2>0, <3>1, <3>2
  <2> QED BY <2>1, <2>2 DEF MInv
<1>3. CASE Recv(p) \/ Close(p) \/ CallStep(p)
  <2>1. g'.subscriptions = g.subscriptions /\ UNCHANGED <<driver, silent, raced>>
    <3>1. CASE Close(p)
      BY <3>1, Zenon DEF Close, LInv, Inner, history
    <3> QED BY <1>3, <3>1 DEF Recv, CallStep, SubscribeSend, UnsubscribeSend, history
  <2>2. UNCHANGED call \/ Returns(p)
    BY <1>3, Zenon DEF Recv, Close, Calls, Returns, CallStep, SubscribeSend, UnsubscribeSend
  <2>3. CallsMean'
    BY <2>1, <2>2, ReturnParts DEF MInv, CallsMean
  <2> QED BY <2>1, <2>3 DEF MInv, DriversMean
<1> QED BY <1>1, <1>2, <1>3 DEF NewCall

LEMMA StepsKeepMeaning ==
  ASSUME LInv, MInv, [Next]_vars
  PROVE  MInv'
<1>0. g \in Inner
  BY DEF LInv
<1>1. ASSUME UNCHANGED <<call, silent, raced>>, g'.subscriptions = g.subscriptions,
             KeepsAsking(driver, driver')
      PROVE  MInv'
  <2>1. Grows
    BY <1>1 DEF Grows
  <2>2. CallsMean'
    BY <1>1 DEF MInv, CallsMean
  <2> QED BY <1>1, <2>1, <2>2, MeanKept DEF MInv
<1>2. ASSUME UNCHANGED vars PROVE MInv'
  BY <1>1, <1>2 DEF vars, KeepsAsking
<1>3. ASSUME NEW d \in Drivers, DriverStep(d) PROVE MInv'
  <2>1. UNCHANGED <<call, silent, raced>>
    BY <1>3, Zenon DEF DriverStep, SocketClosed, Wake, HandleRelocate, Dial, DialHello,
           DialRelocated, DialFails, Install, Resubscribe, ResubscribeSend, ReconnectFailed,
           history
  <2>2. g'.subscriptions = g.subscriptions
    <3>1. ForgetHandles(g) \in Inner /\ ForgetHandles(g).subscriptions = g.subscriptions
      BY <1>0, ForgetType
    <3>2. CASE SocketClosed(d)
      <4> DEFINE i == ForgetHandles(g)
      <4>1. UNCHANGED g \/ g' = [i EXCEPT !.out_tx = None,
                                   !.state = IF g.intentional THEN "Closed" ELSE "Reconnecting"]
        BY <3>2, Zenon DEF SocketClosed
      <4>2. UNCHANGED g \/ g'.subscriptions = i.subscriptions
        BY <3>1, <4>1, Zenon DEF Inner
      <4> QED BY <3>1, <4>2
    <3>3. CASE Dial(d) \/ Install(d)
      BY <1>0, <3>3, Zenon DEF Dial, Install, Inner
    <3> QED BY <1>3, <3>1, <3>2, <3>3
            DEF DriverStep, Wake, HandleRelocate, DialHello, DialRelocated, DialFails,
                Resubscribe, ResubscribeSend, ReconnectFailed
  <2>3. CASE ~Resubscribe(d) /\ ~ResubscribeSend(d)
    BY <1>1, <1>3, <2>1, <2>2, <2>3, DriverAsks
  <2>4. ASSUME NEW v, driver' = [driver EXCEPT ![d] = v],
               v.pc = "send" => v.todo \subseteq g.subscriptions \cup silent \cup raced
        PROVE  MInv'
    <3>1. \A e \in Drivers : driver'[e] = IF e = d THEN v ELSE driver[e]
      BY <2>4 DEF LInv, DriversOK
    <3>2. DriversMean'
      BY <2>1, <2>2, <2>4, <3>1 DEF MInv, DriversMean
    <3> QED BY <2>1, <2>2, <3>2 DEF MInv, CallsMean
  <2>5. IdleDriver.pc # "send"
    BY DEF IdleDriver
  <2>6. CASE Resubscribe(d)
    <3> DEFINE v == [driver[d] EXCEPT !.pc = "send", !.todo = Wanted]
    <3>1. Finish(d) \/ driver' = [driver EXCEPT ![d] = v]
      BY <2>6, Zenon DEF Resubscribe
    <3>2. v.todo = g.subscriptions
      BY DriverParts, Zenon DEF LInv, Driver, Wanted
    <3> HIDE DEF v
    <3> QED BY <2>4, <2>5, <3>1, <3>2 DEF Finish
  <2>7. CASE ResubscribeSend(d)
    <3>1. PICK device \in driver[d].todo :
            Finish(d) \/ driver' = [driver EXCEPT ![d].todo = @ \ {device}]
      BY <2>7, Zenon DEF ResubscribeSend
    <3> DEFINE v == [driver[d] EXCEPT !.todo = @ \ {device}]
    <3>2. v.todo = driver[d].todo \ {device}
      BY DriverParts, Zenon DEF LInv, Driver
    <3>3. Finish(d) \/ driver' = [driver EXCEPT ![d] = v]
      BY <3>1, Zenon
    <3>4. driver[d].todo \subseteq g.subscriptions \cup silent \cup raced
      BY <2>7 DEF ResubscribeSend, MInv, DriversMean
    <3> HIDE DEF v
    <3> QED BY <2>4, <2>5, <3>2, <3>3, <3>4 DEF Finish
  <2> QED BY <2>3, <2>6, <2>7
<1>4. ASSUME NEW s \in Gens, ReaderStep(s) PROVE MInv'
  <2>1. UNCHANGED <<call, silent, raced>>
    BY <1>4, Zenon DEF ReaderStep, OnSubscribed, OnAdded, OnRelocate, ReaderEnds, history
  <2>2. g'.subscriptions = g.subscriptions
    <3>1. CASE OnSubscribed(s)
      BY <1>0, <3>1, Zenon DEF OnSubscribed, Learn, Inner
    <3> QED BY <1>4, <3>1 DEF ReaderStep, OnAdded, OnRelocate, ReaderEnds
  <2> QED BY <1>1, <1>4, <2>1, <2>2, ReaderAsks
<1>5. ASSUME NEW s \in Gens, ServerStep(s) \/ Environment(s) PROVE MInv'
  <2>1. UNCHANGED <<g, driver, call, silent, raced>>
    BY <1>5, Zenon DEF ServerStep, Environment, ServerSubscribes, ServerUnsubscribes,
           ServerCloses, ServerAdds, ServerRelocates, Drop, Quiet, history
  <2> QED BY <1>1, <2>1 DEF KeepsAsking
<1> QED BY <1>2, <1>3, <1>4, <1>5, CallsKeepMeaning DEF Next

LEMMA StepsKeepHandles ==
  ASSUME SInv, OneHandle, [Next]_vars
  PROVE  OneHandle'
<1>0. WiresOK(wire) /\ LInv
  BY DEF SInv, LInv
<1>1. ASSUME NEW s \in Gens, Others(s),
             \/ wire'[s].table = wire[s].table
             \/ wire'[s].table = NoSubs
             \/ \E u : wire'[s].table = [wire[s].table EXCEPT ![u] = Unknown]
             \/ \E u \in Subs, d \in Devices :
                  /\ wire'[s].table = [wire[s].table EXCEPT ![u] = d]
                  /\ \A h \in Subs : wire[s].table[h] = d => h = u
      PROVE  OneHandle'
  <2>1. wire[s].table \in Handles
    BY <1>0, WireParts DEF Handles
  <2>2. \A a, b \in Subs : wire'[s].table[a] = wire'[s].table[b] /\ wire'[s].table[a] # Unknown => a = b
    <3>1. ASSUME NEW u \in Subs, NEW d \in Devices,
                 wire'[s].table = [wire[s].table EXCEPT ![u] = d],
                 \A h \in Subs : wire[s].table[h] = d => h = u
          PROVE  \A a, b \in Subs :
                   wire'[s].table[a] = wire'[s].table[b] /\ wire'[s].table[a] # Unknown => a = b
      BY <2>1, <3>1 DEF OneHandle, Handles
    <3>2. ASSUME NEW u, wire'[s].table = [wire[s].table EXCEPT ![u] = Unknown]
          PROVE  \A a, b \in Subs :
                   wire'[s].table[a] = wire'[s].table[b] /\ wire'[s].table[a] # Unknown => a = b
      BY <2>1, <3>2 DEF OneHandle, Handles
    <3>3. CASE wire'[s].table = NoSubs \/ wire'[s].table = wire[s].table
      BY <3>3 DEF OneHandle, NoSubs
    <3> QED BY <1>1, <3>1, <3>2, <3>3
  <2> QED BY <1>1, <2>2 DEF OneHandle, Others
<1>2. ASSUME Calmly PROVE OneHandle'
  <2>1. \A s \in Gens : wire'[s].table = wire[s].table \/ wire'[s].table = NoSubs
    BY <1>2 DEF Calmly, Calm, Closed
  <2> QED BY <2>1 DEF OneHandle, NoSubs
<1>3. ASSUME UNCHANGED wire PROVE OneHandle'
  BY <1>3 DEF OneHandle
<1>4. ASSUME NEW s \in Gens, ReaderStep(s) PROVE OneHandle'
  <2>1. CASE Consume(s)
    BY <1>0, <1>1, <2>1, TakeParts
  <2> QED BY <1>3, <1>4, <2>1 DEF ReaderStep, OnSubscribed, OnAdded, OnRelocate, ReaderEnds
<1>5. ASSUME NEW s \in Gens, ServerStep(s) \/ Environment(s) PROVE OneHandle'
  <2>1. CASE ServerSubscribes(s)
    <3> DEFINE d == wire[s].c2s[1].device
    <3>1. d \in Devices
      BY <1>0, <2>1, AnswerType, MsgParts DEF ServerSubscribes, Fits
    <3>2. PICK u \in Subs :
            /\ Others(s) /\ wire'[s].table = [wire[s].table EXCEPT ![u] = d]
            /\ IF \E h \in Subs : wire[s].table[h] = d THEN wire[s].table[u] = d
               ELSE wire[s].table[u] = Unknown
      BY <1>0, <2>1, GrantParts, Zenon
    <3> HIDE DEF d
    <3>3. d # Unknown
      BY <3>1, ConstantFacts
    <3>4. \A h \in Subs : wire[s].table[h] = d => h = u
      BY <3>2, <3>3 DEF OneHandle
    <3> QED BY <1>1, <3>1, <3>2, <3>4
  <2>2. CASE ServerUnsubscribes(s)
    BY <1>0, <1>1, <2>2, RevokeParts
  <2>3. CASE ServerCloses(s)
    BY <1>0, <1>1, <2>3, EndParts
  <2>4. CASE ServerAdds(s) \/ ServerRelocates(s)
    <3>1. \E m : wire' = [wire EXCEPT ![s].s2c = Append(@, m)]
      BY <2>4, Zenon DEF ServerAdds, ServerRelocates
    <3> QED BY <1>0, <1>1, <3>1, TellParts
  <2>5. CASE Drop(s)
    BY <1>0, <1>1, <2>5, CloseParts DEF Drop, Closed
  <2> QED BY <1>5, <2>1, <2>2, <2>3, <2>4, <2>5 DEF ServerStep, Environment
<1>6. ASSUME UNCHANGED vars PROVE OneHandle'
  BY <1>3, <1>6 DEF vars
<1> QED BY <1>2, <1>4, <1>5, <1>6, CallsCalm, DriverCalm DEF Next

-----------------------------------------------------------------------------
(* The socket in place, not crossed by an older one: every device subscribed *)
(* is being asked for, or its Subscribe is the last word on its way, or it   *)
(* is served; every device unsubscribed is being withdrawn, or its           *)
(* Unsubscribe is the last word on its way, or it is not served.             *)

Asked(d) ==
  \/ \E p \in Procs : call[p].pc = "subscribe" /\ call[p].device = d
  \/ \E e \in Drivers : \/ driver[e].pc = "resubscribe"
                        \/ driver[e].pc = "send" /\ d \in driver[e].todo
Withdrawn(d) == \E p \in Procs : call[p].pc = "unsubscribe" /\ call[p].device = d

Served(s, d) ==
  /\ Never(wire[s].c2s, "Unsubscribe", d)
  /\ \E u \in Subs :
       Holds(wire[s].s2c, wire[s].table, g.device_by_sub, g.sub_by_device, u, d)
Unserved(s, d) ==
  Never(wire[s].c2s, "Subscribe", d) /\ \A u \in Subs : wire[s].table[u] # d

Follows(s, d) ==
  Asked(d) \/ Last(wire[s].c2s, "Subscribe", "Unsubscribe", d) \/ Served(s, d)
Leaves(s, d) ==
  Withdrawn(d) \/ Last(wire[s].c2s, "Unsubscribe", "Subscribe", d) \/ Unserved(s, d)

Meant   == g.subscriptions \ raced
Unmeant == Devices \ (g.subscriptions \cup silent \cup raced)

Tracked(s) == (\A d \in Meant : Follows(s, d)) /\ (\A d \in Unmeant : Leaves(s, d))
Current(s) == g.out_tx = s /\ s \notin crossed /\ wire[s].up
Tracking   == \A s \in Gens : Current(s) => Tracked(s)

TInv == NInv /\ MInv /\ OneHandle /\ Tracking

SameTables == /\ g'.device_by_sub = g.device_by_sub /\ g'.sub_by_device = g.sub_by_device
SameWire(s) == /\ wire'[s].c2s = wire[s].c2s /\ wire'[s].s2c = wire[s].s2c
               /\ wire'[s].table = wire[s].table

LEMMA AskedKept ==
  ASSUME UNCHANGED call, KeepsAsking(driver, driver'), NEW d, Asked(d)
  PROVE  Asked(d)'
<1>1. \A e \in Drivers : driver[e].pc \in {"resubscribe", "send"} => driver'[e] = driver[e]
  BY DEF KeepsAsking, Asking
<1> QED BY <1>1 DEF Asked

\* Nothing happens that concerns the socket.
LEMMA TrackedSame ==
  ASSUME NEW s \in Gens, Tracked(s), SameWire(s), SameTables, UNCHANGED call, Grows,
         KeepsAsking(driver, driver')
  PROVE  Tracked(s)'
<1>1. Meant' = Meant /\ Unmeant' \subseteq Unmeant
  BY DEF Meant, Unmeant, Grows
<1>2. ASSUME NEW d \in Meant PROVE Follows(s, d)'
  <2>1. Asked(d) => Asked(d)'
    BY AskedKept
  <2>2. Served(s, d) => Served(s, d)'
    BY DEF Served, SameWire, SameTables
  <2> QED BY <2>1, <2>2 DEF Tracked, Follows, SameWire
<1>3. ASSUME NEW d \in Unmeant PROVE Leaves(s, d)'
  BY <1>3 DEF Tracked, Leaves, Withdrawn, Unserved, SameWire
<1> QED BY <1>1, <1>2, <1>3 DEF Tracked

\* One message of the client's goes out.
LEMMA TrackedSend ==
  ASSUME NEW s \in Gens, WiresOK(wire), Tracked(s), NEW m \in FitMsg,
         wire'[s].c2s = Append(wire[s].c2s, m), wire'[s].s2c = wire[s].s2c,
         wire'[s].table = wire[s].table, UNCHANGED <<g, silent, raced>>,
         \A d \in Meant : /\ ~Is(m, "Unsubscribe", d)
                          /\ Asked(d) => Asked(d)' \/ Is(m, "Subscribe", d),
         \A d \in Unmeant : /\ ~Is(m, "Subscribe", d)
                            /\ Withdrawn(d) => Withdrawn(d)' \/ Is(m, "Unsubscribe", d)
  PROVE  Tracked(s)'
<1>0. wire[s].c2s \in Seq(FitMsg)
  BY WireParts
<1>1. Meant' = Meant /\ Unmeant' = Unmeant
  BY DEF Meant, Unmeant
<1>2. ASSUME NEW d \in Meant PROVE Follows(s, d)'
  <2>1. CASE Asked(d)'
    BY <2>1 DEF Follows
  <2>2. CASE Is(m, "Subscribe", d)
    BY <1>0, <2>2, LastNew DEF Follows
  <2>3. CASE Last(wire[s].c2s, "Subscribe", "Unsubscribe", d)
    BY <1>0, <1>2, <2>3, LastSend DEF Follows
  <2>4. CASE Served(s, d)
    BY <1>0, <1>2, <2>4, NeverSend DEF Follows, Served
  <2> QED BY <1>2, <2>1, <2>2, <2>3, <2>4 DEF Tracked, Follows
<1>3. ASSUME NEW d \in Unmeant PROVE Leaves(s, d)'
  <2>1. CASE Withdrawn(d)'
    BY <2>1 DEF Leaves
  <2>2. CASE Is(m, "Unsubscribe", d)
    BY <1>0, <2>2, LastNew DEF Leaves
  <2>3. CASE Last(wire[s].c2s, "Unsubscribe", "Subscribe", d)
    BY <1>0, <1>3, <2>3, LastSend DEF Leaves
  <2>4. CASE Unserved(s, d)
    BY <1>0, <1>3, <2>4, NeverSend DEF Leaves, Unserved
  <2> QED BY <1>3, <2>1, <2>2, <2>3, <2>4 DEF Tracked, Leaves
<1> QED BY <1>1, <1>2, <1>3 DEF Tracked

\* send_bin reaches the socket in place while that is up.
LEMMA SentNow ==
  ASSUME SInv, NEW s \in Gens, NEW m, g.out_tx = s, wire'[s].up, Sent(m) \/ SendFails
  PROVE  /\ wire[s].up /\ wire'[s].c2s = Append(wire[s].c2s, m)
         /\ wire'[s].s2c = wire[s].s2c /\ wire'[s].table = wire[s].table
<1>0. WiresOK(wire) /\ s # None
  BY ConstantFacts DEF SInv, LInv
<1>1. CanSend
  BY <1>0 DEF SInv, InPlace, CanSend
<1>2. CASE Sent(m)
  BY <1>0, <1>2, PushParts DEF Sent
<1>3. CASE SendFails
  BY <1>1, <1>3 DEF SendFails
<1> QED BY <1>2, <1>3

LEMMA TablesParts ==
  ASSUME LInv
  PROVE  g.device_by_sub \in Handles /\ g.sub_by_device \in ByDevice
BY InnerParts DEF LInv, Handles, ByDevice

LEMMA SubscribeTracks ==
  ASSUME LInv, NEW s \in Gens, Tracked(s), NEW p \in Procs, NEW device \in Devices,
         SubscribeBegin(p, device)
  PROVE  Tracked(s)'
<1>0. /\ call[p].pc = "idle" /\ call'[p].pc = "subscribe" /\ call'[p].device = device
      /\ \A q \in Procs : q # p => call'[q] = call[q]
      /\ g'.subscriptions = g.subscriptions \cup {device}
      /\ SameTables /\ SameWire(s) /\ UNCHANGED <<driver, silent>> /\ raced \subseteq raced'
  BY SubscribeParts DEF SameTables, SameWire
<1>1. \A d : Asked(d) => Asked(d)'
  BY <1>0 DEF Asked
<1>2. ASSUME NEW d \in Meant' PROVE Follows(s, d)'
  <2>1. CASE d = device
    BY <1>0, <2>1 DEF Follows, Asked
  <2>2. CASE d # device
    <3>1. Follows(s, d)
      BY <1>0, <1>2, <2>2 DEF Meant, Tracked
    <3>2. Served(s, d) => Served(s, d)'
      BY <1>0 DEF Served, SameWire, SameTables
    <3> QED BY <1>0, <1>1, <3>1, <3>2 DEF Follows, SameWire
  <2> QED BY <2>1, <2>2
<1>3. ASSUME NEW d \in Unmeant' PROVE Leaves(s, d)'
  <2>1. Leaves(s, d)
    BY <1>0, <1>3 DEF Unmeant, Tracked
  <2>2. Withdrawn(d) => Withdrawn(d)'
    BY <1>0 DEF Withdrawn
  <2> QED BY <1>0, <2>1, <2>2 DEF Leaves, Unserved, SameWire
<1> QED BY <1>2, <1>3 DEF Tracked

LEMMA UnsubscribeTracks ==
  ASSUME LInv, NEW s \in Gens, Tracked(s), NEW p \in Procs, NEW device \in Devices,
         UnsubscribeBegin(p, device)
  PROVE  Tracked(s)'
<1>0. /\ call[p].pc = "idle"
      /\ \/ call'[p].pc = "idle" /\ device \in silent'
         \/ call'[p].pc = "unsubscribe" /\ call'[p].device = device
      /\ \A q \in Procs : q # p => call'[q] = call[q]
      /\ g'.subscriptions = g.subscriptions \ {device} /\ g'.device_by_sub = g.device_by_sub
      /\ g'.sub_by_device = [g.sub_by_device EXCEPT ![device] = None]
      /\ SameWire(s) /\ UNCHANGED driver /\ raced \subseteq raced' /\ silent \subseteq silent'
  BY UnsubscribeParts DEF SameWire
<1>1. \A d : Asked(d) => Asked(d)'
  BY <1>0 DEF Asked
<1>2. ASSUME NEW d \in Meant' PROVE Follows(s, d)'
  <2>1. Follows(s, d) /\ d # device
    BY <1>0, <1>2 DEF Meant, Tracked
  <2>2. g'.sub_by_device[d] = g.sub_by_device[d]
    BY <1>0, <2>1, TablesParts DEF ByDevice
  <2>3. Served(s, d) => Served(s, d)'
    BY <1>0, <2>2 DEF Served, Holds, SameWire
  <2> QED BY <1>0, <1>1, <2>1, <2>3 DEF Follows, SameWire
<1>3. ASSUME NEW d \in Unmeant' PROVE Leaves(s, d)'
  <2>1. CASE d = device
    BY <1>0, <1>3, <2>1 DEF Unmeant, Leaves, Withdrawn
  <2>2. CASE d # device
    <3>1. Leaves(s, d)
      BY <1>0, <1>3, <2>2 DEF Unmeant, Tracked
    <3>2. Withdrawn(d) => Withdrawn(d)'
      BY <1>0 DEF Withdrawn
    <3> QED BY <1>0, <3>1, <3>2 DEF Leaves, Unserved, SameWire
  <2> QED BY <2>1, <2>2
<1> QED BY <1>2, <1>3 DEF Tracked

LEMMA SendsTrack ==
  ASSUME SInv, MInv, NEW s \in Gens, Tracked(s), NEW p \in Procs, CallStep(p),
         g.out_tx = s, wire'[s].up
  PROVE  Tracked(s)'
<1>0. WiresOK(wire) /\ UNCHANGED <<g, driver, silent, raced>> /\ LInv /\ CallsOK(call)
  BY DEF SInv, LInv, CallStep, SubscribeSend, UnsubscribeSend, history
<1> DEFINE device == call[p].device
<1>1. CASE SubscribeSend(p)
  <2> DEFINE m == M("Subscribe", device, None)
  <2>1. /\ call[p].pc = "subscribe" /\ device \in Devices
        /\ device \in g.subscriptions \cup raced
        /\ call'[p].pc = "idle" /\ \A q \in Procs : q # p => call'[q] = call[q]
    BY <1>0, <1>1, CallParts, ReturnParts DEF SubscribeSend, MInv, CallsMean
  <2>2. m \in FitMsg /\ m.type = "Subscribe" /\ m.device = device
    BY <2>1 DEF M, FitMsg, Fits, Msg
  <2>3. Sent(m) \/ SendFails
    BY <1>1 DEF SubscribeSend
  <2> HIDE DEF m
  <2>4. /\ wire'[s].c2s = Append(wire[s].c2s, m)
        /\ wire'[s].s2c = wire[s].s2c /\ wire'[s].table = wire[s].table
    BY <2>3, SentNow
  <2>5. ASSUME NEW d \in Meant
        PROVE  ~Is(m, "Unsubscribe", d) /\ (Asked(d) => Asked(d)' \/ Is(m, "Subscribe", d))
    BY <1>0, <2>1, <2>2 DEF Is, Asked
  <2>6. ASSUME NEW d \in Unmeant
        PROVE  ~Is(m, "Subscribe", d) /\ (Withdrawn(d) => Withdrawn(d)' \/ Is(m, "Unsubscribe", d))
    BY <2>1, <2>2 DEF Is, Withdrawn, Unmeant
  <2> QED BY <1>0, <2>2, <2>4, <2>5, <2>6, TrackedSend
<1>2. CASE UnsubscribeSend(p)
  <2> DEFINE m == M("Unsubscribe", device, call[p].sub)
  <2>1. /\ call[p].pc = "unsubscribe" /\ device \in Devices /\ call[p].sub \in Subs
        /\ device \notin g.subscriptions \ raced
        /\ call'[p].pc = "idle" /\ \A q \in Procs : q # p => call'[q] = call[q]
    BY <1>0, <1>2, CallParts, ReturnParts DEF UnsubscribeSend, MInv, CallsMean
  <2>2. m \in FitMsg /\ m.type = "Unsubscribe" /\ m.device = device
    BY <2>1, Built DEF M
  <2>3. Sent(m) \/ SendFails
    BY <1>2 DEF UnsubscribeSend
  <2> HIDE DEF m
  <2>4. /\ wire'[s].c2s = Append(wire[s].c2s, m)
        /\ wire'[s].s2c = wire[s].s2c /\ wire'[s].table = wire[s].table
    BY <2>3, SentNow
  <2>5. ASSUME NEW d \in Meant
        PROVE  ~Is(m, "Unsubscribe", d) /\ (Asked(d) => Asked(d)' \/ Is(m, "Subscribe", d))
    BY <1>0, <2>1, <2>2 DEF Is, Asked, Meant
  <2>6. ASSUME NEW d \in Unmeant
        PROVE  ~Is(m, "Subscribe", d) /\ (Withdrawn(d) => Withdrawn(d)' \/ Is(m, "Unsubscribe", d))
    BY <2>1, <2>2 DEF Is, Withdrawn, Unmeant
  <2> QED BY <1>0, <2>2, <2>4, <2>5, <2>6, TrackedSend
<1> QED BY <1>1, <1>2 DEF CallStep

\* Resubscribe forgets every handle and takes up every device.
LEMMA ResubscribeTracks ==
  ASSUME LInv, NEW s \in Gens, Tracked(s), NEW e \in Drivers, Resubscribe(e)
  PROVE  Tracked(s)'
<1>0. UNCHANGED <<call, wire, silent, raced>> /\ g'.subscriptions = g.subscriptions
      /\ DriversOK(driver)
  BY ForgetType DEF LInv, Resubscribe, history
<1>1. Meant' = Meant /\ Unmeant' = Unmeant
  BY <1>0 DEF Meant, Unmeant
<1>2. ASSUME NEW d \in Meant PROVE Follows(s, d)'
  <2> DEFINE v == [driver[e] EXCEPT !.pc = "send", !.todo = Wanted]
  <2>1. d \in g.subscriptions
    BY DEF Meant
  <2>2. driver' = [driver EXCEPT ![e] = v]
    <3>1. Wanted # {}
      BY <2>1 DEF Wanted
    <3> QED BY <3>1, Zenon DEF Resubscribe
  <2>3. v.pc = "send" /\ v.todo = g.subscriptions
    BY DriverParts, Zenon DEF LInv, Driver, Wanted
  <2> HIDE DEF v
  <2>4. driver'[e] = v
    BY <1>0, <2>2 DEF DriversOK
  <2> QED BY <2>1, <2>3, <2>4 DEF Follows, Asked
<1>3. ASSUME NEW d \in Unmeant PROVE Leaves(s, d)'
  BY <1>0, <1>3 DEF Tracked, Leaves, Withdrawn, Unserved
<1> QED BY <1>1, <1>2, <1>3 DEF Tracked

LEMMA ResubscribeSendTracks ==
  ASSUME SInv, MInv, NEW s \in Gens, Tracked(s), NEW e \in Drivers, ResubscribeSend(e),
         g.out_tx = s, wire'[s].up
  PROVE  Tracked(s)'
<1>0. /\ WiresOK(wire) /\ UNCHANGED <<g, call, silent, raced>> /\ DriversOK(driver)
      /\ driver[e].pc = "send" /\ driver[e].todo \subseteq Devices
      /\ driver[e].todo \subseteq g.subscriptions \cup silent \cup raced
  BY DriverParts DEF SInv, LInv, ResubscribeSend, history, MInv, DriversMean
<1>1. PICK x \in driver[e].todo :
        /\ Sent(M("Subscribe", x, None)) \/ SendFails
        /\ IF driver[e].todo = {x} THEN Finish(e)
           ELSE driver' = [driver EXCEPT ![e].todo = @ \ {x}]
  BY Zenon DEF ResubscribeSend
<1> DEFINE m == M("Subscribe", x, None)
           v == [driver[e] EXCEPT !.todo = @ \ {x}]
<1>2. m \in FitMsg /\ m.type = "Subscribe" /\ m.device = x
  BY <1>0, <1>1 DEF M, FitMsg, Fits, Msg
<1>3. Sent(m) \/ SendFails
  BY <1>1
<1> HIDE DEF m
<1>4. /\ wire'[s].c2s = Append(wire[s].c2s, m)
      /\ wire'[s].s2c = wire[s].s2c /\ wire'[s].table = wire[s].table
  BY <1>3, SentNow
<1>5. v.pc = "send" /\ v.todo = driver[e].todo \ {x}
  BY <1>0, DriverParts, Zenon DEF Driver
<1>6. \A f \in Drivers : f # e => driver'[f] = driver[f]
  BY <1>0, <1>1 DEF DriversOK, Finish
<1>7. driver[e].todo # {x} => driver'[e] = v
  <2>1. driver[e].todo # {x} => driver' = [driver EXCEPT ![e] = v]
    BY <1>1, Zenon
  <2> HIDE DEF v
  <2> QED BY <1>0, <2>1 DEF DriversOK
<1> HIDE DEF v
<1>8. ASSUME NEW d \in Meant
      PROVE  ~Is(m, "Unsubscribe", d) /\ (Asked(d) => Asked(d)' \/ Is(m, "Subscribe", d))
  <2>1. ASSUME Asked(d), d # x PROVE Asked(d)'
    <3>1. CASE d \in driver[e].todo
      <4>1. driver[e].todo # {x}
        BY <2>1, <3>1
      <4> QED BY <1>5, <1>7, <2>1, <3>1, <4>1 DEF Asked
    <3>2. CASE d \notin driver[e].todo
      BY <1>0, <1>6, <2>1, <3>2 DEF Asked
    <3> QED BY <3>1, <3>2
  <2> QED BY <1>2, <2>1 DEF Is
<1>9. ASSUME NEW d \in Unmeant
      PROVE  ~Is(m, "Subscribe", d) /\ (Withdrawn(d) => Withdrawn(d)' \/ Is(m, "Unsubscribe", d))
  BY <1>0, <1>1, <1>2 DEF Is, Withdrawn, Unmeant
<1> QED BY <1>0, <1>2, <1>4, <1>8, <1>9, TrackedSend

\* A new socket is in place: resubscribe is to come, and nothing is served yet.
LEMMA InstallTracks ==
  ASSUME NInv, NEW s \in Gens, NEW e \in Drivers, Install(e), ~Superseded(e), g'.out_tx = s
  PROVE  Tracked(s)'
<1>0. g \in Inner /\ DriversOK(driver) /\ SInv
  BY DEF NInv, SInv, LInv
<1> DEFINE n == driver[e].gen
           v == [driver[e] EXCEPT !.pc = "resubscribe"]
<1>1. /\ g' = [g EXCEPT !.out_tx = n, !.state = "Open"] /\ Step(e, "resubscribe")
      /\ UNCHANGED <<wire, call, silent, raced>>
  BY Zenon DEF Install, history
<1>2. reading[n] = "none"
  BY <1>0 DEF Install, SInv, Fresh, Dialing, DialingPc
<1>3. v.pc = "resubscribe" /\ driver' = [driver EXCEPT ![e] = v]
  BY <1>0, <1>1, DriverParts, Zenon DEF Driver, Step
<1> HIDE DEF v, n
<1>4. driver'[e] = v
  BY <1>0, <1>3 DEF DriversOK
<1>5. n = s
  <2>1. g'.out_tx = n
    BY <1>0, <1>1, Zenon DEF Inner
  <2> QED BY <2>1
<1>6. wire'[s].c2s = <<>> /\ wire'[s].table = NoSubs
  BY <1>1, <1>2, <1>5 DEF NInv, Unused
<1>7. \A d : Follows(s, d)'
  BY <1>3, <1>4 DEF Follows, Asked
<1>8. \A d \in Devices : Leaves(s, d)'
  BY <1>6, ConstantFacts DEF Leaves, Unserved, Never, NoSubs
<1> QED BY <1>7, <1>8 DEF Tracked, Unmeant

\* The socket in place is read.
LEMMA InUse ==
  ASSUME SInv, NEW s \in Gens, g.out_tx = s
  PROVE  reading[s] # "none" /\ \A t \in Gens : reading[t] # "none" => t <= s
BY ConstantFacts DEF SInv, InPlace

LEMMA CallsTrack ==
  ASSUME TInv, NEW s \in Gens, Current(s)', NEW p \in Procs, NewCall(p) \/ CallStep(p)
  PROVE  Tracked(s)'
<1>0. SInv /\ LInv /\ MInv /\ g \in Inner /\ (Current(s) => Tracked(s)) /\ s # None
  BY ConstantFacts DEF TInv, NInv, SInv, LInv, Tracking
<1>1. ASSUME NEW device \in Devices, SubscribeBegin(p, device) PROVE Tracked(s)'
  <2>1. Current(s)
    BY <1>0, <1>1, SubscribeParts DEF Current
  <2> QED BY <1>0, <1>1, <2>1, SubscribeTracks
<1>2. ASSUME NEW device \in Devices, UnsubscribeBegin(p, device) PROVE Tracked(s)'
  <2>1. Current(s)
    BY <1>0, <1>2, UnsubscribeParts DEF Current
  <2> QED BY <1>0, <1>2, <2>1, UnsubscribeTracks
<1>3. CASE Recv(p)
  <2>1. /\ Current(s) /\ SameWire(s) /\ SameTables /\ UNCHANGED call /\ Grows
        /\ KeepsAsking(driver, driver')
    BY <1>3 DEF Recv, history, Current, SameWire, SameTables, Grows, KeepsAsking
  <2> QED BY <1>0, <2>1, TrackedSame
<1>4. CASE Close(p)
  <2>1. g'.out_tx = None
    BY <1>0, <1>4, Zenon DEF Close, Inner
  <2> QED BY <1>0, <2>1 DEF Current
<1>5. CASE CallStep(p)
  <2>1. UNCHANGED <<g, crossed>> /\ \E m : Sent(m) \/ SendFails
    BY <1>5 DEF CallStep, SubscribeSend, UnsubscribeSend, history
  <2>2. g.out_tx = s /\ wire'[s].up /\ s \notin crossed
    BY <2>1 DEF Current
  <2>3. wire[s].up
    BY <1>0, <2>1, <2>2, SentNow
  <2> QED BY <1>0, <1>5, <2>2, <2>3, SendsTrack DEF Current
<1> QED BY <1>1, <1>2, <1>3, <1>4, <1>5 DEF NewCall

LEMMA DriverTracks ==
  ASSUME TInv, NEW s \in Gens, Current(s)', NEW e \in Drivers, DriverStep(e)
  PROVE  Tracked(s)'
<1>0. SInv /\ LInv /\ MInv /\ g \in Inner /\ (Current(s) => Tracked(s)) /\ s # None
      /\ WiresOK(wire)
  BY ConstantFacts DEF TInv, NInv, SInv, LInv, Tracking
<1>1. UNCHANGED <<call, silent, raced, crossed>>
  BY Zenon DEF DriverStep, SocketClosed, Wake, HandleRelocate, Dial, DialHello,
         DialRelocated, DialFails, Install, Resubscribe, ResubscribeSend, ReconnectFailed,
         history
<1>2. CASE Resubscribe(e)
  <2>1. g'.out_tx = g.out_tx /\ UNCHANGED wire
    BY <1>0, <1>2, ForgetType DEF Resubscribe
  <2>2. Current(s)
    BY <1>1, <2>1 DEF Current
  <2> QED BY <1>0, <1>2, <2>2, ResubscribeTracks
<1>3. CASE ResubscribeSend(e)
  <2>1. UNCHANGED <<g, crossed>> /\ \E m : Sent(m) \/ SendFails
    BY <1>3 DEF ResubscribeSend, history
  <2>2. g.out_tx = s /\ wire'[s].up /\ s \notin crossed
    BY <2>1 DEF Current
  <2>3. wire[s].up
    BY <1>0, <2>1, <2>2, SentNow
  <2> QED BY <1>0, <1>3, <2>2, <2>3, ResubscribeSendTracks DEF Current
<1>4. CASE Install(e) /\ ~Superseded(e)
  BY <1>4, InstallTracks DEF TInv, Current
<1>5. ASSUME ~Resubscribe(e), ~ResubscribeSend(e), g'.out_tx = g.out_tx,
             g'.subscriptions = g.subscriptions, SameTables, SameWire(s),
             wire'[s].up => wire[s].up
      PROVE  Tracked(s)'
  <2>1. Current(s) /\ Grows
    BY <1>1, <1>5 DEF Current, Grows
  <2> QED BY <1>0, <1>1, <1>5, <2>1, DriverAsks, TrackedSame
<1>6. ASSUME UNCHANGED <<g, wire>>, ~Resubscribe(e), ~ResubscribeSend(e)
      PROVE  Tracked(s)'
  BY <1>5, <1>6 DEF SameTables, SameWire
<1>7. CASE Resubscribe(e) \/ ResubscribeSend(e)
  BY <1>2, <1>3, <1>7
<1>8. CASE ~Resubscribe(e) /\ ~ResubscribeSend(e)
  <2>1. CASE SocketClosed(e)
    <3> DEFINE i == ForgetHandles(g)
    <3>1. \/ UNCHANGED g
          \/ g' = [i EXCEPT !.out_tx = None,
                     !.state = IF g.intentional THEN "Closed" ELSE "Reconnecting"]
      BY <2>1, Zenon DEF SocketClosed
    <3>2. i \in Inner
      BY <1>0, ForgetType
    <3>3. UNCHANGED g \/ g'.out_tx = None
      BY <3>1, <3>2, Zenon DEF Inner
    <3>4. UNCHANGED <<g, wire>>
      BY <1>0, <2>1, <3>3 DEF Current, SocketClosed
    <3> QED BY <1>6, <1>8, <3>4
  <2>2. CASE Dial(e)
    <3>1. /\ g'.out_tx = g.out_tx /\ g'.subscriptions = g.subscriptions
          /\ g'.device_by_sub = g.device_by_sub /\ g'.sub_by_device = g.sub_by_device
      BY <1>0, <2>2, Zenon DEF Dial, Inner
    <3>2. UNCHANGED wire
      BY <2>2 DEF Dial
    <3> QED BY <1>5, <1>8, <3>1, <3>2 DEF SameTables, SameWire
  <2>3. CASE DialHello(e)
    <3>1. UNCHANGED g /\ g.out_tx = s
      BY <2>3 DEF DialHello, Current
    <3>2. driver[e].gen # s
      BY <1>0, <2>3, <3>1, HelloParts, InUse
    <3>3. wire'[s] = wire[s]
      BY <1>0, <2>3, <3>2, HelloParts DEF Others
    <3> QED BY <1>5, <1>8, <3>1, <3>3 DEF SameTables, SameWire
  <2>4. CASE Install(e) /\ Superseded(e)
    <3> DEFINE n == driver[e].gen
    <3>1. UNCHANGED g /\ g.out_tx = s /\ wire' = [wire EXCEPT ![n] = ClosedWire]
      BY <2>4, Zenon DEF Install, Current
    <3>2. n # s
      BY <1>0, <2>4, <3>1, InUse DEF Install, SInv, Fresh, Dialing, DialingPc
    <3>3. wire'[s] = wire[s]
      <4> HIDE DEF n
      <4> QED BY <1>0, <3>1, <3>2 DEF WiresOK
    <3> QED BY <1>5, <1>8, <3>1, <3>3 DEF SameTables, SameWire
  <2>5. CASE UNCHANGED <<g, wire>>
    BY <1>6, <1>8, <2>5
  <2> QED BY <1>4, <1>8, <2>1, <2>2, <2>3, <2>4, <2>5, Zenon
          DEF DriverStep, Wake, HandleRelocate, DialRelocated, DialFails, ReconnectFailed
<1> QED BY <1>7, <1>8

\* The read loop takes a message of the socket in place.
LEMMA TakeTracks ==
  ASSUME TInv, NEW s \in Gens, Tracked(s), wire[s].s2c # <<>>, Consume(s),
         UNCHANGED <<call, silent, raced>>, g'.subscriptions = g.subscriptions,
         KeepsAsking(driver, driver'),
         LET q == wire[s].s2c
         IN \/ q[1].type # "Subscribed" /\ SameTables
            \/ /\ q[1].type = "Subscribed"
               /\ g'.device_by_sub = [g.device_by_sub EXCEPT ![q[1].sub] = q[1].device]
               /\ g'.sub_by_device = [g.sub_by_device EXCEPT ![q[1].device] = q[1].sub]
  PROVE  Tracked(s)'
<1>0. /\ LInv /\ WiresOK(wire) /\ wire[s].s2c \in Seq(FitMsg) /\ wire[s].table \in Handles
      /\ g.device_by_sub \in Handles /\ g.sub_by_device \in ByDevice
      /\ Named(wire[s].s2c, wire[s].table, g.device_by_sub, On(s))
  BY TablesParts, WireParts DEF TInv, NInv, SInv, LInv, Naming, Handles
<1>1. /\ wire'[s].s2c = Tail(wire[s].s2c) /\ wire'[s].table = wire[s].table
      /\ wire'[s].c2s = wire[s].c2s
  BY <1>0, TakeParts
<1>2. Meant' = Meant /\ Unmeant' = Unmeant /\ Meant \subseteq Devices
  BY <1>0, InnerParts DEF Meant, Unmeant, LInv
<1>3. ASSUME NEW d \in Meant PROVE Follows(s, d)'
  <2>1. Asked(d) => Asked(d)'
    BY AskedKept
  <2>2. ASSUME Served(s, d) PROVE Served(s, d)'
    <3>1. PICK u \in Subs :
            Holds(wire[s].s2c, wire[s].table, g.device_by_sub, g.sub_by_device, u, d)
      BY <2>2 DEF Served
    <3>2. d # Unknown /\ d \in Devices
      BY <1>2, ConstantFacts
    <3>3. Told(wire[s].s2c, Len(wire[s].s2c) + 1, u, d)
      BY <1>0, <3>1, <3>2 DEF Named, Names, Holds
    <3>4. Holds(Tail(wire[s].s2c), wire[s].table, g'.device_by_sub, g'.sub_by_device, u, d)
      BY <1>0, <3>1, <3>2, <3>3, HoldsTake DEF SameTables
    <3> QED BY <1>1, <2>2, <3>4 DEF Served
  <2> QED BY <1>1, <1>3, <2>1, <2>2 DEF Tracked, Follows
<1>4. ASSUME NEW d \in Unmeant PROVE Leaves(s, d)'
  BY <1>1, <1>4 DEF Tracked, Leaves, Withdrawn, Unserved
<1> QED BY <1>2, <1>3, <1>4 DEF Tracked

LEMMA ReaderTracks ==
  ASSUME TInv, NEW s \in Gens, Current(s)', NEW t \in Gens, ReaderStep(t)
  PROVE  Tracked(s)'
<1>0. SInv /\ LInv /\ g \in Inner /\ (Current(s) => Tracked(s)) /\ WiresOK(wire)
  BY DEF TInv, NInv, SInv, LInv, Tracking
<1>1. UNCHANGED <<call, silent, raced>> /\ KeepsAsking(driver, driver') /\ crossed \subseteq crossed'
  BY <1>0, ReaderAsks
     DEF ReaderStep, OnSubscribed, OnAdded, OnRelocate, ReaderEnds, history
<1>2. CASE ReaderEnds(t)
  <2>1. Current(s) /\ SameWire(s) /\ SameTables /\ Grows
    BY <1>1, <1>2 DEF ReaderEnds, history, Current, SameWire, SameTables, Grows
  <2> QED BY <1>0, <1>1, <2>1, TrackedSame
<1>3. CASE OnAdded(t) \/ OnRelocate(t)
  <2>1. UNCHANGED g /\ Consume(t) /\ (Receives(t, "Added") \/ Receives(t, "Relocate"))
    BY <1>3 DEF OnAdded, OnRelocate
  <2>2. wire[t].s2c # <<>> /\ wire[t].s2c[1].type # "Subscribed"
    BY <1>0, <2>1, GotFits
  <2>3. wire'[s].up = wire[s].up /\ (t # s => wire'[s] = wire[s])
    BY <1>0, <2>1, TakeParts DEF Others
  <2>4. Current(s)
    BY <1>1, <2>1, <2>3 DEF Current
  <2>5. CASE t = s
    <3>1. SameTables
      BY <2>1 DEF SameTables
    <3> QED BY <1>0, <1>1, <2>1, <2>2, <2>4, <2>5, <3>1, TakeTracks
  <2>6. CASE t # s
    BY <1>0, <1>1, <2>1, <2>3, <2>4, <2>6, TrackedSame DEF SameWire, SameTables, Grows
  <2> QED BY <2>5, <2>6
<1>4. CASE OnSubscribed(t)
  <2>1. /\ Consume(t) /\ Receives(t, "Subscribed")
        /\ crossed' = crossed \cup {x \in Gens : x > t /\ reading[x] # "none"}
        /\ g' = Learn(g, Got(t).device, Got(t).sub)
    BY <1>4 DEF OnSubscribed
  <2>2. /\ wire[t].s2c # <<>> /\ reading[t] = "read" /\ Got(t) = wire[t].s2c[1]
        /\ Got(t).type = "Subscribed" /\ Got(t).device \in Devices /\ Got(t).sub \in Subs
    BY <1>0, <2>1, GotFits, MsgParts DEF Fits
  <2> DEFINE device == Got(t).device
             sub    == Got(t).sub
  <2>3. g' = Learn(g, device, sub) /\ device \in Devices /\ sub \in Subs /\ g \in Inner
    BY <1>0, <2>1, <2>2
  <2> HIDE DEF device, sub
  <2>4. /\ g'.device_by_sub = [g.device_by_sub EXCEPT ![sub] = device]
        /\ g'.sub_by_device = [g.sub_by_device EXCEPT ![device] = sub]
        /\ g'.out_tx = g.out_tx /\ g'.subscriptions = g.subscriptions
    BY <2>3, LearnType, Zenon
  <2>5. g.out_tx = s /\ wire'[s].up = wire[s].up
    BY <1>0, <2>1, <2>4, TakeParts DEF Current, Others
  <2>6. t = s
    <3>1. t <= s /\ reading[s] # "none"
      BY <1>0, <2>2, <2>5, InUse
    <3>2. s \notin crossed'
      BY DEF Current
    <3>3. ~(s > t)
      BY <2>1, <3>1, <3>2
    <3> QED BY <3>1, <3>3, ConstantFacts
  <2>7. Current(s)
    BY <1>1, <2>5 DEF Current
  <2>8. /\ wire[s].s2c[1].type = "Subscribed" /\ wire[s].s2c[1].device = device
        /\ wire[s].s2c[1].sub = sub
    BY <2>2, <2>6 DEF device, sub
  <2> QED BY <1>0, <1>1, <2>1, <2>2, <2>4, <2>6, <2>7, <2>8, TakeTracks
<1> QED BY <1>2, <1>3, <1>4 DEF ReaderStep

\* The server gives the socket in place a handle.
LEMMA GrantTracks ==
  ASSUME TInv, NEW s \in Gens, Tracked(s), ServerSubscribes(s)
  PROVE  Tracked(s)'
<1>0. /\ LInv /\ WiresOK(wire) /\ wire[s].s2c \in Seq(FitMsg) /\ wire[s].c2s \in Seq(FitMsg)
      /\ wire[s].table \in Handles /\ UNCHANGED <<g, driver, call, silent, raced>>
  BY WireParts DEF TInv, NInv, SInv, LInv, Handles, ServerSubscribes, Quiet, history
<1> DEFINE x == wire[s].c2s[1].device
<1>1. wire[s].c2s # <<>> /\ x \in Devices /\ wire[s].c2s[1].type = "Subscribe"
  BY <1>0, AnswerType, MsgParts DEF ServerSubscribes, Fits
<1>2. PICK v \in Subs :
        /\ wire'[s].c2s = Tail(wire[s].c2s)
        /\ wire'[s].table = [wire[s].table EXCEPT ![v] = x]
        /\ wire'[s].s2c = Append(wire[s].s2c, M("Subscribed", x, v))
        /\ IF \E h \in Subs : wire[s].table[h] = x THEN wire[s].table[v] = x
           ELSE wire[s].table[v] = Unknown
  BY <1>0, GrantParts, Zenon
<1> DEFINE m == M("Subscribed", x, v)
<1>3. m \in FitMsg /\ m.type = "Subscribed" /\ m.device = x /\ m.sub = v
  BY <1>1, Built DEF M
<1>4. wire'[s].s2c = Append(wire[s].s2c, m)
  BY <1>2
<1> HIDE DEF x, m
<1>5. Meant' = Meant /\ Unmeant' = Unmeant /\ Meant \subseteq Devices
  BY <1>0, InnerParts DEF Meant, Unmeant, LInv
<1>6. wire'[s].table[v] = x /\ \A u \in Subs : u # v => wire'[s].table[u] = wire[s].table[u]
  BY <1>0, <1>2 DEF Handles
<1>7. Is(m, "Subscribed", x) /\ \A d : d # x => ~Is(m, "Subscribed", d)
  BY <1>3 DEF Is
<1>8. ASSUME NEW d \in Meant PROVE Follows(s, d)'
  <2>0. d \in Devices /\ d # Unknown
    BY <1>5, ConstantFacts
  <2>1. CASE Asked(d)
    BY <1>0, <2>1 DEF Follows, Asked
  <2>2. CASE Last(wire[s].c2s, "Subscribe", "Unsubscribe", d)
    <3>1. CASE Last(Tail(wire[s].c2s), "Subscribe", "Unsubscribe", d)
      BY <1>2, <3>1 DEF Follows
    <3>2. CASE Is(wire[s].c2s[1], "Subscribe", d) /\ Never(Tail(wire[s].c2s), "Unsubscribe", d)
      <4>1. d = x
        BY <3>2 DEF Is, x
      <4>2. Holds(wire'[s].s2c, wire'[s].table, g'.device_by_sub, g'.sub_by_device, v, d)
        BY <1>0, <1>3, <1>4, <1>6, <1>7, <2>0, <4>1, HoldsNew
      <4> QED BY <1>2, <3>2, <4>2 DEF Follows, Served
    <3> QED BY <1>0, <1>1, <2>2, <3>1, <3>2, LastTake
  <2>3. CASE Served(s, d)
    <3>1. PICK u \in Subs :
            Holds(wire[s].s2c, wire[s].table, g.device_by_sub, g.sub_by_device, u, d)
      BY <2>3 DEF Served
    <3>2. wire[s].table[u] = d
      BY <3>1 DEF Holds
    <3>3. d = x => v = u
      BY <1>2, <2>0, <3>2 DEF TInv, OneHandle
    <3>4. d # x => v # u
      BY <1>2, <2>0, <3>2
    <3>5. wire'[s].table[u] = d
      BY <1>6, <3>2, <3>3, <3>4
    <3>6. Is(m, "Subscribed", d) => m.sub = u
      BY <1>3, <1>7, <3>3
    <3>7. Holds(wire'[s].s2c, wire'[s].table, g'.device_by_sub, g'.sub_by_device, u, d)
      BY <1>0, <1>3, <1>4, <2>0, <3>1, <3>5, <3>6, HoldsSend
    <3>8. Never(wire'[s].c2s, "Unsubscribe", d)
      BY <1>0, <1>1, <1>2, <2>3, NeverTake DEF Served
    <3> QED BY <3>7, <3>8 DEF Follows, Served
  <2> QED BY <2>1, <2>2, <2>3 DEF Tracked, Follows
<1>9. ASSUME NEW d \in Unmeant PROVE Leaves(s, d)'
  <2>1. CASE Withdrawn(d)
    BY <1>0, <2>1 DEF Leaves, Withdrawn
  <2>2. CASE Last(wire[s].c2s, "Unsubscribe", "Subscribe", d)
    <3>1. ~Is(wire[s].c2s[1], "Unsubscribe", d)
      BY <1>1 DEF Is
    <3>2. Last(Tail(wire[s].c2s), "Unsubscribe", "Subscribe", d)
      BY <1>0, <1>1, <2>2, <3>1, LastTake
    <3> QED BY <1>2, <3>2 DEF Leaves
  <2>3. CASE Unserved(s, d)
    <3>1. d # x
      <4>1. 1 \in 1 .. Len(wire[s].c2s)
        BY <1>0, <1>1
      <4> QED BY <1>1, <2>3, <4>1 DEF Unserved, Never, Is, x
    <3>2. \A u \in Subs : wire'[s].table[u] # d
      BY <1>6, <2>3, <3>1 DEF Unserved
    <3>3. Never(wire'[s].c2s, "Subscribe", d)
      BY <1>0, <1>1, <1>2, <2>3, NeverTake DEF Unserved
    <3> QED BY <3>2, <3>3 DEF Leaves, Unserved
  <2> QED BY <1>9, <2>1, <2>2, <2>3 DEF Tracked, Leaves
<1> QED BY <1>5, <1>8, <1>9 DEF Tracked

\* The server takes a handle back, the one its client means.
LEMMA RevokeTracks ==
  ASSUME TInv, NEW s \in Gens, Tracked(s), ServerUnsubscribes(s), s \notin crossed'
  PROVE  Tracked(s)'
<1>0. /\ LInv /\ WiresOK(wire) /\ wire[s].c2s \in Seq(FitMsg)
      /\ wire[s].table \in Handles /\ UNCHANGED <<g, driver, call, silent, raced>>
  BY WireParts DEF TInv, NInv, SInv, LInv, Handles, ServerUnsubscribes, Quiet
<1> DEFINE x == wire[s].c2s[1].device
           v == wire[s].c2s[1].sub
<1>1. /\ wire[s].c2s # <<>> /\ x \in Devices /\ v \in Subs
      /\ wire[s].c2s[1].type = "Unsubscribe" /\ 1 \in 1 .. Len(wire[s].c2s)
  BY <1>0, AnswerType, MsgParts DEF ServerUnsubscribes, Fits
<1>2. /\ wire'[s].c2s = Tail(wire[s].c2s) /\ wire'[s].s2c = wire[s].s2c
      /\ wire'[s].table = [wire[s].table EXCEPT ![v] = Unknown]
      /\ wire[s].table[v] = x
  BY <1>0, RevokeParts
<1> HIDE DEF x, v
<1>3. wire'[s].table[v] = Unknown /\ \A u \in Subs : u # v => wire'[s].table[u] = wire[s].table[u]
  BY <1>0, <1>1, <1>2 DEF Handles
<1>4. Meant' = Meant /\ Unmeant' = Unmeant /\ Meant \subseteq Devices /\ Unmeant \subseteq Devices
  BY <1>0, InnerParts DEF Meant, Unmeant, LInv
<1>5. ASSUME NEW d \in Meant PROVE Follows(s, d)'
  <2>1. CASE Asked(d)
    BY <1>0, <2>1 DEF Follows, Asked
  <2>2. CASE Last(wire[s].c2s, "Subscribe", "Unsubscribe", d)
    <3>1. ~Is(wire[s].c2s[1], "Subscribe", d)
      BY <1>1 DEF Is
    <3>2. Last(Tail(wire[s].c2s), "Subscribe", "Unsubscribe", d)
      BY <1>0, <1>1, <2>2, <3>1, LastTake
    <3> QED BY <1>2, <3>2 DEF Follows
  <2>3. CASE Served(s, d)
    <3>1. PICK u \in Subs :
            Holds(wire[s].s2c, wire[s].table, g.device_by_sub, g.sub_by_device, u, d)
      BY <2>3 DEF Served
    <3>2. d # x
      BY <1>1, <2>3 DEF Served, Never, Is, x
    <3>3. wire[s].table[u] = d /\ u # v
      BY <1>2, <3>1, <3>2 DEF Holds
    <3>4. wire'[s].table[u] = d
      BY <1>3, <3>3
    <3>5. Holds(wire'[s].s2c, wire'[s].table, g'.device_by_sub, g'.sub_by_device, u, d)
      BY <1>0, <1>2, <3>1, <3>4 DEF Holds
    <3>6. Never(wire'[s].c2s, "Unsubscribe", d)
      BY <1>0, <1>1, <1>2, <2>3, NeverTake DEF Served
    <3> QED BY <3>5, <3>6 DEF Follows, Served
  <2> QED BY <1>5, <2>1, <2>2, <2>3 DEF Tracked, Follows
<1>6. ASSUME NEW d \in Unmeant PROVE Leaves(s, d)'
  <2>0. d \in Devices /\ d # Unknown
    BY <1>4, ConstantFacts
  <2>1. CASE Withdrawn(d)
    BY <1>0, <2>1 DEF Leaves, Withdrawn
  <2>2. CASE Last(wire[s].c2s, "Unsubscribe", "Subscribe", d)
    <3>1. CASE Last(Tail(wire[s].c2s), "Unsubscribe", "Subscribe", d)
      BY <1>2, <3>1 DEF Leaves
    <3>2. CASE Is(wire[s].c2s[1], "Unsubscribe", d) /\ Never(Tail(wire[s].c2s), "Subscribe", d)
      <4>1. d = x
        BY <3>2 DEF Is, x
      <4>2. \A u \in Subs : wire[s].table[u] = d => u = v
        BY <1>1, <1>2, <2>0, <4>1 DEF TInv, OneHandle
      <4>3. \A u \in Subs : wire'[s].table[u] # d
        BY <1>3, <2>0, <4>2
      <4> QED BY <1>2, <3>2, <4>3 DEF Leaves, Unserved
    <3> QED BY <1>0, <1>1, <2>2, <3>1, <3>2, LastTake
  <2>3. CASE Unserved(s, d)
    <3>1. \A u \in Subs : wire'[s].table[u] # d
      BY <1>3, <2>0, <2>3 DEF Unserved
    <3>2. Never(wire'[s].c2s, "Subscribe", d)
      BY <1>0, <1>1, <1>2, <2>3, NeverTake DEF Unserved
    <3> QED BY <3>1, <3>2 DEF Leaves, Unserved
  <2> QED BY <1>6, <2>1, <2>2, <2>3 DEF Tracked, Leaves
<1> QED BY <1>4, <1>5, <1>6 DEF Tracked

\* The server tells something that gives no handle.
LEMMA TellTracks ==
  ASSUME TInv, NEW s \in Gens, Tracked(s), NEW m \in FitMsg, m.type # "Subscribed",
         wire' = [wire EXCEPT ![s].s2c = Append(@, m)], Quiet, UNCHANGED history
  PROVE  Tracked(s)'
<1>0. /\ LInv /\ WiresOK(wire) /\ wire[s].s2c \in Seq(FitMsg)
      /\ UNCHANGED <<g, driver, call, silent, raced>>
  BY WireParts DEF TInv, NInv, SInv, LInv, Quiet, history
<1>1. /\ wire'[s].c2s = wire[s].c2s /\ wire'[s].table = wire[s].table
      /\ wire'[s].s2c = Append(wire[s].s2c, m)
  BY <1>0, TellParts
<1>2. Meant' = Meant /\ Unmeant' = Unmeant /\ Meant \subseteq Devices
  BY <1>0, InnerParts DEF Meant, Unmeant, LInv
<1>3. ASSUME NEW d \in Meant PROVE Follows(s, d)'
  <2>1. CASE Asked(d)
    BY <1>0, <2>1 DEF Follows, Asked
  <2>2. CASE Last(wire[s].c2s, "Subscribe", "Unsubscribe", d)
    BY <1>1, <2>2 DEF Follows
  <2>3. CASE Served(s, d)
    <3>1. PICK u \in Subs :
            Holds(wire[s].s2c, wire[s].table, g.device_by_sub, g.sub_by_device, u, d)
      BY <2>3 DEF Served
    <3>2. wire[s].table[u] = d /\ ~Is(m, "Subscribed", d) /\ d \in Devices
      BY <1>2, <3>1 DEF Holds, Is
    <3>3. Holds(wire'[s].s2c, wire'[s].table, g'.device_by_sub, g'.sub_by_device, u, d)
      BY <1>0, <1>1, <3>1, <3>2, HoldsSend
    <3> QED BY <1>1, <2>3, <3>3 DEF Follows, Served
  <2> QED BY <1>3, <2>1, <2>2, <2>3 DEF Tracked, Follows
<1>4. ASSUME NEW d \in Unmeant PROVE Leaves(s, d)'
  BY <1>0, <1>1, <1>4 DEF Tracked, Leaves, Withdrawn, Unserved
<1> QED BY <1>2, <1>3, <1>4 DEF Tracked

LEMMA ServerTracks ==
  ASSUME TInv, NEW s \in Gens, Current(s)', NEW t \in Gens, ServerStep(t) \/ Environment(t)
  PROVE  Tracked(s)'
<1>0. /\ LInv /\ WiresOK(wire) /\ (Current(s) => Tracked(s))
      /\ wire[s].table \in Handles
  BY WireParts DEF TInv, NInv, SInv, LInv, Tracking, Handles
<1>1. UNCHANGED <<g, driver, call, silent, raced>> /\ (UNCHANGED crossed \/ ServerUnsubscribes(t))
  BY Zenon DEF ServerStep, Environment, ServerSubscribes, ServerUnsubscribes, ServerCloses,
         ServerAdds, ServerRelocates, Drop, Quiet, history
<1>2. crossed \subseteq crossed'
  BY <1>1 DEF ServerUnsubscribes
<1>3. /\ Others(t) /\ (wire'[t].up => wire[t].up)
  <2>1. CASE ServerSubscribes(t)
    BY <1>0, <2>1, GrantParts
  <2>2. CASE ServerUnsubscribes(t)
    BY <1>0, <2>2, RevokeParts
  <2>3. CASE ServerCloses(t)
    BY <1>0, <2>3, EndParts
  <2>4. CASE ServerAdds(t) \/ ServerRelocates(t)
    <3>1. \E m : wire' = [wire EXCEPT ![t].s2c = Append(@, m)]
      BY <2>4, Zenon DEF ServerAdds, ServerRelocates
    <3> QED BY <1>0, <3>1, TellParts
  <2>5. CASE Drop(t)
    BY <1>0, <2>5, CloseParts DEF Drop, Closed
  <2> QED BY <2>1, <2>2, <2>3, <2>4, <2>5 DEF ServerStep, Environment
<1>4. Current(s)
  BY <1>1, <1>2, <1>3 DEF Current, Others
<1>5. CASE t # s
  <2>1. SameWire(s) /\ SameTables /\ Grows /\ KeepsAsking(driver, driver')
    BY <1>1, <1>3, <1>5 DEF SameWire, SameTables, Grows, KeepsAsking, Others
  <2> QED BY <1>0, <1>1, <1>4, <2>1, TrackedSame
<1>6. CASE t = s
  <2>1. CASE ServerSubscribes(s)
    BY <1>0, <1>4, <2>1, GrantTracks
  <2>2. CASE ServerUnsubscribes(s)
    BY <1>0, <1>4, <2>2, RevokeTracks DEF Current
  <2>3. CASE ServerCloses(s)
    BY <1>0, <2>3, EndParts DEF Current
  <2>4. CASE ServerAdds(s)
    <3>1. PICK u \in Subs :
            /\ wire[s].table[u] # Unknown
            /\ wire' = [wire EXCEPT ![s].s2c = Append(@, M("Added", wire[s].table[u], u))]
      BY <2>4, Zenon DEF ServerAdds
    <3> DEFINE m == M("Added", wire[s].table[u], u)
    <3>2. m \in FitMsg /\ m.type # "Subscribed"
      <4>1. wire[s].table[u] \in Devices
        BY <1>0, <3>1 DEF Handles
      <4> QED BY <4>1, Built DEF M
    <3>3. wire' = [wire EXCEPT ![s].s2c = Append(@, m)] /\ Quiet /\ UNCHANGED history
      BY <2>4, <3>1, Zenon DEF ServerAdds
    <3> HIDE DEF m
    <3> QED BY <1>0, <1>4, <3>2, <3>3, TellTracks
  <2>5. CASE ServerRelocates(s)
    <3> DEFINE m == M("Relocate", Unknown, None)
    <3>1. m \in FitMsg /\ m.type # "Subscribed"
      BY DEF M, FitMsg, Msg, Fits
    <3>2. wire' = [wire EXCEPT ![s].s2c = Append(@, m)] /\ Quiet /\ UNCHANGED history
      BY <2>5, Zenon DEF ServerRelocates
    <3> HIDE DEF m
    <3> QED BY <1>0, <1>4, <3>1, <3>2, TellTracks
  <2>6. CASE Drop(s)
    BY <1>0, <2>6, CloseParts DEF Current, Drop, Closed
  <2> QED BY <1>6, <2>1, <2>2, <2>3, <2>4, <2>5, <2>6 DEF ServerStep, Environment
<1> QED BY <1>5, <1>6

LEMMA StepsKeepTracking ==
  ASSUME TInv, [Next]_vars
  PROVE  TInv'
<1>1. NInv' /\ MInv' /\ OneHandle'
  BY StepsKeepNaming, StepsKeepMeaning, StepsKeepHandles DEF TInv, NInv, SInv
<1>2. ASSUME NEW s \in Gens, Current(s)' PROVE Tracked(s)'
  <2>1. ASSUME UNCHANGED vars PROVE Tracked(s)'
    <3>1. /\ Current(s) /\ SameWire(s) /\ SameTables /\ UNCHANGED call /\ Grows
          /\ KeepsAsking(driver, driver')
      BY <1>2, <2>1 DEF vars, Current, SameWire, SameTables, Grows, KeepsAsking
    <3> QED BY <3>1, TrackedSame DEF TInv, Tracking
  <2> QED BY <1>2, <2>1, CallsTrack, DriverTracks, ReaderTracks, ServerTracks DEF Next
<1> QED BY <1>1, <1>2 DEF TInv, Tracking

LEMMA InitTracking == Init => TInv
<1> SUFFICES ASSUME Init PROVE TInv
  OBVIOUS
<1>1. NInv
  BY InitNaming
<1>2. CallsMean
  BY DEF Init, IdleCall, CallsMean
<1>3. DriversMean
  <2> DEFINE first == [IdleDriver EXCEPT !.pc = "dial", !.origin = "connect"]
  <2>1. driver = [d \in Drivers |-> IF d = FirstDriver THEN first ELSE IdleDriver]
    BY Zenon DEF Init
  <2>2. first.pc # "send" /\ IdleDriver.pc # "send"
    BY DEF IdleDriver
  <2> HIDE DEF first
  <2> QED BY <2>1, <2>2 DEF DriversMean
<1>4. OneHandle /\ Tracking
  <2>1. \A s \in Gens : Closed(wire[s])
    BY DEF Init, ClosedWire, Closed
  <2> QED BY <2>1 DEF OneHandle, Tracking, Current, Closed, NoSubs
<1> QED BY <1>1, <1>2, <1>3, <1>4 DEF TInv, MInv

\* With nothing under way, nobody asks any more.
LEMMA NothingAsked ==
  ASSUME NEW s \in Gens, Settled(s), NEW d
  PROVE  /\ ~Asked(d) /\ ~Withdrawn(d)
         /\ ~Last(wire[s].c2s, "Subscribe", "Unsubscribe", d)
         /\ ~Last(wire[s].c2s, "Unsubscribe", "Subscribe", d)
<1>1. ~Asked(d) /\ ~Withdrawn(d)
  BY DEF Settled, Asked, Withdrawn
<1>2. wire[s].c2s = <<>>
  BY DEF Settled
<1> QED BY <1>1, <1>2 DEF Last

\* subscribe, unsubscribe, resubscribe and dispatch, in any order and by any number
\* of tasks over any number of sockets, leave every subscription served and both
\* tables right about it once nothing is under way.
THEOREM FollowsDevices == Spec => []InStep
<1>1. TInv /\ [Next]_vars => TInv'
  BY StepsKeepTracking
<1>2. TInv => InStep
  <2> SUFFICES ASSUME TInv, NEW s \in Gens, Settled(s), s \notin crossed,
                      NEW device \in g.subscriptions \ raced
               PROVE  Followed(s, device)
    BY DEF InStep
  <2>1. Current(s) /\ device \in Meant
    BY DEF Settled, Current, Meant
  <2>2. Served(s, device)
    BY <2>1, NothingAsked DEF TInv, Tracking, Tracked, Follows
  <2>3. PICK u \in Subs :
          Holds(wire[s].s2c, wire[s].table, g.device_by_sub, g.sub_by_device, u, device)
    BY <2>2 DEF Served
  <2>4. wire[s].s2c = <<>>
    BY DEF Settled
  <2>5. Untold(wire[s].s2c, Len(wire[s].s2c) + 1, u) /\ Never(wire[s].s2c, "Subscribed", device)
    BY <2>4 DEF Untold, Never
  <2> QED BY <2>3, <2>5 DEF Holds, Followed
<1> QED BY <1>1, <1>2, InitTracking, PTL DEF Spec

\* unsubscribe takes effect: once nothing is under way the server serves none but
\* the devices subscribed, those it could not be told of, and those two tasks'
\* calls raced for.
THEOREM LeavesDevices == Spec => []Unsubscribed
<1>1. TInv /\ [Next]_vars => TInv'
  BY StepsKeepTracking
<1>2. TInv => Unsubscribed
  <2> SUFFICES ASSUME TInv, NEW s \in Gens, Settled(s), s \notin crossed, NEW sub \in Subs
               PROVE  wire[s].table[sub] \in g.subscriptions \cup silent \cup raced \cup {Unknown}
    BY DEF Unsubscribed
  <2>1. Current(s) /\ wire[s].table[sub] \in Devices \cup {Unknown}
    BY WireParts DEF Settled, Current, TInv, NInv, SInv, LInv
  <2>2. ASSUME NEW d \in Unmeant PROVE wire[s].table[sub] # d
    BY <2>1, <2>2, NothingAsked DEF TInv, Tracking, Tracked, Leaves, Unserved
  <2> QED BY <2>1, <2>2 DEF Unmeant
<1> QED BY <1>1, <1>2, InitTracking, PTL DEF Spec

=================================================================================
