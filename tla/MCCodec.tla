--------------------------------- MODULE MCCodec ---------------------------------
(***************************************************************************)
(* One message on its way from a writer of Codec to the reader of the      *)
(* other side: it arrives whole, cut, with bytes behind it that a newer    *)
(* writer has added, or as a type that a newer writer has introduced.      *)
(***************************************************************************)
EXTENDS Codec

VARIABLES sent, frame, fate
vars == <<sent, frame, fate>>

-----------------------------------------------------------------------------
(* The messages: every field at its edges, one or two fields at a time.      *)

U32   == Base^4
Uids  == {NoUid, 1}
Seqs  == {0, U32 - 1, U32 + 1}
Times == {NoValue, <<0>>, <<5>>, <<-1>>}
Texts == {<<>>, <<1>>, <<1, Lead, Follow>>, <<1, 2, Lead, Follow>>, <<1, 2, 3, 4>>}

Point(lat, lon) == [lat |-> lat, lon |-> lon, alt |-> NoValue, acc |-> NoValue, time |-> NoValue]
Place(p)        == [lat |-> p.lat, lon |-> p.lon]
Origin          == Point(0, 0)
Samples ==
  {Point(lat, lon) : lat \in {-LatMax, LatMax, LatMax + 1}, lon \in {-LonMax - 1, -LonMax, LonMax}}
  \cup [lat : {1}, lon : {-1}, alt : {NoValue, <<-3>>}, acc : {NoValue, <<Base * Base + 1>>},
        time : Times]

\* Points that are near and far from one another, and one off the globe.
Near  == Point(Half - 1, -Half)
Far   == Point(Half, 0)
Wrong == Point(LatMax + 1, 0)
Tracks == UNION {[1 .. n -> {Origin, Near, Far, Wrong}] : n \in 1 .. 3}
          \cup {<<Origin, Near, Near, Far>>, <<Near, Near, Near, Near>>}

ClientMessages ==
  [type : {"Resume"}, track_uid : Uids, last_client_seq : Seqs]
  \cup [type : {"TrackStart"}, location : {NoValue} \cup {<<p>> : p \in Samples},
        route : {<<>>, <<Place(Origin), Place(Near)>>, <<Place(Wrong)>>}, metadata : {<<>>, <<1, 2, 3, 4>>}]
  \cup [type : {"TrackStop"}, track_uid : Uids]
  \cup [type : {"LocationAdd"}, track_uid : {1}, client_seq : Seqs, points : {<<p>> : p \in Samples}]
  \cup [type : {"LocationBatch"}, track_uid : {1}, client_seq : {4, U32 + 1}, points : Tracks]
  \cup [type : {"Subscribe"}, device_uid : Uids, include_events : BOOLEAN,
        interval : {0, Base * Base - 1, Base * Base}]
  \cup [type : {"Unsubscribe"}, sub : {0, Base - 1}]
  \cup [type : {"Event"}, track_uid : {1}, payload : Texts, timestamp : Times]
  \cup [type : {"CommandAck"}, command_id : Uids, status : 0 .. 3,
        message : {NoValue} \cup {<<s>> : s \in Texts}]

ServerMessages ==
  [type : {"Hello"}, version : {2}, shard : {0, Base * Base - 1}, node_id : Uids]
  \cup [type : {"Relocate"}, retry_after : {0, U32 - 1}, endpoint : Texts]
  \cup [type : {"ResumeOk"}, track_uid : Uids, last_acked_seq : Seqs]
  \cup [type : {"TrackStarted"}, track_uid : Uids, metadata : Texts]
  \cup [type : {"TrackStopped"}, track_uid : Uids]
  \cup [type : {"Ack"}, seq : Seqs]
  \cup [type : {"LocationAdded"}, device_uid : {1}, sub : {Base - 1}, client_seq : Seqs, point : Samples]
  \cup [type : {"Subscribed"}, sub : {1}, device_uid : Uids, track_uid : Uids, online : BOOLEAN,
        last_location : {NoValue, <<Origin>>, <<Wrong>>}, last_seen : Times,
        route : {<<>>, <<Place(Origin), Place(Far)>>}, distance : {7}, duration : {0},
        start_name : {<<>>, <<1, 2, Lead, Follow>>}, end_name : {<<1>>}, metadata : {<<>>, <<1>>}]
  \cup [type : {"Error"}, code : 0 .. 7, retry_after : {NoValue, <<0>>, <<5>>},
        track_uid : {NoValue, <<1>>}, message : Texts]
  \cup [type : {"EventAdded"}, device_uid : {1}, sub : {0}, payload : Texts, timestamp : Times]
  \cup [type : {"Command"}, command_id : Uids, payload : Texts, timestamp : Times]
  \cup [type : {"DevicePresence"}, device_uid : {1}, sub : {1}, online : BOOLEAN, last_seen : Times]

FromClient(m) == Tag[m.type] < 128
Encode(m) == <<Tag[m.type]>> \o IF FromClient(m) THEN EncodeClient(m) ELSE EncodeServer(m)
Arrival   == IF FromClient(sent) THEN DecodeClient(frame) ELSE DecodeServer(frame)

-----------------------------------------------------------------------------
Init ==
  /\ sent \in ClientMessages \cup ServerMessages
  /\ frame = Encode(sent)
  /\ fate = "whole"

Meets(f, what) == fate = "whole" /\ frame' = f /\ fate' = what /\ UNCHANGED sent

Next ==
  \/ \E n \in 0 .. Len(frame) - 1 : Meets(SubSeq(frame, 1, n), "cut")
  \/ \E more \in {<<0>>, <<1, 0>>} : Meets(frame \o more, "grown")
  \/ \E tag \in {0, 9, 126, 127, 128, 140, 141, 254, 255} :
       fate = "whole" /\ tag # frame[1] /\ Meets(<<tag>> \o Tail(frame), "retyped")

Spec == Init /\ [][Next]_vars

-----------------------------------------------------------------------------
(* What the two sides agree on.                                              *)

Cut(s)   == SubSeq(s, 1, IF Len(s) < MaxString THEN Len(s) ELSE MaxString)
Least(a, b) == IF a < b THEN a ELSE b
AsPoint(p) == [p EXCEPT !.acc = IF @ = NoValue THEN @ ELSE <<Least(@[1], Base * Base - 1)>>]
Nil(uid) == IF uid = NoUid THEN 0 ELSE uid
Unless0(o) == IF o = <<0>> THEN NoValue ELSE o

\* The points of the first frame of a batch: those before one that does not fit.
FirstFrame(pts) ==
  LET fit == {n \in 1 .. Least(Len(pts), MaxPoints) :
                \A i \in 2 .. n : DeltaFits(pts[i - 1], pts[i])}
  IN SubSeq(pts, 1, CHOOSE n \in fit : \A k \in fit : k <= n)

\* What of a field survives the way: the name decides.
Survives(m, field) ==
  CASE field \in {"last_client_seq", "last_acked_seq", "seq"} -> m[field] % U32
    [] field = "client_seq" ->
         (IF m.type # "LocationBatch" THEN m.client_seq
          ELSE m.client_seq - Len(m.points) + Len(FirstFrame(m.points))) % U32
    [] field = "track_uid" /\ m.type \in {"TrackStop", "LocationAdd", "LocationBatch", "Event"} -> NoUid
    [] field = "track_uid" /\ m.type \in {"Subscribed", "Error"} -> m.track_uid
    [] field = "device_uid" /\ m.type \in {"LocationAdded", "EventAdded", "DevicePresence"} -> NoUid
    [] field \in {"track_uid", "device_uid", "command_id", "node_id"} -> Nil(m[field])
    [] field \in {"metadata", "payload", "endpoint", "start_name", "end_name"} -> Cut(m[field])
    [] field = "message" /\ m.type = "Error" -> Cut(m.message)
    [] field = "message" /\ m.type = "CommandAck" ->
         IF Or(m.message, <<>>) = <<>> THEN NoValue ELSE <<Cut(m.message[1])>>
    [] field = "retry_after" /\ m.type = "Error" -> Unless0(m.retry_after)
    [] field = "timestamp" -> Unless0(m.timestamp)
    [] field = "last_seen" /\ m.type = "DevicePresence" -> Unless0(m.last_seen)
    [] field = "interval" -> Least(m.interval, Base * Base - 1)
    [] field = "points" -> LET pts == FirstFrame(m.points) IN [i \in DOMAIN pts |-> AsPoint(pts[i])]
    [] field = "point" -> AsPoint(m.point)
    [] field = "location" -> IF m.location = NoValue THEN NoValue ELSE <<AsPoint(m.location[1])>>
    [] OTHER -> m[field]

Survivor(m) ==
  LET kept == [field \in DOMAIN m |-> IF field = "type" THEN m.type ELSE Survives(m, field)]
  IN IF m.type = "LocationBatch" /\ Len(kept.points) = 1 THEN [kept EXCEPT !.type = "LocationAdd"] ELSE kept

\* A point off the globe, a character cut in two and an error code of a newer
\* server make the whole message unreadable.
Places(m) ==
  (IF "points" \in DOMAIN m THEN ToSet(FirstFrame(m.points)) ELSE {})
  \cup (IF "point" \in DOMAIN m THEN {m.point} ELSE {})
  \cup (IF "location" \in DOMAIN m THEN ToSet(m.location) ELSE {})
  \cup (IF "last_location" \in DOMAIN m THEN ToSet(m.last_location) ELSE {})
  \cup (IF "route" \in DOMAIN m THEN ToSet(m.route) ELSE {})
Names(m) ==
  (IF "endpoint" \in DOMAIN m THEN {m.endpoint} ELSE {})
  \cup (IF "start_name" \in DOMAIN m THEN {m.start_name, m.end_name} ELSE {})
  \cup (IF m.type = "Error" THEN {m.message} ELSE {})
  \cup (IF m.type = "CommandAck" THEN ToSet(m.message) ELSE {})
Readable(m) ==
  /\ \A p \in Places(m) : InRange(p)
  /\ \A s \in Names(m) : Utf8(Cut(s))
  /\ m.type = "Error" => m.code \in 1 .. 6

\* encode_* against decode_*, field by field for every type: a message is read
\* as what the protocol can carry of it, whatever a newer writer puts behind
\* it, or not at all, but never as something else.
ReadAsSent ==
  fate \in {"whole", "grown"} =>
    IF Readable(sent) THEN Arrival.st = "ok" /\ Arrival.val = Survivor(sent)
    ELSE Arrival.st = "bad"

\* R::need: a message that was cut anywhere is refused, however many optional
\* fields it has: no prefix of a message is a message.
CutIsRefused == fate = "cut" => Arrival.st = "bad"

\* "unknown server type: ignore" (client.rs:412, codec.rs:698): a type the reader
\* does not know is skipped and never taken for another; those of the other
\* direction, and the reserved bytes, are refused.
NewerIsSkipped ==
  fate = "retyped" =>
    IF frame[1] \in (IF FromClient(sent) THEN 9 .. 126 ELSE 141 .. 254)
    THEN Arrival.st = "unknown"
    ELSE Arrival.st = "bad" \/ (Arrival.st = "ok" /\ Tag[Arrival.val.type] = frame[1])

\* encode_loc_frames: the frames of a backlog, read on the other side and numbered
\* back from the number each carries, are its points under their own numbers.
FramesRenumber ==
  fate = "whole" /\ sent.type = "LocationBatch" /\ ToSet(sent.points) \subseteq {Origin, Near, Far} =>
    LET frames == LocFrames(sent.client_seq, sent.points)
        read   == [k \in DOMAIN frames |-> DecodeClient(frames[k]).val]
        n      == Len(sent.points)
    IN {<<(read[k].client_seq - Len(read[k].points) + i) % U32, read[k].points[i]>> :
           <<k, i>> \in {e \in (DOMAIN read) \X (1 .. MaxPoints) : e[2] <= Len(read[e[1]].points)}}
       = {<<(sent.client_seq - n + i) % U32, sent.points[i]>> : i \in 1 .. n}
===============================================================================
