---------------------------------- MODULE Codec ----------------------------------
(***************************************************************************)
(* The binary codec of tracking.v2 (src/src/tracking/codec.rs): the two    *)
(* writers encode_client_cmd and encode_server_evt and the two readers     *)
(* decode_client and decode_server_evt, which the code writes separately,  *)
(* field by field.                                                         *)
(*                                                                         *)
(* A frame is a sequence of numbers: the type byte, then one number per    *)
(* byte, little-endian.  A byte has Base values, so that the widths of the *)
(* integers, and where they overflow, are the code's at a smaller scale.   *)
(* The 16 bytes of a uid are one number, 0 for all zero.  Coordinates,     *)
(* altitude and accuracy are in the units of the wire (the rounding of     *)
(* f64 is not modelled), and an f64 is an opaque 8-byte integer.           *)
(***************************************************************************)
EXTENDS Integers, Sequences, SequencesExt

CONSTANTS
  Base,       \* values of a byte, 256
  MaxString,  \* MAX_STRING
  MaxPoints,  \* MAX_LOC_POINTS
  LatMax,     \* LAT_MAX = -LAT_MIN, in microdegrees
  LonMax      \* LON_MAX = -LON_MIN

ASSUME CodecAssumption ==
  /\ Base \in Nat /\ Base >= 8 /\ MaxString \in 1 .. Base * Base - 1
  /\ MaxPoints \in 1 .. Base - 1 /\ LatMax \in Nat /\ LonMax \in Nat

\* Option: a sequence of at most one value.
NoValue  == <<>>
Or(o, v) == IF o = NoValue THEN v ELSE o[1]

\* The string "", or one that is no uuid: uid_bytes makes it all zero.
NoUid == -1

\* Text is a sequence of bytes; Lead and Follow stand for a character of two.
Lead   == Base - 2
Follow == Base - 1
Utf8(s) ==
  \A i \in 0 .. Len(s) :
    (i > 0 /\ s[i] = Lead) <=> (i < Len(s) /\ s[i + 1] = Follow)

-----------------------------------------------------------------------------
(* Writers of a field: the bytes it becomes.                                 *)

\* to_le_bytes of an n-byte integer, after `as`: modulo Base^n, two's complement.
Put(n, v) == [i \in 1 .. n |-> (v \div Base^(i - 1)) % Base]

\* Faulty variant: the length before the cut.
PutStrLong(s) == Put(2, Len(s)) \o SubSeq(s, 1, IF Len(s) < MaxString THEN Len(s) ELSE MaxString)
\* put_str and put_bytes cut at MAX_STRING bytes, which may split a character.
PutStr(s) ==
  LET n == IF Len(s) < MaxString THEN Len(s) ELSE MaxString
  IN Put(2, n) \o SubSeq(s, 1, n)

PutUid(uid)  == <<IF uid = NoUid THEN 0 ELSE uid>>
PutBool(b)   == <<IF b THEN 1 ELSE 0>>
PutOpt(n, o) == IF o = NoValue THEN <<>> ELSE Put(n, o[1])

Half == (Base * Base) \div 2   \* 1 + i16::MAX
\* Faulty variant: one more than an i16 holds.
DeltaFitsWide(p, q) ==
  q.lat - p.lat \in -Half .. Half /\ q.lon - p.lon \in -Half .. Half
\* micro_delta_fits.
DeltaFits(p, q) ==
  q.lat - p.lat \in -Half .. Half - 1 /\ q.lon - p.lon \in -Half .. Half - 1

\* PF_ALT, PF_ACC and PF_TIME; the code has 1 << 4 for the last.
PfAlt == 1
PfAcc == 2
PfTime == 4
Flag(o, bit) == IF o = NoValue THEN 0 ELSE bit

\* write_point behind the coordinates; accuracy is clamped to a u16.
PointTail(p) ==
  PutOpt(4, p.alt)
  \o (IF p.acc = NoValue THEN <<>>
      ELSE Put(2, IF p.acc[1] < Base * Base THEN p.acc[1] ELSE Base * Base - 1))
  \o PutOpt(8, p.time)
PointFlags(p) == <<Flag(p.alt, PfAlt) + Flag(p.acc, PfAcc) + Flag(p.time, PfTime)>>

\* Absolute, or relative to the point before it.
PutAbs(p)      == PointFlags(p) \o Put(4, p.lat) \o Put(4, p.lon) \o PointTail(p)
PutDelta(q, p) == PointFlags(p) \o Put(2, p.lat - q.lat) \o Put(2, p.lon - q.lon) \o PointTail(p)

PutRoute(route) ==
  Put(2, Len(route)) \o FlattenSeq([i \in DOMAIN route |-> Put(4, route[i].lat) \o Put(4, route[i].lon)])

-----------------------------------------------------------------------------
(* encode_client_cmd and encode_loc_frames.                                  *)

Tag == [Resume |-> 1, TrackStart |-> 2, TrackStop |-> 3, LocationAdd |-> 4,
        LocationBatch |-> 4, Subscribe |-> 5, Unsubscribe |-> 6, Event |-> 7,
        CommandAck |-> 8,
        Hello |-> 128, Relocate |-> 129, ResumeOk |-> 130, TrackStarted |-> 131,
        TrackStopped |-> 132, Ack |-> 133, LocationAdded |-> 134, Subscribed |-> 135,
        Error |-> 136, EventAdded |-> 137, Command |-> 138, DevicePresence |-> 139]

\* encode_loc_frame: the number of the last point, the count, and the points.
LocFrame(seq, pts) ==
  <<Tag.LocationBatch>> \o Put(4, seq) \o Put(1, Len(pts))
  \o FlattenSeq([i \in DOMAIN pts |-> IF i = 1 THEN PutAbs(pts[1]) ELSE PutDelta(pts[i - 1], pts[i])])

\* encode_loc_frames: the points are cut into frames as OfflineQueue says.
LocFrames(last, pts) ==
  LET Cutter == INSTANCE OfflineQueue WITH
        Points <- ToSet(pts), Fits <- {e \in ToSet(pts) \X ToSet(pts) : DeltaFits(e[1], e[2])},
        FrameCap <- MaxPoints, SeqSpace <- Base^4, MaxQueue <- 1, Window <- 1
      frames == Cutter!EncodeLocFrames(last, pts)
  IN [k \in DOMAIN frames |-> LocFrame(frames[k].seq, frames[k].pts)]

EncodeClient(m) ==
  CASE m.type = "Resume"        -> PutUid(m.track_uid) \o Put(4, m.last_client_seq)
    [] m.type = "TrackStart"    -> PutBool(m.location # NoValue)
                                   \o (IF m.location = NoValue THEN <<>> ELSE PutAbs(m.location[1]))
                                   \o PutRoute(m.route) \o PutStr(m.metadata)
    [] m.type = "TrackStop"     -> <<>>
    [] m.type = "LocationAdd"   -> Tail(LocFrame(m.client_seq, <<m.points[1]>>))
    [] m.type = "LocationBatch" -> Tail(LocFrames(m.client_seq, m.points)[1])
    [] m.type = "Subscribe"     -> PutUid(m.device_uid) \o PutBool(m.include_events)
                                   \o Put(2, IF m.interval < Base * Base THEN m.interval
                                             ELSE Base * Base - 1)
    [] m.type = "Unsubscribe"   -> Put(1, m.sub)
    [] m.type = "Event"         -> PutStr(m.payload) \o Put(8, Or(m.timestamp, 0))
    [] m.type = "CommandAck"    -> PutUid(m.command_id) \o Put(1, m.status)
                                   \o PutStr(Or(m.message, <<>>))

EncodeServer(m) ==
  CASE m.type = "Hello"          -> Put(1, m.version) \o Put(2, m.shard) \o PutUid(m.node_id)
    [] m.type = "Relocate"       -> Put(4, m.retry_after) \o PutStr(m.endpoint)
    [] m.type = "ResumeOk"       -> PutUid(m.track_uid) \o Put(4, m.last_acked_seq)
    [] m.type = "TrackStarted"   -> PutUid(m.track_uid) \o PutStr(m.metadata)
    [] m.type = "TrackStopped"   -> PutUid(m.track_uid)
    [] m.type = "Ack"            -> Put(4, m.seq)
    [] m.type = "LocationAdded"  -> Put(1, m.sub) \o Put(4, m.client_seq) \o PutAbs(m.point)
    [] m.type = "Subscribed"     ->
         Put(1, m.sub) \o PutUid(m.device_uid) \o PutUid(m.track_uid) \o PutBool(m.online)
         \o <<Flag(m.last_location, 1) + Flag(m.last_seen, 2) + Flag(m.route, 4)>>
         \o (IF m.last_location = NoValue THEN <<>> ELSE PutAbs(m.last_location[1]))
         \o PutOpt(8, m.last_seen)
         \o (IF m.route = <<>> THEN <<>> ELSE PutRoute(m.route))
         \o Put(8, m.distance) \o Put(8, m.duration)
         \o PutStr(m.start_name) \o PutStr(m.end_name) \o PutStr(m.metadata)
    [] m.type = "Error"          -> Put(1, m.code) \o Put(4, Or(m.retry_after, 0))
                                    \o PutUid(Or(m.track_uid, NoUid)) \o PutStr(m.message)
    [] m.type = "EventAdded"     -> Put(1, m.sub) \o PutStr(m.payload) \o Put(8, Or(m.timestamp, 0))
    [] m.type = "Command"        -> PutUid(m.command_id) \o PutStr(m.payload)
                                    \o Put(8, Or(m.timestamp, 0))
    [] m.type = "DevicePresence" -> Put(1, m.sub) \o PutBool(m.online) \o Put(8, Or(m.last_seen, 0))
-----------------------------------------------------------------------------
(* Readers: what is left of the frame, what was read, and whether it could   *)
(* be; the client treats DecodeError::Truncated and Invalid alike.           *)

Bad        == [st |-> "bad", val |-> 0, rest |-> <<>>]
Ok(v, rest) == [st |-> "ok", val |-> v, rest |-> rest]

\* Faulty variant: bytes that are missing read as 0.
NeedLess(b, n) ==
  Ok([i \in 1 .. n |-> IF i <= Len(b) THEN b[i] ELSE 0], SubSeq(b, n + 1, Len(b)))
\* R::need.
Need(b, n) == IF Len(b) < n THEN Bad ELSE Ok(SubSeq(b, 1, n), SubSeq(b, n + 1, Len(b)))

Then(r, Op(_)) == IF r.st = "ok" THEN [r EXCEPT !.val = Op(@)] ELSE r
Check(r, P(_)) == IF r.st = "ok" /\ P(r.val) THEN r ELSE Bad

Unsigned(bytes) == FoldLeftDomain(LAMBDA n, i : n + bytes[i] * Base^(i - 1), 0, bytes)
Signed(bytes) ==
  LET n == Unsigned(bytes) IN IF n < Base^Len(bytes) \div 2 THEN n ELSE n - Base^Len(bytes)

UInt(b, n) == Then(Need(b, n), Unsigned)
Int_(b, n) == Then(Need(b, n), Signed)

ReadBytes(b) ==
  LET n == UInt(b, 2)
  IN IF n.st # "ok" \/ n.val > MaxString THEN Bad ELSE Need(n.rest, n.val)

\* A field that is there only when a bit of the flags read before is set.
Set(flags, bit) == flags \div bit % 2 = 1

\* One field after the other, as long as they can be read.
Fields(b, layout, Read(_, _)) ==
  FoldLeft(LAMBDA acc, f :
      IF acc.st # "ok" THEN acc
      ELSE IF f.bit # 0 /\ ~Set(acc.val.flags, f.bit)
           THEN [acc EXCEPT !.val = @ @@ (f.name :> NoValue)]
      ELSE LET r == Read(f.kind, acc.rest)
           IN IF r.st # "ok" THEN r
              ELSE Ok(acc.val @@ (f.name :> IF f.bit # 0 /\ f.kind # "route" THEN <<r.val>> ELSE r.val),
                      r.rest),
    Ok(<<>>, b), layout)

F(kind, name)       == [kind |-> kind, name |-> name, bit |-> 0]
When(bit, kind, name) == [kind |-> kind, name |-> name, bit |-> bit]

Plain(kind, b) ==
  CASE kind = "u8"  -> UInt(b, 1) [] kind = "u16" -> UInt(b, 2) [] kind = "u32" -> UInt(b, 4)
    [] kind = "i16" -> Int_(b, 2) [] kind = "i32" -> Int_(b, 4) [] kind = "i64" -> Int_(b, 8)

Without(rec, name) == [n \in DOMAIN rec \ {name} |-> rec[n]]
InRange(p) == p.lat \in -LatMax .. LatMax /\ p.lon \in -LonMax .. LonMax

\* read_point, absolute or behind the point q (check_coord either way).
PointLayout(int) ==
  <<F("u8", "flags"), F(int, "lat"), F(int, "lon"), When(PfAlt, "i32", "alt"),
    When(PfAcc, "u16", "acc"), When(PfTime, "i64", "time")>>
ReadAbs(b) ==
  Check(Then(Fields(b, PointLayout("i32"), Plain), LAMBDA p : Without(p, "flags")), InRange)
ReadDelta(q, b) ==
  Check(Then(Fields(b, PointLayout("i16"), Plain),
             LAMBDA p : [Without(p, "flags") EXCEPT !.lat = @ + q.lat, !.lon = @ + q.lon]), InRange)

Repeat(n, r, Read(_, _)) ==
  FoldLeft(LAMBDA acc, i : IF acc.st # "ok" THEN acc
                           ELSE LET one == Read(acc.val, acc.rest)
                                IN IF one.st # "ok" THEN one ELSE Ok(Append(acc.val, one.val), one.rest),
           r, [i \in 1 .. n |-> i])

\* The count of a Loc frame and its points.
ReadPoints(b) ==
  LET n == UInt(b, 1)
  IN IF n.st # "ok" \/ n.val \notin 1 .. MaxPoints THEN Bad
     ELSE Repeat(n.val, Ok(<<>>, n.rest),
                 LAMBDA pts, rest : IF pts = <<>> THEN ReadAbs(rest) ELSE ReadDelta(Last(pts), rest))

ReadRoute(b) ==
  LET n == UInt(b, 2)
  IN IF n.st # "ok" THEN n
     ELSE Repeat(n.val, Ok(<<>>, n.rest),
                 LAMBDA pts, rest : Check(Fields(rest, <<F("i32", "lat"), F("i32", "lon")>>, Plain), InRange))

\* Faulty variant: a code the client does not know reads as Unauthorized.
ErrorCodeOrLast(v) == Ok(IF v \in 1 .. 6 THEN v ELSE 6, <<>>)
\* ErrorCode::from_u8 and CommandAckStatus::from_u8.
ErrorCode(v)  == IF v \in 1 .. 6 THEN Ok(v, <<>>) ELSE Bad
AckStatus(v)  == IF v \in 1 .. 3 THEN v ELSE 0
SomeUnless0(v) == IF v = 0 THEN NoValue ELSE <<v>>

Read(kind, b) ==
  CASE kind = "uid"    -> Then(Need(b, 1), LAMBDA u : u[1])
    [] kind = "uidOpt" -> Then(Need(b, 1), LAMBDA u : SomeUnless0(u[1]))
    [] kind = "uidOr"  -> Then(Need(b, 1), LAMBDA u : IF u[1] = 0 THEN NoUid ELSE u[1])
    [] kind = "noUid"  -> Ok(NoUid, b)
    [] kind = "bool"   -> Then(UInt(b, 1), LAMBDA v : v # 0)
    [] kind = "bit"    -> Then(UInt(b, 1), LAMBDA v : Set(v, 1))
    [] kind = "status" -> Then(UInt(b, 1), AckStatus)
    [] kind = "code"   -> LET r == UInt(b, 1)
                          IN IF r.st # "ok" THEN r ELSE [ErrorCode(r.val) EXCEPT !.rest = r.rest]
    [] kind = "u32?"   -> Then(UInt(b, 4), SomeUnless0)
    [] kind = "i64?"   -> Then(Int_(b, 8), SomeUnless0)
    [] kind = "bytes"  -> ReadBytes(b)
    [] kind = "str"    -> Check(ReadBytes(b), Utf8)
    [] kind = "str?"   -> Then(Check(ReadBytes(b), Utf8), LAMBDA s : IF s = <<>> THEN NoValue ELSE <<s>>)
    [] kind = "point"  -> ReadAbs(b)
    [] kind = "points" -> ReadPoints(b)
    [] kind = "route"  -> ReadRoute(b)
    [] OTHER           -> Plain(kind, b)

\* What decode_client reads for each type it knows.
ClientLayout ==
  [Resume      |-> <<F("uid", "track_uid"), F("u32", "last_client_seq")>>,
   TrackStart  |-> <<F("u8", "flags"), When(1, "point", "location"), F("route", "route"),
                     F("bytes", "metadata")>>,
   TrackStop   |-> <<F("noUid", "track_uid")>>,
   LocationAdd |-> <<F("noUid", "track_uid"), F("u32", "client_seq"), F("points", "points")>>,
   Subscribe   |-> <<F("uid", "device_uid"), F("bit", "include_events"), F("u16", "interval")>>,
   Unsubscribe |-> <<F("u8", "sub")>>,
   Event       |-> <<F("noUid", "track_uid"), F("bytes", "payload"), F("i64?", "timestamp")>>,
   CommandAck  |-> <<F("uid", "command_id"), F("status", "status"), F("str?", "message")>>]

\* What decode_server_evt reads.
ServerLayout ==
  [Hello          |-> <<F("u8", "version"), F("u16", "shard"), F("uid", "node_id")>>,
   Relocate       |-> <<F("u32", "retry_after"), F("str", "endpoint")>>,
   ResumeOk       |-> <<F("uid", "track_uid"), F("u32", "last_acked_seq")>>,
   TrackStarted   |-> <<F("uid", "track_uid"), F("bytes", "metadata")>>,
   TrackStopped   |-> <<F("uid", "track_uid")>>,
   Ack            |-> <<F("u32", "seq")>>,
   LocationAdded  |-> <<F("noUid", "device_uid"), F("u8", "sub"), F("u32", "client_seq"),
                        F("point", "point")>>,
   Subscribed     |-> <<F("u8", "sub"), F("uid", "device_uid"), F("uidOr", "track_uid"),
                        F("bool", "online"), F("u8", "flags"), When(1, "point", "last_location"),
                        When(2, "i64", "last_seen"), When(4, "route", "route"),
                        F("i64", "distance"), F("i64", "duration"), F("str", "start_name"),
                        F("str", "end_name"), F("bytes", "metadata")>>,
   Error          |-> <<F("code", "code"), F("u32?", "retry_after"), F("uidOpt", "track_uid"),
                        F("str", "message")>>,
   EventAdded     |-> <<F("noUid", "device_uid"), F("u8", "sub"), F("bytes", "payload"),
                        F("i64?", "timestamp")>>,
   Command        |-> <<F("uid", "command_id"), F("bytes", "payload"), F("i64?", "timestamp")>>,
   DevicePresence |-> <<F("noUid", "device_uid"), F("u8", "sub"), F("bool", "online"),
                        F("i64?", "last_seen")>>]

\* A message of the type the first byte names; more bytes than it needs are not
\* looked at, and a type of the reader's own range it does not know is skipped.
Decode(layouts, unknown, frame) ==
  IF frame = <<>> THEN Bad
  ELSE LET known == {type \in DOMAIN layouts : Tag[type] = frame[1]}
       IN IF frame[1] \in unknown THEN [Bad EXCEPT !.st = "unknown"]
          ELSE IF known = {} THEN Bad
          ELSE LET type == CHOOSE type \in known : TRUE
                   r    == Fields(Tail(frame), layouts[type], Read)
               IN Then(r, LAMBDA m : Without(m, "flags") @@ ("type" :> type))

\* Faulty variant: the range of the server's types starts one too high.
UnknownServerFrom129 == 140 .. 254
UnknownClient == 9 .. 126
UnknownServer == 141 .. 254   \* 0x8C, the byte 140, is refused

\* decode_client; one point makes a LocationAdd, more make a LocationBatch.
DecodeClient(frame) ==
  Then(Decode(ClientLayout, UnknownClient, frame),
       LAMBDA m : IF m.type = "LocationAdd" /\ Len(m.points) > 1
                  THEN [m EXCEPT !.type = "LocationBatch"] ELSE m)

DecodeServer(frame) == Decode(ServerLayout, UnknownServer, frame)
===============================================================================
