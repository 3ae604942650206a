--------------------------- MODULE MCTrackingClient ---------------------------
(* Instances of TrackingClient for TLC: budgets and the points they allow.   *)
EXTENDS TrackingClient, TLC

NoBudget == [a \in Acts |-> 0]

Points1 == 1 .. 1
Points2 == 1 .. 2
Points5 == 1 .. 5

\* A first run of the program, and one after a run that left a track behind, of
\* which the application remembers the uid, or not even that.
NoTrack    == [uid |-> None, acked |-> 0]
OneTrack   == [uid |-> 1, acked |-> 1]
SomeResume == {<<None, 0>>, <<1, 2>>}

\* Points are published from the highest down; the later ones (1 and 2) are each
\* too far from the point before to share its frame.
Near == {<<i, j>> \in Points \X Points : i >= 3 /\ j >= 3}

\* One publisher; its connection breaks, and a dial fails, or the server refuses
\* the start, defers the Resume or forgets the track.
TripBudget == "publish" :> 5 @@ "drop" :> 1 @@ "fail" :> 1 @@ "forget" :> 1
              @@ "retry" :> 1 @@ "refuse" :> 1 @@ NoBudget
TripApart  == {"fail", "forget", "retry", "refuse"}

\* Everything that makes the session dial, and close().
SocketBudget == "publish" :> 1 @@ "relocate" :> 1 @@ "drop" :> 1 @@ "auth" :> 1
                @@ "fail" :> 1 @@ "close" :> 1 @@ NoBudget

\* Concurrent application tasks, and a connection that breaks or an AUTH error.
CallsBudget == "start" :> 1 @@ "stop" :> 1 @@ "resume" :> 1 @@ "event" :> 1
               @@ "close" :> 1 @@ "drop" :> 1 @@ "auth" :> 1 @@ NoBudget
CallsApart  == {"drop", "auth", "event"}

\* Small instances on which the code departs from its documentation.
StartingBudget == "publish" :> 2 @@ "drop" :> 1 @@ NoBudget
AckedBudget    == "publish" :> 5 @@ "drop" :> 1 @@ NoBudget
NewTripBudget  == "publish" :> 2 @@ "drop" :> 1 @@ "auth" :> 1 @@ NoBudget
StrandedBudget == "publish" :> 1 @@ "drop" :> 1 @@ "relocate" :> 1 @@ "fail" :> 1 @@ NoBudget
==============================================================================
