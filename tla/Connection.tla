------------------------------- MODULE Connection -------------------------------
(***************************************************************************)
(* What a tracking session promises about its sockets, whoever dials       *)
(* (connect, reconnect, Relocate, a credentials refresh) and however       *)
(* long a dial takes: each dial has a generation of its own, a socket is   *)
(* put in place at most once and only by the newest dial, and a session    *)
(* that is over gets no socket any more.  TrackingClient and Listener      *)
(* implement it.                                                           *)
(***************************************************************************)
EXTENDS Naturals

VARIABLES
  dial_gen,  \* the newest dial
  out_tx,    \* the socket that is sent on, named after its dial; None without
  opened,    \* the sockets that have been in place so far
  over       \* closed for good
connection == <<dial_gen, out_tx, opened, over>>

None == 0

Init == dial_gen = 0 /\ out_tx = None /\ opened = {} /\ over = FALSE

\* A dial begins; one after new credentials hangs up first.
Dial ==
  /\ dial_gen' = dial_gen + 1
  /\ out_tx' \in {out_tx, None}
  /\ UNCHANGED <<opened, over>>

\* The newest dial puts its socket in place.
Install ==
  /\ ~over /\ dial_gen # None /\ dial_gen \notin opened
  /\ out_tx' = dial_gen
  /\ opened' = opened \cup {dial_gen}
  /\ UNCHANGED <<dial_gen, over>>

Lose ==
  /\ out_tx' = None
  /\ UNCHANGED <<dial_gen, opened, over>>

End ==
  /\ over' = TRUE
  /\ out_tx' \in {out_tx, None}
  /\ UNCHANGED <<dial_gen, opened>>

Next == Dial \/ Install \/ Lose \/ End

Spec == Init /\ [][Next]_connection

\* A socket that is sent on is newer than all that were in place before it, so
\* that a slow dial never takes the session back to an older one.
NewestInPlace == out_tx # None => out_tx \in opened /\ \A s \in opened : s <= out_tx
===============================================================================
