----------------------------- MODULE TokenRotation -----------------------------
(***************************************************************************)
(* What the client's session promises about its token pair, however many   *)
(* requests see it expire: one request at a time renews it, with the pair  *)
(* that is stored, and stores the answer before the next one may begin.    *)
(* The server takes a refresh token once.  HttpSession implements it.      *)
(***************************************************************************)
EXTENDS Naturals

CONSTANT Reqs

VARIABLES
  holders,  \* the requests that are renewing the pair
  fetched,  \* the answer with the new pair is on its way to the holder
  pair,     \* the stored pair
  newest    \* the pair whose refresh token the server takes
rotation == <<holders, fetched, pair, newest>>

Init == holders = {} /\ fetched = FALSE /\ pair = 1 /\ newest = 1

Acquire ==
  /\ holders = {}
  /\ \E r \in Reqs : holders' = {r}
  /\ UNCHANGED <<fetched, pair, newest>>

\* The server rotates the pair that is stored, and no other.
Rotate ==
  /\ holders # {} /\ ~fetched /\ pair = newest
  /\ newest' = newest + 1 /\ fetched' = TRUE
  /\ UNCHANGED <<holders, pair>>

Keep ==
  /\ fetched
  /\ pair' = newest /\ fetched' = FALSE
  /\ UNCHANGED <<holders, newest>>

Lose ==
  /\ fetched
  /\ fetched' = FALSE
  /\ UNCHANGED <<holders, pair, newest>>

\* The holder is done, or is dropped wherever it stands.
Release ==
  /\ holders # {}
  /\ holders' = {} /\ fetched' = FALSE
  /\ UNCHANGED <<pair, newest>>

Next == Acquire \/ Rotate \/ Keep \/ Lose \/ Release

Spec == Init /\ [][Next]_rotation

\* The stored pair is at most one behind: the server never rotates twice
\* without the client having stored what came between.
OneBehind == pair = newest \/ pair + 1 = newest

\* A session whose answer was lost stays as it is: no refresh of any request
\* succeeds any more, and only a new session helps.
SpentForGood == [][pair # newest /\ ~fetched => UNCHANGED <<pair, newest>>]_rotation
===============================================================================
