---------------------------- MODULE ContractProofs ----------------------------
(***************************************************************************)
(* What follows for every session that keeps a contract: Connection about  *)
(* the socket in place, TokenRotation about the stored pair of tokens.     *)
(***************************************************************************)
EXTENDS Connection, TLAPS

CONSTANT Reqs
VARIABLES holders, fetched, pair, newest

Rotation == INSTANCE TokenRotation

-----------------------------------------------------------------------------
(* Connection.                                                               *)

\* Nothing is in place that has not been dialed.
CInv == /\ dial_gen \in Nat /\ opened \subseteq 1 .. dial_gen
        /\ over \in BOOLEAN /\ NewestInPlace

\* A new socket is the newest dial's, and no socket before it was newer.
Newest == out_tx' \notin {None, out_tx} =>
            out_tx' = dial_gen' /\ \A s \in opened : s < out_tx'

\* A session that is over gets no socket.
Final == over => over' /\ out_tx' \in {None, out_tx}

\* The four kinds of step.
LEMMA ConnectionStep ==
  ASSUME CInv, [Next]_connection
  PROVE  CInv' /\ Newest /\ Final
<1>1. CASE Dial
  BY <1>1 DEF Dial, CInv, NewestInPlace, Newest, Final, None
<1>2. CASE Install
  BY <1>2 DEF Install, CInv, NewestInPlace, Newest, Final, None
<1>3. CASE Lose
  BY <1>3 DEF Lose, CInv, NewestInPlace, Newest, Final, None
<1>4. CASE End
  BY <1>4 DEF End, CInv, NewestInPlace, Newest, Final, None
<1>5. CASE UNCHANGED connection
  BY <1>5 DEF connection, CInv, NewestInPlace, Newest, Final
<1> QED BY <1>1, <1>2, <1>3, <1>4, <1>5 DEF Next

\* dial_inner and on_socket_closed keep the newest socket in place, for any
\* number of dials that overlap in any way.
THEOREM NewestStays == Spec => []NewestInPlace
<1>1. ASSUME Init PROVE CInv
  <2>1. dial_gen \in Nat /\ over \in BOOLEAN /\ opened = {} /\ out_tx = None
    BY <1>1 DEF Init
  <2>2. opened \subseteq 1 .. dial_gen
    BY <2>1
  <2> QED BY <2>1, <2>2 DEF CInv, NewestInPlace
<1>2. CInv /\ [Next]_connection => CInv'
  BY ConnectionStep
<1>3. CInv => NewestInPlace
  BY DEF CInv
<1> QED BY <1>1, <1>2, <1>3, PTL DEF Spec

-----------------------------------------------------------------------------
(* TokenRotation.                                                            *)

\* An answer on its way is ahead of the stored pair, and has a holder.
RInv == /\ fetched \in BOOLEAN /\ pair \in Nat /\ newest \in Nat
        /\ fetched => holders # {} /\ pair + 1 = newest
        /\ Rotation!OneBehind

LEMMA RInvHolds == Rotation!Spec => []RInv
<1>1. ASSUME Rotation!Init PROVE RInv
  <2>1. ~fetched /\ fetched \in BOOLEAN
    BY <1>1 DEF Rotation!Init
  <2> QED BY <1>1, <2>1 DEF Rotation!Init, RInv, Rotation!OneBehind
<1>2. ASSUME RInv, [Rotation!Next]_(Rotation!rotation) PROVE RInv'
  <2>1. CASE Rotation!Acquire
    BY <1>2, <2>1 DEF Rotation!Acquire, RInv, Rotation!OneBehind
  <2>2. CASE Rotation!Rotate
    BY <1>2, <2>2 DEF Rotation!Rotate, RInv, Rotation!OneBehind
  <2>3. CASE Rotation!Keep
    BY <1>2, <2>3 DEF Rotation!Keep, RInv, Rotation!OneBehind
  <2>4. CASE Rotation!Lose \/ Rotation!Release
    BY <1>2, <2>4 DEF Rotation!Lose, Rotation!Release, RInv, Rotation!OneBehind
  <2>5. CASE UNCHANGED Rotation!rotation
    BY <1>2, <2>5 DEF Rotation!rotation, RInv, Rotation!OneBehind
  <2> QED BY <1>2, <2>1, <2>2, <2>3, <2>4, <2>5 DEF Rotation!Next
<1> QED BY <1>1, <1>2, PTL DEF Rotation!Spec

\* do_refresh: the server is never two rotations ahead of the stored pair,
\* for any number of requests and refreshes.
THEOREM AtMostOneBehind == Rotation!Spec => []Rotation!OneBehind
BY RInvHolds, PTL DEF RInv

\* do_refresh keeps no answer but the one to the stored refresh token: after a
\* lost answer no request of the session can renew the pair.
THEOREM LostAnswerIsFinal == Rotation!Spec => Rotation!SpentForGood
<1>1. [Rotation!Next]_(Rotation!rotation)
        => [pair # newest /\ ~fetched => UNCHANGED <<pair, newest>>]_(Rotation!rotation)
  BY DEF Rotation!Next, Rotation!Acquire, Rotation!Rotate, Rotation!Keep, Rotation!Lose,
         Rotation!Release, Rotation!rotation
<1> QED BY <1>1, PTL DEF Rotation!Spec, Rotation!SpentForGood
===============================================================================
