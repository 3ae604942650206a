--------------------------- MODULE HttpSessionProofs ---------------------------
(***************************************************************************)
(* HttpSession, for any number of requests, batches, threads and faults:   *)
(* its types, the single flight of refresh(), the abstract rotation that   *)
(* it implements, and what becomes of a batch that fails, of the refresh   *)
(* token when answers are lost, and of the flag when leaders are dropped.  *)
(***************************************************************************)
EXTENDS HttpSession, FiniteSetTheorems, TLAPS

(* What a step may write into a request keeps it a request.                  *)

LEMMA RequestUpdates ==
  ASSUME NEW q \in Request, NEW pc \in Pc, NEW n \in Nat, NEW a \in Answer, NEW o \in Outcome
  PROVE  /\ [q EXCEPT !.pc = pc] \in Request
         /\ [q EXCEPT !.pc = pc, !.out = o] \in Request
         /\ [q EXCEPT !.pc = pc, !.result = o] \in Request
         /\ [q EXCEPT !.pc = pc, !.answer = a] \in Request
         /\ [q EXCEPT !.pc = pc, !.why = "token"] \in Request
         /\ [q EXCEPT !.pc = pc, !.why = "401"] \in Request
         /\ [q EXCEPT !.pc = pc, !.auth_retried = TRUE] \in Request
         /\ [q EXCEPT !.pc = pc, !.tok = n, !.result = o] \in Request
         /\ [q EXCEPT !.pc = pc, !.tok = n, !.answer = a, !.result = o] \in Request
BY Zenon DEF Request

LEMMA BecomesType ==
  ASSUME TypeOK, NEW r \in Reqs, NEW q \in Request, Becomes(r, q)
  PROVE  req' \in [Reqs -> Request]
BY DEF TypeOK, Becomes

LEMMA GotoType ==
  ASSUME TypeOK, NEW r \in Reqs, NEW pc \in Pc, Goto(r, pc)
  PROVE  req' \in [Reqs -> Request]
<1>1. req[r] \in Request
  BY DEF TypeOK
<1>2. [req[r] EXCEPT !.pc = pc] \in Request
  BY <1>1, Zenon DEF Request
<1> QED BY <1>2, BecomesType DEF Goto

LEMMA SpendType ==
  ASSUME TypeOK, NEW f \in Faults, Spend(f)
  PROVE  faults' \in [Faults -> Nat]
BY DEF TypeOK, Spend

LEMMA EndType ==
  ASSUME TypeOK, NEW r \in Reqs, NEW out \in Outcome, End(r, out)
  PROVE  /\ req' \in [Reqs -> Request]
         /\ batch' \in [Batches -> {"running", "failed"}]
<1>1. "done" \in Pc /\ "ok" \in Outcome /\ "cancelled" \in Outcome
  BY DEF Pc, Outcome
<1>2. \A q \in Reqs : /\ [req[q] EXCEPT !.pc = "done", !.out = out] \in Request
                      /\ [req[q] EXCEPT !.pc = "done", !.out = "cancelled"] \in Request
                      /\ [req[q] EXCEPT !.pc = "done", !.out = "ok"] \in Request
  BY <1>1, Zenon DEF TypeOK, Request
<1>3. batch' \in [Batches -> {"running", "failed"}]
  BY DEF End, TypeOK
<1>4. CASE out = "ok"
  BY <1>2, <1>3, <1>4, BecomesType DEF End
<1>5. CASE out # "ok"
  <2>1. req' = [q \in Reqs |->
                 IF q = r THEN [req[q] EXCEPT !.pc = "done", !.out = out]
                 ELSE IF q \in Mates(r) /\ req[q].pc # "done"
                 THEN [req[q] EXCEPT !.pc = "done", !.out = "cancelled"]
                 ELSE req[q]]
    BY <1>5, Zenon DEF End
  <2>2. \A q \in Reqs : req[q] \in Request
    BY DEF TypeOK
  <2>3. \A q \in Reqs : req'[q] \in Request
    BY <1>2, <2>1, <2>2, Zenon
  <2> QED BY <1>3, <2>1, <2>3, Zenon
<1> QED BY <1>4, <1>5

\* Every action of the model keeps its state within the declared types: a
\* request is retried at most max_retries times.
THEOREM TypeCorrect == Spec => []TypeOK
<1>1. Init => TypeOK
  BY HttpAssumption
  DEF Init, TypeOK, Session, Request, Api, NewRequest, Pc, Answer, Outcome
<1>2. TypeOK /\ [Next]_vars => TypeOK'
  <2> SUFFICES ASSUME TypeOK, [Next]_vars PROVE TypeOK'
    OBVIOUS
  <2>1. /\ sess \in Session /\ req \in [Reqs -> Request] /\ api \in Api
        /\ batch \in [Batches -> {"running", "failed"}] /\ faults \in [Faults -> Nat]
    BY DEF TypeOK
  <2>2. ASSUME NEW r \in Reqs, Step(r) PROVE TypeOK'
    <3>1. req[r] \in Request /\ sess.pair \in Nat
      BY <2>1 DEF Session
    <3>2. CASE Begin(r) \/ Follow(r) \/ Park(r)
      <4>1. \E pc \in {"token", "park", "parked"} : Goto(r, pc)
        BY <3>2 DEF Begin, Follow, Park
      <4>2. req' \in [Reqs -> Request]
        BY <4>1, GotoType DEF Pc
      <4> QED BY <2>1, <3>2, <4>2 DEF Begin, Follow, Park, TypeOK
    <3>3. ASSUME SendWith(r) PROVE req' \in [Reqs -> Request]
      <4>1. "sent" \in Pc /\ "none" \in Answer /\ "none" \in Outcome
        BY DEF Pc, Answer, Outcome
      <4> QED BY <3>1, <3>3, <4>1, RequestUpdates, BecomesType DEF SendWith
    <3>4. CASE Token(r) \/ ReadToken(r)
      <4>1. "refresh" \in Pc /\ "none" \in Answer /\ "none" \in Outcome
        BY DEF Pc, Answer, Outcome
      <4>2. req' \in [Reqs -> Request]
        BY <3>1, <3>3, <3>4, <4>1, RequestUpdates, BecomesType DEF Token, ReadToken
      <4> QED BY <2>1, <3>4, <4>2 DEF Token, ReadToken, TypeOK
    <3>5. CASE Lead(r)
      <4>1. "post" \in Pc /\ "none" \in Answer /\ "none" \in Outcome
        BY DEF Pc, Answer, Outcome
      <4>2. sess' \in Session
        BY <2>1, <3>5, Zenon DEF Lead, Latch, Session
      <4>3. req' \in [Reqs -> Request]
        BY <3>1, <3>5, <4>1, RequestUpdates, BecomesType DEF Lead
      <4> QED BY <2>1, <3>5, <4>2, <4>3 DEF Lead, TypeOK
    <3>6. CASE Woken(r)
      <4>1. "refresh" \in Pc /\ "refreshed" \in Pc /\ "none" \in Answer /\ "ok" \in Outcome
        BY DEF Pc, Answer, Outcome
      <4>2. req' \in [Reqs -> Request]
        BY <3>1, <3>6, <4>1, RequestUpdates, BecomesType, GotoType DEF Woken
      <4> QED BY <2>1, <3>6, <4>2 DEF Woken, TypeOK
    <3>7. CASE ApiRefreshes(r)
      <4>1. /\ "posted" \in Pc /\ "unlatch" \in Pc /\ "none" \in Answer
            /\ "ok" \in Outcome /\ "REFRESH_FAILED" \in Outcome /\ api.issued + 1 \in Nat
        BY <2>1 DEF Pc, Answer, Outcome, Api
      <4>2. api' \in Api
        BY <2>1, <3>7, <4>1 DEF ApiRefreshes, Api
      <4>3. req' \in [Reqs -> Request]
        BY <3>1, <3>7, <4>1, RequestUpdates, BecomesType DEF ApiRefreshes
      <4> QED BY <2>1, <3>7, <4>2, <4>3 DEF ApiRefreshes, TypeOK
    <3>8. CASE StorePair(r)
      <4>1. req[r].tok \in Nat /\ "unlatch" \in Pc
        BY <3>1 DEF Request, Pc
      <4>2. sess' \in Session
        BY <2>1, <3>8, <4>1, Zenon DEF StorePair, Store, Session
      <4>3. req' \in [Reqs -> Request]
        BY <3>8, <4>1, GotoType DEF StorePair
      <4> QED BY <2>1, <3>8, <4>2, <4>3 DEF StorePair, TypeOK
    <3>9. CASE Unlatch(r)
      <4>1. sess' \in Session
        BY <2>1, <3>9, Zenon DEF Unlatch, Unlatched, Session
      <4>2. req' \in [Reqs -> Request]
        BY <3>9, GotoType DEF Unlatch, Pc
      <4> QED BY <2>1, <3>9, <4>1, <4>2 DEF Unlatch, TypeOK
    <3>10. CASE NotifyWaiters(r)
      <4>1. \A q \in Reqs : /\ [req[q] EXCEPT !.pc = "refreshed"] \in Request
                            /\ [req[q] EXCEPT !.pc = "woken"] \in Request
        BY <2>1 DEF Request, Pc
      <4>2. req' \in [Reqs -> Request]
        BY <2>1, <3>10, <4>1 DEF NotifyWaiters
      <4> QED BY <2>1, <3>10, <4>2 DEF NotifyWaiters, TypeOK
    <3>11. CASE Refreshed(r)
      <4>1. CASE req[r].result # "ok"
        <5>1. (IF req[r].why = "401" THEN "API_AUTH" ELSE req[r].result) \in Outcome
          BY <3>1 DEF Request, Outcome
        <5> QED BY <2>1, <3>11, <4>1, <5>1, EndType DEF Refreshed, TypeOK
      <4>2. CASE req[r].result = "ok"
        <5>1. "readToken" \in Pc /\ "token" \in Pc /\ "none" \in Answer /\ "none" \in Outcome
          BY DEF Pc, Answer, Outcome
        <5>2. req' \in [Reqs -> Request]
          BY <3>1, <3>11, <4>2, <5>1, RequestUpdates, BecomesType, GotoType DEF Refreshed
        <5> QED BY <2>1, <3>11, <4>2, <5>2 DEF Refreshed, TypeOK
      <4> QED BY <4>1, <4>2
    <3>12. CASE ApiAnswers(r)
      <4>1. PICK a \in Answer : Becomes(r, [req[r] EXCEPT !.pc = "answered", !.answer = a])
        <5> DEFINE To(a) == Becomes(r, [req[r] EXCEPT !.pc = "answered", !.answer = a])
        <5>1. \/ To(IF req[r].tok = api.access THEN "ok" ELSE "401")
              \/ To("network") \/ To("5xx") \/ To("4xx") \/ To("403")
          BY <3>12 DEF ApiAnswers
        <5>2. \E a \in {"ok", "401", "network", "5xx", "4xx", "403"} : To(a)
          <6> HIDE DEF To
          <6> QED BY <5>1
        <5> QED BY <5>2 DEF Answer
      <4>2. "answered" \in Pc /\ "none" \in Outcome
        BY DEF Pc, Outcome
      <4>3. req' \in [Reqs -> Request]
        BY <3>1, <4>1, <4>2, RequestUpdates, BecomesType
      <4>4. faults' \in [Faults -> Nat]
        BY <2>1, <3>12, SpendType DEF ApiAnswers, Faults
      <4> QED BY <2>1, <3>12, <4>3, <4>4 DEF ApiAnswers, TypeOK
    <3>13. CASE Unauthorized(r)
      <4>1. "refresh" \in Pc /\ "none" \in Answer /\ "API_AUTH" \in Outcome
        BY DEF Pc, Answer, Outcome
      <4>2. CASE ~req[r].auth_retried
        <5>1. req' \in [Reqs -> Request]
          BY <3>1, <3>13, <4>1, <4>2, RequestUpdates, BecomesType DEF Unauthorized
        <5> QED BY <2>1, <3>13, <4>2, <5>1 DEF Unauthorized, TypeOK
      <4>3. CASE req[r].auth_retried
        BY <2>1, <3>13, <4>1, <4>3, EndType DEF Unauthorized, TypeOK
      <4> QED BY <4>2, <4>3
    <3>14. CASE Retry(r)
      <4>1. CASE MayRetry(r)
        <5>1. req[r].attempt + 1 \in 0 .. MaxRetries
          BY <3>1, <4>1, HttpAssumption DEF MayRetry, Request, HttpAssumption
        <5>2. "token" \in Pc
          BY DEF Pc
        <5>3. [req[r] EXCEPT !.pc = "token", !.attempt = req[r].attempt + 1] \in Request
          BY <3>1, <5>1, <5>2, Zenon DEF Request
        <5>4. req' \in [Reqs -> Request]
          BY <3>14, <4>1, <5>3, BecomesType DEF Retry
        <5> QED BY <2>1, <3>14, <4>1, <5>4 DEF Retry, TypeOK
      <4>2. CASE ~MayRetry(r)
        <5>1. (IF req[r].answer = "network" THEN "NETWORK" ELSE "SERVER_ERROR") \in Outcome
          BY DEF Outcome
        <5> QED BY <2>1, <3>14, <4>2, <5>1, EndType DEF Retry, TypeOK
      <4> QED BY <4>1, <4>2
    <3>15. CASE Return(r)
      <4>1. \E out \in Outcome : End(r, out)
        BY <3>15 DEF Return, Outcome
      <4> QED BY <2>1, <3>15, <4>1, EndType DEF Return, TypeOK
    <3> QED
      BY <2>2, <3>2, <3>4, <3>5, <3>6, <3>7, <3>8, <3>9, <3>10, <3>11, <3>12,
         <3>13, <3>14, <3>15 DEF Step
  <2>3. ASSUME NEW r \in Reqs, RefreshFails(r) \/ RefreshLost(r) \/ RefreshInvalid(r) PROVE TypeOK'
    <3>1. req[r] \in Request
      BY <2>1
    <3>2. PICK out \in Outcome : Becomes(r, [req[r] EXCEPT !.pc = "unlatch", !.result = out])
      BY <2>3 DEF RefreshFails, RefreshLost, RefreshInvalid, Outcome
    <3>3. "unlatch" \in Pc /\ "none" \in Answer
      BY DEF Pc, Answer
    <3>4. req' \in [Reqs -> Request]
      BY <3>1, <3>2, <3>3, RequestUpdates, BecomesType
    <3>5. faults' \in [Faults -> Nat]
      BY <2>3, SpendType DEF RefreshFails, RefreshLost, RefreshInvalid, Faults
    <3> QED BY <2>1, <2>3, <3>4, <3>5 DEF RefreshFails, RefreshLost, RefreshInvalid, TypeOK
  <2>4. ASSUME NEW r \in Reqs, Cancel(r) PROVE TypeOK'
    <3>1. "cancelled" \in Outcome /\ "cancel" \in Faults
      BY DEF Outcome, Faults
    <3>2. faults' \in [Faults -> Nat]
      BY <2>4, <3>1, SpendType DEF Cancel
    <3> QED BY <2>1, <2>4, <3>1, <3>2, EndType DEF Cancel, TypeOK
  <2>5. CASE Expire
    <3>1. faults' \in [Faults -> Nat]
      BY <2>5, SpendType DEF Expire, Faults
    <3>2. api' \in Api
      BY <2>1, <2>5 DEF Expire, Api
    <3> QED BY <2>1, <2>5, <3>1, <3>2 DEF Expire, TypeOK
  <2>6. CASE Age
    <3>1. faults' \in [Faults -> Nat]
      BY <2>6, SpendType DEF Age, Faults
    <3>2. sess' \in Session
      BY <2>1, <2>6, Zenon DEF Age, Session
    <3> QED BY <2>1, <2>6, <3>1, <3>2 DEF Age, TypeOK
  <2>7. CASE UNCHANGED vars
    BY <2>1, <2>7 DEF vars, TypeOK
  <2> QED BY <2>2, <2>3, <2>4, <2>5, <2>6, <2>7 DEF Next
<1> QED BY <1>1, <1>2, PTL DEF Spec

-----------------------------------------------------------------------------
(* Single flight alone is not inductive: that a second request may not become *)
(* leader follows from the flag, which every request between raising and       *)
(* lowering it keeps up.                                                       *)
FlagUp == \A r \in Reqs : req[r].pc \in Refreshing => sess.refreshing

LEMMA BecomesOnly ==
  ASSUME TypeOK, NEW r \in Reqs, NEW q, Becomes(r, q)
  PROVE  req'[r] = q /\ \A p \in Reqs \ {r} : req'[p] = req[p]
BY DEF TypeOK, Becomes

LEMMA GotoPc ==
  ASSUME TypeOK, NEW r \in Reqs, NEW pc, Goto(r, pc)
  PROVE  req'[r].pc = pc
<1>1. req'[r] = [req[r] EXCEPT !.pc = pc]
  BY BecomesOnly DEF Goto
<1>2. req[r] \in Request
  BY DEF TypeOK
<1> QED BY <1>1, <1>2, Zenon DEF Request

LEMMA SessUpdates ==
  ASSUME NEW s \in Session, NEW n
  PROVE  /\ [s EXCEPT !.refreshing = TRUE].refreshing
         /\ [s EXCEPT !.aged = TRUE].refreshing = s.refreshing
         /\ [s EXCEPT !.pair = n, !.aged = FALSE].refreshing = s.refreshing
BY Zenon DEF Session

\* A step of r alone does no harm when it moves r to a place outside the section.
LEMMA MovesOut ==
  ASSUME TypeOK, NEW r \in Reqs, NEW q, Becomes(r, q), q.pc \notin Refreshing
  PROVE  \A p \in Reqs : req'[p].pc \in Refreshing => req'[p] = req[p]
BY BecomesOnly

LEMMA MovesWithin ==
  ASSUME TypeOK, NEW r \in Reqs, NEW q, Becomes(r, q), req[r].pc \in Refreshing
  PROVE  \A p \in Reqs : req'[p].pc \in Refreshing => req[p].pc \in Refreshing
BY BecomesOnly

LEMMA GotoOut ==
  ASSUME TypeOK, NEW r \in Reqs, NEW pc, Goto(r, pc), pc \notin Refreshing
  PROVE  \A p \in Reqs : req'[p].pc \in Refreshing => req'[p] = req[p]
BY BecomesOnly, GotoPc DEF Goto

LEMMA SendLeaves ==
  ASSUME TypeOK, NEW r \in Reqs, SendWith(r)
  PROVE  \A p \in Reqs : req'[p].pc \in Refreshing => req'[p] = req[p]
<1>1. req[r] \in Request
  BY DEF TypeOK
<1>2. [req[r] EXCEPT !.pc = "sent", !.tok = sess.pair,
                     !.answer = "none", !.result = "none"].pc = "sent"
  BY <1>1, Zenon DEF Request
<1> QED BY <1>2, MovesOut DEF SendWith, Refreshing

LEMMA EndLeaves ==
  ASSUME TypeOK, NEW r \in Reqs, NEW out, End(r, out)
  PROVE  \A p \in Reqs : req'[p].pc \in Refreshing => req'[p] = req[p]
<1>1. \A p \in Reqs : /\ [req[p] EXCEPT !.pc = "done", !.out = out].pc = "done"
                      /\ [req[p] EXCEPT !.pc = "done", !.out = "ok"].pc = "done"
                      /\ [req[p] EXCEPT !.pc = "done", !.out = "cancelled"].pc = "done"
  <2>1. \A p \in Reqs : req[p] \in Request
    BY DEF TypeOK
  <2> QED BY <2>1, Zenon DEF Request
<1>2. "done" \notin Refreshing
  BY DEF Refreshing
<1>3. CASE out = "ok"
  <2>1. Becomes(r, [req[r] EXCEPT !.pc = "done", !.out = "ok"])
    BY <1>3 DEF End
  <2> QED BY <1>1, <1>2, <2>1, MovesOut
<1>4. CASE out # "ok"
  <2>1. \A p \in Reqs : \/ req'[p] = [req[p] EXCEPT !.pc = "done", !.out = out]
                        \/ req'[p] = [req[p] EXCEPT !.pc = "done", !.out = "cancelled"]
                        \/ req'[p] = req[p]
    BY <1>4, Zenon DEF End
  <2> QED BY <1>1, <1>2, <2>1, Zenon
<1> QED BY <1>3, <1>4

LEMMA NotifyLeaves ==
  ASSUME TypeOK, NEW r \in Reqs, NotifyWaiters(r)
  PROVE  \A p \in Reqs : req'[p].pc \in Refreshing => req'[p] = req[p]
<1>1. \A p \in Reqs : req[p] \in Request
  BY DEF TypeOK
<1>2. \A p \in Reqs : /\ [req[p] EXCEPT !.pc = "refreshed"].pc = "refreshed"
                      /\ [req[p] EXCEPT !.pc = "woken"].pc = "woken"
  BY <1>1, Zenon DEF Request
<1>3. \A p \in Reqs : \/ req'[p] = [req[p] EXCEPT !.pc = "refreshed"]
                      \/ req'[p] = [req[p] EXCEPT !.pc = "woken"]
                      \/ req'[p] = req[p]
  BY Zenon DEF NotifyWaiters
<1>4. "refreshed" \notin Refreshing /\ "woken" \notin Refreshing
  BY DEF Refreshing
<1> QED BY <1>2, <1>3, <1>4, Zenon

\* Beside Lead, and the steps of the holder of the flag, no step of a request
\* touches the section but by leaving it.
LEMMA StepLeaves ==
  ASSUME TypeOK, NEW r \in Reqs, Step(r), ~Lead(r), ~ApiRefreshes(r), ~StorePair(r)
  PROVE  \A p \in Reqs : req'[p].pc \in Refreshing => req'[p] = req[p]
<1>0. \A p \in Reqs : req[p] \in Request
  BY DEF TypeOK
<1>1. CASE Begin(r) \/ Follow(r) \/ Park(r)
  BY <1>1, GotoOut DEF Begin, Follow, Park, Refreshing
<1>2. CASE Token(r) \/ ReadToken(r)
  <2>1. CASE SendWith(r)
    BY <2>1, SendLeaves
  <2>2. CASE Becomes(r, [req[r] EXCEPT !.pc = "refresh", !.why = "token"])
    <3>1. [req[r] EXCEPT !.pc = "refresh", !.why = "token"].pc = "refresh"
      BY <1>0, Zenon DEF Request
    <3> QED BY <2>2, <3>1, MovesOut DEF Refreshing
  <2> QED BY <1>2, <2>1, <2>2 DEF Token, ReadToken
<1>3. CASE Woken(r)
  <2>1. [req[r] EXCEPT !.pc = "refreshed", !.result = "ok"].pc = "refreshed"
    BY <1>0, Zenon DEF Request
  <2> QED BY <1>3, <2>1, GotoOut, MovesOut DEF Woken, Refreshing
<1>4. CASE Unlatch(r)
  BY <1>4, GotoOut DEF Unlatch, Refreshing
<1>5. CASE NotifyWaiters(r)
  BY <1>5, NotifyLeaves
<1>6. CASE Refreshed(r)
  <2>1. [req[r] EXCEPT !.pc = "token", !.auth_retried = TRUE].pc = "token"
    BY <1>0, Zenon DEF Request
  <2> QED BY <1>6, <2>1, GotoOut, MovesOut, EndLeaves DEF Refreshed, Refreshing
<1>7. CASE ApiAnswers(r)
  <2>1. \A a : [req[r] EXCEPT !.pc = "answered", !.answer = a].pc = "answered"
    BY <1>0, Zenon DEF Request
  <2>2. \E a : Becomes(r, [req[r] EXCEPT !.pc = "answered", !.answer = a])
    BY <1>7 DEF ApiAnswers
  <2> QED BY <2>1, <2>2, MovesOut DEF Refreshing
<1>8. CASE Unauthorized(r)
  <2>1. [req[r] EXCEPT !.pc = "refresh", !.why = "401"].pc = "refresh"
    BY <1>0, Zenon DEF Request
  <2> QED BY <1>8, <2>1, MovesOut, EndLeaves DEF Unauthorized, Refreshing
<1>9. CASE Retry(r)
  <2>1. [req[r] EXCEPT !.pc = "token", !.attempt = @ + 1].pc = "token"
    BY <1>0, Zenon DEF Request
  <2> QED BY <1>9, <2>1, MovesOut, EndLeaves DEF Retry, Refreshing
<1>10. CASE Return(r)
  BY <1>10, EndLeaves DEF Return
<1> QED BY <1>1, <1>2, <1>3, <1>4, <1>5, <1>6, <1>7, <1>8, <1>9, <1>10 DEF Step

LEMMA FlagStaysUp == Spec => [](SingleFlight /\ FlagUp)
<1>1. Init => FlagUp /\ SingleFlight
  BY DEF Init, NewRequest, FlagUp, SingleFlight, Refreshing
<1>2. TypeOK /\ SingleFlight /\ FlagUp /\ [Next]_vars => (SingleFlight /\ FlagUp)'
  <2> SUFFICES ASSUME TypeOK, SingleFlight, FlagUp, [Next]_vars
               PROVE  (SingleFlight /\ FlagUp)'
    OBVIOUS
  <2>1. sess \in Session /\ \A r \in Reqs : req[r] \in Request
    BY DEF TypeOK
  \* A step that keeps the flag and moves nobody into the section is harmless.
  <2>2. ASSUME sess'.refreshing = sess.refreshing,
               \A q \in Reqs : req'[q].pc \in Refreshing => req[q].pc \in Refreshing
        PROVE  (SingleFlight /\ FlagUp)'
    BY <2>2 DEF SingleFlight, FlagUp
  \* Only Lead enters the section, and only while the flag is down.
  <2>3. ASSUME NEW r \in Reqs, Lead(r) PROVE (SingleFlight /\ FlagUp)'
    <3>1. \A q \in Reqs : req[q].pc \notin Refreshing
      BY <2>3 DEF Lead, FlagUp
    <3>2. sess'.refreshing
      BY <2>1, <2>3, SessUpdates DEF Lead, Latch
    <3>3. \A q \in Reqs \ {r} : req'[q] = req[q]
      BY <2>3, BecomesOnly DEF Lead
    <3> QED BY <3>1, <3>2, <3>3 DEF SingleFlight, FlagUp
  \* Unlatch leaves it, and nobody else is in it.
  <2>4. ASSUME NEW r \in Reqs, Unlatch(r) PROVE (SingleFlight /\ FlagUp)'
    <3>1. req[r].pc \in Refreshing
      BY <2>4 DEF Unlatch, At, Refreshing
    <3>2. \A q \in Reqs \ {r} : req[q].pc \notin Refreshing /\ req'[q] = req[q]
      BY <2>4, <3>1, BecomesOnly DEF Unlatch, Goto, SingleFlight
    <3>3. req'[r].pc = "notify"
      BY <2>4, GotoPc DEF Unlatch
    <3> QED BY <3>2, <3>3 DEF SingleFlight, FlagUp, Refreshing
  <2>5. ASSUME NEW r \in Reqs, Step(r), ~Lead(r), ~Unlatch(r)
        PROVE  (SingleFlight /\ FlagUp)'
    <3>1. sess'.refreshing = sess.refreshing
      <4>1. CASE StorePair(r)
        BY <2>1, <4>1, SessUpdates DEF StorePair, Store
      <4>2. CASE ~StorePair(r)
        BY <2>5, <4>2 DEF Step, Begin, Token, ReadToken, Follow, Park, Woken,
           ApiRefreshes, NotifyWaiters, Refreshed, ApiAnswers, Unauthorized, Retry, Return
      <4> QED BY <4>1, <4>2
    <3>2. CASE ApiRefreshes(r) \/ StorePair(r)
      <4>1. req[r].pc \in Refreshing
        BY <3>2 DEF ApiRefreshes, StorePair, At, Refreshing
      <4>2. \E q : Becomes(r, q)
        BY <3>2 DEF ApiRefreshes, StorePair, Goto
      <4> QED BY <2>2, <3>1, <4>1, <4>2, MovesWithin
    <3>3. CASE ~ApiRefreshes(r) /\ ~StorePair(r)
      BY <2>2, <2>5, <3>1, <3>3, StepLeaves
    <3> QED BY <3>2, <3>3
  <2>6. ASSUME NEW r \in Reqs, RefreshFails(r) \/ RefreshLost(r) \/ RefreshInvalid(r)
        PROVE  (SingleFlight /\ FlagUp)'
    <3>1. req[r].pc \in Refreshing
      BY <2>6 DEF RefreshFails, RefreshLost, RefreshInvalid, At, Refreshing
    <3>2. \E q : Becomes(r, q)
      BY <2>6 DEF RefreshFails, RefreshLost, RefreshInvalid
    <3> QED BY <2>2, <2>6, <3>1, <3>2, MovesWithin DEF RefreshFails, RefreshLost, RefreshInvalid
  <2>7. ASSUME NEW r \in Reqs, Cancel(r) PROVE (SingleFlight /\ FlagUp)'
    BY <2>2, <2>7, EndLeaves DEF Cancel
  <2>8. CASE Expire
    BY <2>2, <2>8 DEF Expire
  <2>9. CASE Age
    BY <2>1, <2>2, <2>9, SessUpdates DEF Age
  <2>10. CASE UNCHANGED vars
    BY <2>2, <2>10 DEF vars
  <2> QED BY <2>3, <2>4, <2>5, <2>6, <2>7, <2>8, <2>9, <2>10 DEF Next
<1> QED BY <1>1, <1>2, TypeCorrect, PTL DEF Spec

\* refresh(): at no time do two requests post the refresh token, however many
\* tasks and threads see the token expire, whatever fails or is dropped.
THEOREM RefreshIsSingleFlight == Spec => []SingleFlight
BY FlagStaysUp, PTL

-----------------------------------------------------------------------------
(* The refresh of a token pair, as an abstract rotation.                     *)

Holders  == {r \in Reqs : req[r].pc \in Refreshing}
Fetched  == \E r \in Reqs : req[r].pc = "posted"
Abstract == [Rotation!Next]_(Rotation!rotation)

\* What the holder carries: the pair that is stored, or the one that replaces it.
Carries ==
  /\ api.refresh = api.issued
  /\ \A r \in Reqs : /\ req[r].pc = "post" => req[r].tok = sess.pair
                     /\ req[r].pc = "posted" => req[r].tok = api.refresh

PInv == TypeOK /\ SingleFlight /\ FlagUp /\ Carries

\* The mapped state is that of the instance.
LEMMA Mapped ==
  /\ Rotation!rotation = <<Holders, Fetched, sess.pair, api.refresh>>
  /\ Rotation!Acquire <=> /\ Holders = {} /\ \E r \in Reqs : Holders' = {r}
                          /\ UNCHANGED <<Fetched, sess.pair, api.refresh>>
  /\ Rotation!Rotate  <=> /\ Holders # {} /\ ~Fetched /\ sess.pair = api.refresh
                          /\ api.refresh' = api.refresh + 1 /\ Fetched' = TRUE
                          /\ UNCHANGED <<Holders, sess.pair>>
  /\ Rotation!Keep    <=> /\ Fetched /\ sess.pair' = api.refresh /\ Fetched' = FALSE
                          /\ UNCHANGED <<Holders, api.refresh>>
  /\ Rotation!Lose    <=> /\ Fetched /\ Fetched' = FALSE
                          /\ UNCHANGED <<Holders, sess.pair, api.refresh>>
  /\ Rotation!Release <=> /\ Holders # {} /\ Holders' = {} /\ Fetched' = FALSE
                          /\ UNCHANGED <<sess.pair, api.refresh>>
BY DEF Rotation!rotation, Rotation!Acquire, Rotation!Rotate, Rotation!Keep,
       Rotation!Lose, Rotation!Release, Holders, Fetched

LEMMA Stutters ==
  ASSUME Holders' = Holders, Fetched' = Fetched, sess'.pair = sess.pair,
         api'.refresh = api.refresh
  PROVE  Abstract
<1>1. UNCHANGED Rotation!rotation
  BY Zenon DEF Rotation!rotation, Holders, Fetched
<1> QED BY <1>1 DEF Abstract

\* A request in the section is the only one there.
LEMMA Alone ==
  ASSUME SingleFlight, NEW r \in Reqs, req[r].pc \in Refreshing
  PROVE  Holders = {r} /\ (Fetched <=> req[r].pc = "posted")
BY DEF SingleFlight, Holders, Fetched, Refreshing

\* A step that leaves the tokens alone and the section at most empty.
LEMMA Aside ==
  ASSUME PInv, sess'.pair = sess.pair, api'.refresh = api.refresh, api'.issued = api.issued,
         \A q \in Reqs : req'[q].pc \in Refreshing => req'[q] = req[q]
  PROVE  Carries' /\ Abstract
<1>1. Carries'
  BY DEF PInv, Carries, Refreshing
<1>2. CASE \A q \in Reqs : req[q].pc \in Refreshing => req'[q].pc \in Refreshing
  <2>1. Holders' = Holders
    BY <1>2 DEF Holders
  <2>2. Fetched' <=> Fetched
    BY <1>2 DEF Fetched, Refreshing
  <2>3. Fetched' = Fetched
    BY <2>2, Zenon DEF Fetched
  <2> QED BY <1>1, <2>1, <2>3, Stutters
<1>3. ASSUME NEW r \in Reqs, req[r].pc \in Refreshing, req'[r].pc \notin Refreshing
      PROVE  Abstract
  <2>1. Holders = {r}
    BY <1>3, Alone DEF PInv
  <2>2. \A q \in Reqs : req'[q].pc \notin Refreshing
    BY <1>3, <2>1 DEF Holders
  <2>3. Holders' = {} /\ Fetched' = FALSE
    BY <2>2 DEF Holders, Fetched, Refreshing
  <2>4. Rotation!Release
    BY <2>1, <2>3, Mapped
  <2> QED BY <2>4 DEF Abstract, Rotation!Next
<1> QED BY <1>1, <1>2, <1>3

-----------------------------------------------------------------------------
(* The steps of the holder.                                                  *)

LEMMA LeadAcquires ==
  ASSUME PInv, NEW r \in Reqs, Lead(r)
  PROVE  Carries' /\ Abstract
<1>1. req[r] \in Request /\ sess \in Session
  BY DEF PInv, TypeOK
<1>2. \A q \in Reqs : req[q].pc \notin Refreshing
  BY DEF PInv, Lead, FlagUp
<1>3. /\ req'[r].pc = "post" /\ req'[r].tok = sess.pair
      /\ \A q \in Reqs \ {r} : req'[q] = req[q]
  <2>1. Becomes(r, [req[r] EXCEPT !.pc = "post", !.tok = sess.pair, !.result = "none"])
    BY DEF Lead
  <2>2. /\ [req[r] EXCEPT !.pc = "post", !.tok = sess.pair, !.result = "none"].pc = "post"
        /\ [req[r] EXCEPT !.pc = "post", !.tok = sess.pair, !.result = "none"].tok = sess.pair
    BY <1>1, Zenon DEF Request
  <2> QED BY <2>1, <2>2, BecomesOnly DEF PInv
<1>4. sess'.pair = sess.pair /\ api' = api
  <2>1. [sess EXCEPT !.refreshing = TRUE].pair = sess.pair
    BY <1>1, Zenon DEF Session
  <2> QED BY <2>1 DEF Lead, Latch
<1>5. Carries'
  BY <1>2, <1>3, <1>4 DEF PInv, Carries, Refreshing
<1>6. Holders = {} /\ Holders' = {r} /\ Fetched = FALSE /\ Fetched' = FALSE
  BY <1>2, <1>3 DEF Holders, Fetched, Refreshing
<1>7. Rotation!Acquire
  BY <1>4, <1>6, Mapped
<1> QED BY <1>5, <1>7 DEF Abstract, Rotation!Next

LEMMA ServerRotates ==
  ASSUME PInv, NEW r \in Reqs, ApiRefreshes(r)
  PROVE  Carries' /\ Abstract
<1>1. req[r] \in Request /\ api \in Api
  BY DEF PInv, TypeOK
<1>2. req[r].pc = "post" /\ req[r].tok = sess.pair /\ sess' = sess
  BY DEF ApiRefreshes, At, PInv, Carries
<1>3. Holders = {r} /\ Fetched = FALSE
  BY <1>2, Alone DEF PInv, Refreshing
<1>4. \A q \in Reqs \ {r} : req[q].pc \notin Refreshing
  BY <1>3 DEF Holders
<1>5. CASE req[r].tok = api.refresh
  <2> DEFINE n == api.issued + 1
             q == [req[r] EXCEPT !.pc = "posted", !.tok = n, !.result = "ok"]
  <2>1. Becomes(r, q) /\ api' = [issued |-> n, access |-> n, refresh |-> n]
    BY <1>5 DEF ApiRefreshes
  <2>2. q.pc = "posted" /\ q.tok = n
    BY <1>1, Zenon DEF Request
  <2>3. req'[r].pc = "posted" /\ req'[r].tok = n /\ \A p \in Reqs \ {r} : req'[p] = req[p]
    BY <2>1, <2>2, BecomesOnly DEF PInv
  <2>4. api'.refresh = n /\ api'.issued = n /\ n = api.refresh + 1
    BY <2>1 DEF PInv, Carries
  <2>5. Carries'
    BY <1>4, <2>3, <2>4 DEF Carries, Refreshing
  <2>6. Holders' = Holders /\ Fetched' = TRUE
    BY <1>3, <1>4, <2>3 DEF Holders, Fetched, Refreshing
  <2>7. Rotation!Rotate
    BY <1>2, <1>3, <1>5, <2>4, <2>6, Mapped
  <2> QED BY <2>5, <2>7 DEF Abstract, Rotation!Next
<1>6. CASE req[r].tok # api.refresh
  <2> DEFINE q == [req[r] EXCEPT !.pc = "unlatch", !.result = "REFRESH_FAILED"]
  <2>1. Becomes(r, q) /\ api' = api
    BY <1>6 DEF ApiRefreshes
  <2>2. q.pc = "unlatch"
    BY <1>1, Zenon DEF Request
  <2>3. req'[r].pc = "unlatch" /\ \A p \in Reqs \ {r} : req'[p] = req[p]
    BY <2>1, <2>2, BecomesOnly DEF PInv
  <2>4. Carries'
    BY <1>2, <1>4, <2>1, <2>3 DEF PInv, Carries, Refreshing
  <2>5. Holders' = Holders /\ Fetched' = FALSE
    BY <1>3, <1>4, <2>3 DEF Holders, Fetched, Refreshing
  <2>6. Fetched' = Fetched
    BY <1>3, <2>5, Zenon
  <2> QED BY <1>2, <2>1, <2>4, <2>5, <2>6, Stutters
<1> QED BY <1>5, <1>6

LEMMA HolderKeeps ==
  ASSUME PInv, NEW r \in Reqs, StorePair(r)
  PROVE  Carries' /\ Abstract
<1>1. req[r] \in Request /\ sess \in Session
  BY DEF PInv, TypeOK
<1>2. req[r].pc = "posted" /\ req[r].tok = api.refresh /\ api' = api
  BY DEF StorePair, At, PInv, Carries
<1>3. Holders = {r} /\ Fetched
  BY <1>2, Alone DEF PInv, Refreshing
<1>4. \A q \in Reqs \ {r} : req[q].pc \notin Refreshing
  BY <1>3 DEF Holders
<1>5. req'[r].pc = "unlatch" /\ \A p \in Reqs \ {r} : req'[p] = req[p]
  BY GotoPc, BecomesOnly DEF StorePair, Goto, PInv
<1>6. sess'.pair = api.refresh
  <2>1. [sess EXCEPT !.pair = req[r].tok, !.aged = FALSE].pair = req[r].tok
    BY <1>1, Zenon DEF Session
  <2> QED BY <1>2, <2>1 DEF StorePair, Store
<1>7. Carries'
  BY <1>2, <1>4, <1>5 DEF PInv, Carries, Refreshing
<1>8. Holders' = Holders /\ Fetched' = FALSE
  BY <1>3, <1>4, <1>5 DEF Holders, Fetched, Refreshing
<1>9. Rotation!Keep
  BY <1>2, <1>3, <1>6, <1>8, Mapped
<1> QED BY <1>7, <1>9 DEF Abstract, Rotation!Next

\* A refresh that fails loses the answer, if there was one.
LEMMA AnswerLost ==
  ASSUME PInv, NEW r \in Reqs, RefreshFails(r) \/ RefreshLost(r) \/ RefreshInvalid(r)
  PROVE  Carries' /\ Abstract
<1>1. req[r] \in Request
  BY DEF PInv, TypeOK
<1>2. req[r].pc \in {"post", "posted"} /\ api' = api /\ sess' = sess
  BY DEF RefreshFails, RefreshLost, RefreshInvalid, At
<1>3. Holders = {r} /\ (Fetched <=> req[r].pc = "posted")
  BY <1>2, Alone DEF PInv, Refreshing
<1>4. \A q \in Reqs \ {r} : req[q].pc \notin Refreshing
  BY <1>3 DEF Holders
<1>5. req'[r].pc = "unlatch" /\ \A p \in Reqs \ {r} : req'[p] = req[p]
  <2>1. PICK o : Becomes(r, [req[r] EXCEPT !.pc = "unlatch", !.result = o])
    BY DEF RefreshFails, RefreshLost, RefreshInvalid
  <2> DEFINE q == [req[r] EXCEPT !.pc = "unlatch", !.result = o]
  <2>2. Becomes(r, q) /\ q.pc = "unlatch"
    BY <1>1, <2>1, Zenon DEF Request
  <2> HIDE DEF q
  <2> QED BY <2>2, BecomesOnly DEF PInv
<1>6. Carries'
  BY <1>2, <1>4, <1>5 DEF PInv, Carries, Refreshing
<1>7. Holders' = Holders /\ Fetched' = FALSE
  BY <1>3, <1>4, <1>5 DEF Holders, Fetched, Refreshing
<1>8. CASE Fetched
  <2>1. Rotation!Lose
    BY <1>2, <1>7, <1>8, Mapped
  <2> QED BY <1>6, <2>1 DEF Abstract, Rotation!Next
<1>9. CASE ~Fetched
  BY <1>2, <1>6, <1>7, <1>9, Stutters DEF Fetched
<1> QED BY <1>8, <1>9

-----------------------------------------------------------------------------
LEMMA StepsRotate ==
  ASSUME PInv, [Next]_vars
  PROVE  Carries' /\ Abstract
<1>1. ASSUME NEW r \in Reqs, Step(r) PROVE Carries' /\ Abstract
  <2>1. CASE Lead(r)
    BY <2>1, LeadAcquires
  <2>2. CASE ApiRefreshes(r)
    BY <2>2, ServerRotates
  <2>3. CASE StorePair(r)
    BY <2>3, HolderKeeps
  <2>4. CASE ~Lead(r) /\ ~ApiRefreshes(r) /\ ~StorePair(r)
    <3>1. \A q \in Reqs : req'[q].pc \in Refreshing => req'[q] = req[q]
      BY <1>1, <2>4, StepLeaves DEF PInv
    <3>2. sess'.pair = sess.pair
      <4>1. [sess EXCEPT !.refreshing = FALSE].pair = sess.pair
        BY Zenon DEF PInv, TypeOK, Session
      <4>2. CASE Unlatch(r)
        BY <4>1, <4>2 DEF Unlatch, Unlatched
      <4>3. CASE ~Unlatch(r)
        BY <1>1, <2>4, <4>3 DEF Step, Begin, Token, ReadToken, Follow, Park, Woken,
           NotifyWaiters, Refreshed, ApiAnswers, Unauthorized, Retry, Return
      <4> QED BY <4>2, <4>3
    <3>3. api' = api
      BY <1>1, <2>4 DEF Step, Begin, Token, ReadToken, Follow, Park, Woken, Unlatch,
         NotifyWaiters, Refreshed, ApiAnswers, Unauthorized, Retry, Return
    <3> QED BY <3>1, <3>2, <3>3, Aside
  <2> QED BY <2>1, <2>2, <2>3, <2>4
<1>2. ASSUME NEW r \in Reqs, RefreshFails(r) \/ RefreshLost(r) \/ RefreshInvalid(r)
      PROVE  Carries' /\ Abstract
  BY <1>2, AnswerLost
<1>3. ASSUME NEW r \in Reqs, Cancel(r) PROVE Carries' /\ Abstract
  <2>1. \A q \in Reqs : req'[q].pc \in Refreshing => req'[q] = req[q]
    BY <1>3, EndLeaves DEF Cancel, PInv
  <2> QED BY <1>3, <2>1, Aside DEF Cancel
<1>4. CASE Expire
  <2>1. api'.refresh = api.refresh /\ api'.issued = api.issued
    <3>1. /\ [api EXCEPT !.access = 0].refresh = api.refresh
          /\ [api EXCEPT !.access = 0].issued = api.issued
      BY Zenon DEF PInv, TypeOK, Api
    <3> QED BY <1>4, <3>1 DEF Expire
  <2> QED BY <1>4, <2>1, Aside DEF Expire
<1>5. CASE Age
  <2>1. sess'.pair = sess.pair
    <3>1. [sess EXCEPT !.aged = TRUE].pair = sess.pair
      BY Zenon DEF PInv, TypeOK, Session
    <3> QED BY <1>5, <3>1 DEF Age
  <2> QED BY <1>5, <2>1, Aside DEF Age
<1>6. CASE UNCHANGED vars
  BY <1>6, Aside DEF vars
<1> QED BY <1>1, <1>2, <1>3, <1>4, <1>5, <1>6 DEF Next

\* ClientAuthInner::refresh and do_request implement TokenRotation, whatever
\* is retried, cancelled or lost, on any number of threads.
THEOREM ImplementsRotation == Spec => KeepsRotation
<1>1. Init => Carries /\ Rotation!Init
  BY DEF Init, NewRequest, Carries, Rotation!Init, Refreshing
<1>2. TypeOK /\ SingleFlight /\ FlagUp /\ Carries /\ [Next]_vars
        => Carries' /\ [Rotation!Next]_(Rotation!rotation)
  BY StepsRotate DEF Abstract, PInv
<1> QED
  BY <1>1, <1>2, TypeCorrect, FlagStaysUp, PTL
  DEF Spec, KeepsRotation, Rotation!Spec

-----------------------------------------------------------------------------
(* The batches, and the tokens that are lost.                                *)

Fine == {"none", "ok", "cancelled"}

\* Only a request that is done has an outcome, and the batch of an error is over.
Ended ==
  /\ \A r \in Reqs : req[r].pc # "done" => req[r].out = "none"
  /\ \A r \in Reqs : batch[BatchOf[r]] = "running" => req[r].out \in {"none", "ok"}
  /\ \A r \in Reqs : batch[BatchOf[r]] = "failed" => ~Active(r)
  /\ \A q, r \in Reqs :
       /\ BatchOf[q] = BatchOf[r] /\ req[q].out \notin Fine /\ req[r].out \notin Fine
       => q = r

\* A pair that was rotated and is not stored is on its way, or was lost.
Traced == sess.pair = api.refresh \/ Fetched \/ RefreshWasLost

HInv == PInv /\ Ended /\ Traced

\* A step of r that is not its last: the others stay, or are woken.
Walks(r) ==
  /\ batch' = batch
  /\ \A q \in Reqs : req'[q].out = req[q].out
  /\ \A q \in Reqs \ {r} : \/ req'[q].pc = req[q].pc
                           \/ req[q].pc = "parked" /\ req'[q].pc = "woken"
  /\ req[r].pc # "done" /\ req'[r].pc \notin {"queued", "done"}
  /\ req[r].pc = "queued" => batch[BatchOf[r]] = "running"

LEMMA BecomesWalks ==
  ASSUME TypeOK, NEW r \in Reqs, NEW q, Becomes(r, q), UNCHANGED batch,
         q.out = req[r].out, q.pc \notin {"queued", "done"}, req[r].pc \notin {"queued", "done"}
  PROVE  Walks(r)
BY BecomesOnly DEF Walks

LEMMA GotoWalks ==
  ASSUME TypeOK, NEW r \in Reqs, NEW pc, Goto(r, pc), UNCHANGED batch,
         pc \notin {"queued", "done"}, req[r].pc # "done",
         req[r].pc = "queued" => batch[BatchOf[r]] = "running"
  PROVE  Walks(r)
<1>1. req[r] \in Request
  BY DEF TypeOK
<1>2. [req[r] EXCEPT !.pc = pc].out = req[r].out /\ [req[r] EXCEPT !.pc = pc].pc = pc
  BY <1>1, Zenon DEF Request
<1>3. req'[r] = [req[r] EXCEPT !.pc = pc] /\ \A q \in Reqs \ {r} : req'[q] = req[q]
  BY BecomesOnly DEF Goto
<1> QED BY <1>2, <1>3 DEF Walks

LEMMA SendWalks ==
  ASSUME TypeOK, NEW r \in Reqs, SendWith(r), UNCHANGED batch, req[r].pc \notin {"queued", "done"}
  PROVE  Walks(r)
<1>1. req[r] \in Request
  BY DEF TypeOK
<1>2. /\ [req[r] EXCEPT !.pc = "sent", !.tok = sess.pair,
                        !.answer = "none", !.result = "none"].out = req[r].out
      /\ [req[r] EXCEPT !.pc = "sent", !.tok = sess.pair,
                        !.answer = "none", !.result = "none"].pc = "sent"
  BY <1>1, Zenon DEF Request
<1> QED BY <1>2, BecomesWalks DEF SendWith

\* A step of a request goes on, or is its last and gives it an outcome.
LEMMA StepWalksOrEnds ==
  ASSUME TypeOK, NEW r \in Reqs, Step(r) \/ RefreshFails(r) \/ RefreshLost(r) \/ RefreshInvalid(r)
  PROVE  \/ Walks(r)
         \/ /\ req[r].pc \in {"refreshed", "answered"}
            /\ \E out \in Outcome : End(r, out)
<1>0. req[r] \in Request
  BY DEF TypeOK
<1>1. CASE Begin(r)
  BY <1>1, GotoWalks DEF Begin, At
<1>2. CASE Follow(r) \/ Park(r) \/ StorePair(r) \/ Unlatch(r)
  BY <1>2, GotoWalks DEF Follow, Park, StorePair, Unlatch, At
<1>3. CASE Token(r) \/ ReadToken(r)
  <2>1. /\ [req[r] EXCEPT !.pc = "refresh", !.why = "token"].out = req[r].out
        /\ [req[r] EXCEPT !.pc = "refresh", !.why = "token"].pc = "refresh"
    BY <1>0, Zenon DEF Request
  <2> QED BY <1>3, <2>1, BecomesWalks, SendWalks DEF Token, ReadToken, At
<1>4. CASE Lead(r) \/ Woken(r)
  <2>1. /\ [req[r] EXCEPT !.pc = "post", !.tok = sess.pair, !.result = "none"].out = req[r].out
        /\ [req[r] EXCEPT !.pc = "post", !.tok = sess.pair, !.result = "none"].pc = "post"
        /\ [req[r] EXCEPT !.pc = "refreshed", !.result = "ok"].out = req[r].out
        /\ [req[r] EXCEPT !.pc = "refreshed", !.result = "ok"].pc = "refreshed"
    BY <1>0, Zenon DEF Request
  <2> QED BY <1>4, <2>1, BecomesWalks, GotoWalks DEF Lead, Woken, At
<1>5. CASE ApiRefreshes(r)
  <2>1. \A n : /\ [req[r] EXCEPT !.pc = "posted", !.tok = n, !.result = "ok"].out = req[r].out
               /\ [req[r] EXCEPT !.pc = "posted", !.tok = n, !.result = "ok"].pc = "posted"
    BY <1>0, Zenon DEF Request
  <2>2. /\ [req[r] EXCEPT !.pc = "unlatch", !.result = "REFRESH_FAILED"].out = req[r].out
        /\ [req[r] EXCEPT !.pc = "unlatch", !.result = "REFRESH_FAILED"].pc = "unlatch"
    BY <1>0, Zenon DEF Request
  <2>3. req[r].pc = "post" /\ UNCHANGED batch
    BY <1>5 DEF ApiRefreshes, At
  <2>4. \E q : Becomes(r, q) /\ q.out = req[r].out /\ q.pc \in {"posted", "unlatch"}
    BY <1>5, <2>1, <2>2, Zenon DEF ApiRefreshes
  <2> QED BY <2>3, <2>4, BecomesWalks
<1>6. CASE RefreshFails(r) \/ RefreshLost(r) \/ RefreshInvalid(r)
  <2>1. \A o : /\ [req[r] EXCEPT !.pc = "unlatch", !.result = o].out = req[r].out
               /\ [req[r] EXCEPT !.pc = "unlatch", !.result = o].pc = "unlatch"
    BY <1>0, Zenon DEF Request
  <2>2. \E q : Becomes(r, q) /\ q.out = req[r].out /\ q.pc = "unlatch"
    BY <1>6, <2>1, Zenon DEF RefreshFails, RefreshLost, RefreshInvalid
  <2> QED BY <1>6, <2>2, BecomesWalks DEF RefreshFails, RefreshLost, RefreshInvalid, At
<1>7. CASE NotifyWaiters(r)
  <2>1. \A q \in Reqs : /\ [req[q] EXCEPT !.pc = "refreshed"].out = req[q].out
                        /\ [req[q] EXCEPT !.pc = "refreshed"].pc = "refreshed"
                        /\ [req[q] EXCEPT !.pc = "woken"].out = req[q].out
                        /\ [req[q] EXCEPT !.pc = "woken"].pc = "woken"
    <3>1. \A q \in Reqs : req[q] \in Request
      BY DEF TypeOK
    <3> QED BY <3>1, Zenon DEF Request
  <2>2. req'[r] = [req[r] EXCEPT !.pc = "refreshed"]
    BY <1>7, Zenon DEF NotifyWaiters
  <2>3. \A q \in Reqs \ {r} : \/ req'[q] = req[q]
                              \/ req[q].pc = "parked" /\ req'[q] = [req[q] EXCEPT !.pc = "woken"]
    BY <1>7, Zenon DEF NotifyWaiters
  <2>4. req[r].pc = "notify" /\ batch' = batch
    BY <1>7 DEF NotifyWaiters, At
  <2>5. req'[r].pc = "refreshed" /\ req'[r].out = req[r].out
    BY <2>1, <2>2, Zenon
  <2>6. \A q \in Reqs \ {r} :
          /\ req'[q].out = req[q].out
          /\ \/ req'[q].pc = req[q].pc
             \/ req[q].pc = "parked" /\ req'[q].pc = "woken"
    BY <2>1, <2>3, Zenon
  <2> QED BY <2>4, <2>5, <2>6 DEF Walks
<1>8. CASE Refreshed(r)
  <2>1. /\ [req[r] EXCEPT !.pc = "token", !.auth_retried = TRUE].out = req[r].out
        /\ [req[r] EXCEPT !.pc = "token", !.auth_retried = TRUE].pc = "token"
    BY <1>0, Zenon DEF Request
  <2>2. req[r].result \in Outcome /\ "API_AUTH" \in Outcome
    BY <1>0 DEF Request, Outcome
  <2> QED BY <1>8, <2>1, <2>2, BecomesWalks, GotoWalks DEF Refreshed, At
<1>9. CASE ApiAnswers(r)
  <2>1. \A a : /\ [req[r] EXCEPT !.pc = "answered", !.answer = a].out = req[r].out
               /\ [req[r] EXCEPT !.pc = "answered", !.answer = a].pc = "answered"
    BY <1>0, Zenon DEF Request
  <2>2. \E a : Becomes(r, [req[r] EXCEPT !.pc = "answered", !.answer = a])
    BY <1>9 DEF ApiAnswers
  <2> QED BY <1>9, <2>1, <2>2, BecomesWalks DEF ApiAnswers
<1>10. CASE Unauthorized(r)
  <2>1. /\ [req[r] EXCEPT !.pc = "refresh", !.why = "401"].out = req[r].out
        /\ [req[r] EXCEPT !.pc = "refresh", !.why = "401"].pc = "refresh"
    BY <1>0, Zenon DEF Request
  <2> QED BY <1>10, <2>1, BecomesWalks DEF Unauthorized, At, Outcome
<1>11. CASE Retry(r)
  <2>1. /\ [req[r] EXCEPT !.pc = "token", !.attempt = @ + 1].out = req[r].out
        /\ [req[r] EXCEPT !.pc = "token", !.attempt = @ + 1].pc = "token"
    BY <1>0, Zenon DEF Request
  <2> QED BY <1>11, <2>1, BecomesWalks DEF Retry, At, Outcome
<1>12. CASE Return(r)
  BY <1>12 DEF Return, At, Outcome
<1> QED BY <1>1, <1>2, <1>3, <1>4, <1>5, <1>6, <1>7, <1>8, <1>9, <1>10, <1>11, <1>12 DEF Step

-----------------------------------------------------------------------------
\* What a step of the model may do to the requests.
LEMMA Shape ==
  ASSUME TypeOK, [Next]_vars
  PROVE  \/ \E r \in Reqs : Walks(r)
         \/ \E r \in Reqs, out \in Outcome :
              Active(r) /\ End(r, out) /\ (out = "cancelled" \/ req[r].pc # "posted")
         \/ UNCHANGED <<req, batch>>
<1>1. ASSUME NEW r \in Reqs, Step(r) \/ RefreshFails(r) \/ RefreshLost(r) \/ RefreshInvalid(r)
      PROVE  \/ Walks(r)
             \/ \E out \in Outcome :
                  Active(r) /\ End(r, out) /\ (out = "cancelled" \/ req[r].pc # "posted")
  BY <1>1, StepWalksOrEnds DEF Active
<1>2. ASSUME NEW r \in Reqs, Cancel(r)
      PROVE  \E out \in Outcome :
               Active(r) /\ End(r, out) /\ (out = "cancelled" \/ req[r].pc # "posted")
  BY <1>2 DEF Cancel, Outcome
<1>3. CASE Expire \/ Age \/ UNCHANGED vars
  BY <1>3 DEF Expire, Age, vars
<1> QED BY <1>1, <1>2, <1>3 DEF Next

\* The last step of a request: the request has its outcome, and when that is an
\* error its mates are dropped.
LEMMA EndResults ==
  ASSUME TypeOK, NEW r \in Reqs, NEW out \in Outcome, End(r, out)
  PROVE  /\ req'[r].pc = "done" /\ req'[r].out = out
         /\ \A q \in Reqs \ {r} :
              \/ req'[q] = req[q]
              \/ /\ out # "ok" /\ BatchOf[q] = BatchOf[r] /\ req[q].pc # "done"
                 /\ req'[q].pc = "done" /\ req'[q].out = "cancelled"
         /\ out = "ok" => batch' = batch
         /\ out # "ok" =>
              /\ batch' = [batch EXCEPT ![BatchOf[r]] = "failed"]
              /\ \A q \in Reqs : BatchOf[q] = BatchOf[r] => req'[q].pc = "done"
<1>1. \A q \in Reqs : req[q] \in Request
  BY DEF TypeOK
<1>2. \A q \in Reqs, o \in Outcome : /\ [req[q] EXCEPT !.pc = "done", !.out = o].pc = "done"
                                     /\ [req[q] EXCEPT !.pc = "done", !.out = o].out = o
  BY <1>1, Zenon DEF Request
<1>3. "ok" \in Outcome /\ "cancelled" \in Outcome
  BY DEF Outcome
<1>4. CASE out = "ok"
  <2>1. Becomes(r, [req[r] EXCEPT !.pc = "done", !.out = "ok"]) /\ batch' = batch
    BY <1>4 DEF End
  <2>2. /\ req'[r] = [req[r] EXCEPT !.pc = "done", !.out = "ok"]
        /\ \A q \in Reqs \ {r} : req'[q] = req[q]
    BY <2>1, BecomesOnly
  <2>3. req'[r].pc = "done" /\ req'[r].out = "ok"
    <3>1. /\ [req[r] EXCEPT !.pc = "done", !.out = "ok"].pc = "done"
          /\ [req[r] EXCEPT !.pc = "done", !.out = "ok"].out = "ok"
      BY <1>2, <1>3
    <3> QED BY <2>2, <3>1
  <2> QED BY <1>4, <2>1, <2>2, <2>3, Zenon
<1>5. CASE out # "ok"
  <2>1. /\ req' = [q \in Reqs |->
                    IF q = r THEN [req[q] EXCEPT !.pc = "done", !.out = out]
                    ELSE IF q \in Mates(r) /\ req[q].pc # "done"
                    THEN [req[q] EXCEPT !.pc = "done", !.out = "cancelled"]
                    ELSE req[q]]
        /\ batch' = [batch EXCEPT ![BatchOf[r]] = "failed"]
    BY <1>5, Zenon DEF End
  <2>2. req'[r].pc = "done" /\ req'[r].out = out
    BY <1>2, <2>1, Zenon
  <2>3. \A q \in Reqs \ {r} :
          IF BatchOf[q] = BatchOf[r] /\ req[q].pc # "done"
          THEN req'[q].pc = "done" /\ req'[q].out = "cancelled"
          ELSE req'[q] = req[q]
    BY <1>2, <1>3, <2>1, Zenon DEF Mates
  <2> QED BY <1>5, <2>1, <2>2, <2>3
<1> QED BY <1>4, <1>5

LEMMA EndedStays ==
  ASSUME TypeOK, Ended, [Next]_vars
  PROVE  Ended'
<1>1. ASSUME NEW r \in Reqs, Walks(r) PROVE Ended'
  <2>1. (\A q \in Reqs : req[q].pc # "done" => req[q].out = "none")'
    BY <1>1 DEF Walks, Ended
  <2>2. (\A q \in Reqs : batch[BatchOf[q]] = "running" => req[q].out \in {"none", "ok"})'
    BY <1>1 DEF Walks, Ended
  <2>3. (\A q \in Reqs : batch[BatchOf[q]] = "failed" => ~Active(q))'
    BY <1>1 DEF Walks, Ended, Active
  <2>4. (\A p, q \in Reqs :
           BatchOf[p] = BatchOf[q] /\ req[p].out \notin Fine /\ req[q].out \notin Fine
             => p = q)'
    BY <1>1 DEF Walks, Ended
  <2> QED BY <2>1, <2>2, <2>3, <2>4 DEF Ended
<1>2. ASSUME NEW r \in Reqs, NEW out \in Outcome, Active(r), End(r, out) PROVE Ended'
  <2>1. BatchOf[r] \in Batches /\ batch[BatchOf[r]] = "running"
    BY <1>2, HttpAssumption DEF HttpAssumption, TypeOK, Ended
  <2>2. \A q \in Reqs : BatchOf[q] = BatchOf[r] => req[q].out \in {"none", "ok"}
    BY <2>1 DEF Ended
  <2>3. /\ req'[r].pc = "done" /\ req'[r].out = out
        /\ \A q \in Reqs \ {r} :
              \/ req'[q] = req[q]
              \/ req'[q].pc = "done" /\ req'[q].out = "cancelled"
    BY <1>2, EndResults
  <2>4. (\A q \in Reqs : req[q].pc # "done" => req[q].out = "none")'
    BY <2>3 DEF Ended
  <2>5. CASE out = "ok"
    <3>1. batch' = batch /\ \A q \in Reqs \ {r} : req'[q] = req[q]
      BY <1>2, <2>5, EndResults
    <3> QED BY <2>3, <2>4, <2>5, <3>1 DEF Ended, Active, Fine
  <2>6. CASE out # "ok"
    <3>1. /\ \A q \in Reqs : BatchOf[q] = BatchOf[r] =>
                 batch'[BatchOf[q]] = "failed" /\ req'[q].pc = "done"
          /\ \A q \in Reqs : BatchOf[q] # BatchOf[r] =>
                 batch'[BatchOf[q]] = batch[BatchOf[q]] /\ req'[q] = req[q]
      BY <1>2, <2>1, <2>6, EndResults, HttpAssumption DEF HttpAssumption, TypeOK
    <3>2. \A q \in Reqs \ {r} : BatchOf[q] = BatchOf[r] => req'[q].out \in Fine
      BY <2>2, <2>3 DEF Fine
    <3>3. (\A q \in Reqs : batch[BatchOf[q]] = "running" => req[q].out \in {"none", "ok"})'
      BY <3>1 DEF Ended
    <3>4. (\A q \in Reqs : batch[BatchOf[q]] = "failed" => ~Active(q))'
      BY <3>1 DEF Ended, Active
    <3>5. (\A p, q \in Reqs :
             BatchOf[p] = BatchOf[q] /\ req[p].out \notin Fine /\ req[q].out \notin Fine
               => p = q)'
      BY <3>1, <3>2 DEF Ended
    <3> QED BY <2>4, <3>3, <3>4, <3>5 DEF Ended
  <2> QED BY <2>5, <2>6
<1>3. CASE UNCHANGED <<req, batch>>
  BY <1>3 DEF Ended, Active
<1> QED BY <1>1, <1>2, <1>3, Shape

-----------------------------------------------------------------------------
(* The refresh token.                                                        *)

LEMMA FaultsGrow ==
  ASSUME TypeOK, [Next]_vars, NEW f \in Faults
  PROVE  faults[f] \in Nat /\ faults'[f] \in Nat /\ faults'[f] >= faults[f]
<1>1. faults \in [Faults -> Nat]
  BY DEF TypeOK
<1>2. ASSUME NEW e, Spend(e) PROVE faults'[f] \in Nat /\ faults'[f] >= faults[f]
  <2>1. CASE e = f
    BY <1>1, <1>2, <2>1 DEF Spend
  <2>2. CASE e # f
    BY <1>1, <1>2, <2>2 DEF Spend
  <2> QED BY <2>1, <2>2
<1>3. ASSUME NEW r \in Reqs, Step(r) PROVE faults'[f] \in Nat /\ faults'[f] >= faults[f]
  <2>1. CASE ApiAnswers(r)
    BY <1>1, <1>2, <2>1 DEF ApiAnswers
  <2>2. CASE ~ApiAnswers(r)
    <3>1. faults' = faults
      BY <1>3, <2>2 DEF Step, Begin, Token, ReadToken, Lead, Follow, Park, Woken, ApiRefreshes,
         StorePair, Unlatch, NotifyWaiters, Refreshed, Unauthorized, Retry, Return
    <3> QED BY <1>1, <3>1
  <2> QED BY <2>1, <2>2
<1>4. ASSUME NEW r \in Reqs,
             RefreshFails(r) \/ RefreshLost(r) \/ RefreshInvalid(r) \/ Cancel(r)
      PROVE  faults'[f] \in Nat /\ faults'[f] >= faults[f]
  <2>1. CASE RefreshFails(r)
    BY <1>2, <2>1 DEF RefreshFails
  <2>2. CASE RefreshLost(r)
    BY <1>2, <2>2 DEF RefreshLost
  <2>3. CASE RefreshInvalid(r)
    BY <1>2, <2>3 DEF RefreshInvalid
  <2>4. CASE Cancel(r)
    BY <1>2, <2>4 DEF Cancel
  <2> QED BY <1>4, <2>1, <2>2, <2>3, <2>4
<1>5. CASE Expire
  BY <1>1, <1>2, <1>5 DEF Expire
<1>6. CASE Age
  BY <1>1, <1>2, <1>6 DEF Age
<1>7. CASE UNCHANGED vars
  BY <1>1, <1>7 DEF vars
<1> QED BY <1>1, <1>3, <1>4, <1>5, <1>6, <1>7 DEF Next

\* A request that was dropped stays so.
LEMMA DroppedStays ==
  ASSUME TypeOK, Ended, [Next]_vars, NEW q \in Reqs, req[q].out = "cancelled"
  PROVE  req'[q].out = "cancelled"
<1>1. req[q].pc = "done"
  BY DEF Ended
<1>2. ASSUME NEW r \in Reqs, NEW out \in Outcome, Active(r), End(r, out)
      PROVE  req'[q] = req[q]
  BY <1>1, <1>2, EndResults DEF Active
<1> QED BY <1>2, Shape DEF Walks

\* A lost answer, and a dropped request, stay so.
LEMMA LossIsFinal ==
  ASSUME TypeOK, Ended, Traced, [Next]_vars, RefreshWasLost
  PROVE  RefreshWasLost'
<1>1. CASE \E f \in {"lostRefresh", "badRefresh"} : faults[f] > 0
  <2>1. PICK f \in {"lostRefresh", "badRefresh"} : faults[f] > 0
    BY <1>1
  <2>2. f \in Faults
    BY DEF Faults
  <2>3. faults[f] \in Nat /\ faults'[f] \in Nat /\ faults'[f] >= faults[f]
    BY <2>2, FaultsGrow
  <2> QED BY <2>1, <2>3 DEF RefreshWasLost
<1>2. ASSUME NEW q \in Reqs, req[q].out = "cancelled" PROVE req'[q].out = "cancelled"
  BY <1>2, DroppedStays
<1> QED BY <1>1, <1>2 DEF RefreshWasLost

\* A pair that was fetched is stored, or lost.
LEMMA FetchedIsKeptOrLost ==
  ASSUME PInv, Ended, Traced, [Next]_vars, Fetched, ~Fetched'
  PROVE  sess'.pair = api'.refresh \/ RefreshWasLost'
<1>0. PICK q \in Reqs : req[q].pc = "posted"
  BY DEF Fetched
<1>1. req'[q].pc # "posted"
  BY DEF Fetched
<1>2. CASE StorePair(q)
  <2>1. sess'.pair = req[q].tok
    <3>1. [sess EXCEPT !.pair = req[q].tok, !.aged = FALSE].pair = req[q].tok
      BY Zenon DEF PInv, TypeOK, Session
    <3> QED BY <1>2, <3>1 DEF StorePair, Store
  <2> QED BY <1>0, <1>2, <2>1 DEF StorePair, PInv, Carries
<1>3. ASSUME NEW r \in Reqs, RefreshFails(r) \/ RefreshLost(r) \/ RefreshInvalid(r)
      PROVE  RefreshWasLost'
  <2>1. ~RefreshFails(r)
    BY <1>0, Zenon DEF RefreshFails, At, PInv, SingleFlight, Refreshing
  <2>2. PICK f \in {"lostRefresh", "badRefresh"} : Spend(f)
    BY <1>3, <2>1 DEF RefreshLost, RefreshInvalid
  <2>3. f \in Faults
    BY DEF Faults
  <2>4. faults'[f] > 0
    BY <2>2, <2>3 DEF Spend, PInv, TypeOK
  <2> QED BY <2>2, <2>4 DEF RefreshWasLost
<1>4. ASSUME NEW r \in Reqs, NEW out \in Outcome, Active(r), End(r, out),
             out = "cancelled" \/ req[r].pc # "posted"
      PROVE  RefreshWasLost'
  <2>1. req'[q].out = "cancelled"
    <3>1. CASE q = r
      BY <1>0, <1>4, <3>1, EndResults DEF PInv
    <3>2. CASE q # r
      BY <1>0, <1>1, <1>4, <3>2, EndResults DEF PInv
    <3> QED BY <3>1, <3>2
  <2> QED BY <2>1 DEF RefreshWasLost
<1>5. ASSUME NEW r \in Reqs, Step(r) PROVE sess'.pair = api'.refresh \/ RefreshWasLost'
  <2>1. CASE Walks(r)
    <3>1. r = q
      BY <1>0, <1>1, <2>1 DEF Walks
    <3>2. StorePair(q)
      BY <1>0, <1>5, <3>1 DEF Step, Begin, Token, ReadToken, Lead, Follow, Park, Woken,
         ApiRefreshes, Unlatch, NotifyWaiters, Refreshed, ApiAnswers, Unauthorized, Retry,
         Return, At
    <3> QED BY <1>2, <3>2
  <2>2. ASSUME NEW out \in Outcome, End(r, out), req[r].pc \in {"refreshed", "answered"}
        PROVE  RefreshWasLost'
    BY <1>4, <2>2 DEF Active
  <2> QED BY <1>5, <2>1, <2>2, StepWalksOrEnds DEF PInv
<1>6. ASSUME NEW r \in Reqs, Cancel(r) PROVE RefreshWasLost'
  BY <1>4, <1>6 DEF Cancel, Outcome
<1>7. ~(Expire \/ Age \/ UNCHANGED vars)
  BY <1>0, <1>1 DEF Expire, Age, vars
<1> QED BY <1>3, <1>5, <1>6, <1>7 DEF Next

LEMMA TracedStays ==
  ASSUME PInv, Ended, Traced, [Next]_vars
  PROVE  Traced'
<1>1. CASE RefreshWasLost
  BY <1>1, LossIsFinal DEF PInv, Traced
<1>2. CASE Fetched /\ ~Fetched'
  BY <1>2, FetchedIsKeptOrLost DEF Traced
<1>3. CASE Fetched'
  BY <1>3 DEF Traced
<1>4. CASE sess.pair = api.refresh /\ ~Fetched /\ ~Fetched'
  <2>1. Abstract
    BY StepsRotate
  <2>2. CASE UNCHANGED Rotation!rotation
    <3>1. sess'.pair = sess.pair /\ api'.refresh = api.refresh
      BY <2>2 DEF Rotation!rotation
    <3> QED BY <1>4, <3>1 DEF Traced
  <2>3. CASE Rotation!Next
    BY <1>4, <2>3, Mapped DEF Rotation!Next, Traced
  <2> QED BY <2>1, <2>2, <2>3 DEF Abstract
<1> QED BY <1>1, <1>2, <1>3, <1>4 DEF Traced

-----------------------------------------------------------------------------
LEMMA HInvHolds == Spec => []HInv
<1>1. Init => Carries /\ Ended /\ Traced
  BY HttpAssumption
  DEF HttpAssumption, Init, NewRequest, Carries, Ended, Traced, Active, Fine
<1>2. TypeOK /\ SingleFlight /\ FlagUp /\ Carries /\ Ended /\ Traced /\ [Next]_vars
        => (Carries /\ Ended /\ Traced)'
  BY StepsRotate, EndedStays, TracedStays DEF PInv
<1>3. TypeOK /\ SingleFlight /\ FlagUp /\ Carries /\ Ended /\ Traced => HInv
  BY DEF HInv, PInv
<1> QED BY <1>1, <1>2, <1>3, TypeCorrect, FlagStaysUp, PTL DEF Spec

\* run_batch: the first error is the only one of its batch, and no request of
\* the batch runs on behind it, wherever it stood when the stream was dropped.
THEOREM BatchIsOver == Spec => []FailedBatchIsOver
<1>1. HInv => FailedBatchIsOver
  <2> SUFFICES ASSUME HInv, NEW b \in Batches, batch[b] = "failed"
               PROVE  LET mine == {r \in Reqs : BatchOf[r] = b}
                      IN /\ \A r \in mine : ~Active(r)
                         /\ Cardinality({r \in mine :
                              req[r].out \notin {"none", "ok", "cancelled"}}) <= 1
    BY DEF FailedBatchIsOver
  <2> DEFINE failed == {r \in {r \in Reqs : BatchOf[r] = b} :
                          req[r].out \notin {"none", "ok", "cancelled"}}
  <2>1. \A r \in {r \in Reqs : BatchOf[r] = b} : ~Active(r)
    BY DEF HInv, Ended
  <2>2. \A q, r \in failed : q = r
    BY DEF HInv, Ended, Fine
  <2>3. failed = {} \/ \E r : failed = {r}
    BY <2>2
  <2>4. Cardinality(failed) <= 1
    <3> HIDE DEF failed
    <3>1. CASE failed = {}
      BY <3>1, FS_EmptySet, SMT
    <3>2. ASSUME NEW r, failed = {r} PROVE Cardinality(failed) = 1
      BY <3>2, FS_Singleton, Zenon
    <3> QED BY <2>3, <3>1, <3>2
  <2> QED BY <2>1, <2>4
<1> QED BY <1>1, HInvHolds, PTL

\* ClientAuthInner::refresh: unless an answer was lost on the way, whoever leads
\* posts the newest refresh token, whatever was retried or refreshed before.
THEOREM NewestTokenPresented == Spec => []FreshTokenPresented
<1>1. HInv => FreshTokenPresented
  <2> SUFFICES ASSUME HInv, NEW r \in Reqs, req[r].pc = "post"
               PROVE  req[r].tok = api.refresh \/ RefreshWasLost
    BY DEF FreshTokenPresented
  <2>1. ~Fetched
    BY Alone DEF HInv, PInv, Refreshing
  <2>2. req[r].tok = sess.pair
    BY DEF HInv, PInv, Carries
  <2> QED BY <2>1, <2>2 DEF HInv, Traced
<1> QED BY <1>1, HInvHolds, PTL

-----------------------------------------------------------------------------
(* The flag.                                                                 *)

Led     == \E r \in Reqs : req[r].pc \in Refreshing
Dropped == \E r \in Reqs : req[r].out = "cancelled"

\* Every step but two leaves the flag alone.
LEMMA FlagIsKept ==
  ASSUME TypeOK, [Next]_vars, \A r \in Reqs : ~Lead(r) /\ ~Unlatch(r)
  PROVE  sess'.refreshing = sess.refreshing
<1>1. sess \in Session /\ \A r \in Reqs : req[r] \in Request
  BY DEF TypeOK
<1>2. ASSUME NEW r \in Reqs, Step(r) PROVE sess'.refreshing = sess.refreshing
  <2>1. CASE StorePair(r)
    BY <1>1, <2>1, SessUpdates DEF StorePair, Store
  <2>2. CASE ~StorePair(r)
    BY <1>2, <2>2 DEF Step, Begin, Token, ReadToken, Follow, Park, Woken,
       ApiRefreshes, NotifyWaiters, Refreshed, ApiAnswers, Unauthorized, Retry, Return
  <2> QED BY <2>1, <2>2
<1>3. ASSUME NEW r \in Reqs, RefreshFails(r) \/ RefreshLost(r) \/ RefreshInvalid(r) \/ Cancel(r)
      PROVE  sess'.refreshing = sess.refreshing
  BY <1>3 DEF RefreshFails, RefreshLost, RefreshInvalid, Cancel
<1>4. CASE Expire \/ UNCHANGED vars
  BY <1>4 DEF Expire, vars
<1>5. CASE Age
  BY <1>1, <1>5, SessUpdates DEF Age
<1> QED BY <1>2, <1>3, <1>4, <1>5 DEF Next

\* A leader leaves its section through Unlatch, or is dropped in it.
LEMMA LeaderStays ==
  ASSUME TypeOK, [Next]_vars, NEW q \in Reqs, req[q].pc \in Refreshing, ~Unlatch(q)
  PROVE  req'[q].pc \in Refreshing \/ req'[q].out = "cancelled"
<1>0. req[q] \in Request /\ req[q].pc \notin {"queued", "done", "parked", "refreshed", "answered"}
  BY DEF TypeOK, Refreshing
<1>1. ASSUME NEW r \in Reqs, r # q, Walks(r) PROVE req'[q].pc \in Refreshing
  BY <1>0, <1>1 DEF Walks
<1>2. ASSUME NEW r \in Reqs, NEW out \in Outcome, End(r, out), r # q \/ out = "cancelled"
      PROVE  req'[q].pc \in Refreshing \/ req'[q].out = "cancelled"
  BY <1>2, EndResults
<1>3. ASSUME Step(q) \/ RefreshFails(q) \/ RefreshLost(q) \/ RefreshInvalid(q)
      PROVE  req'[q].pc \in Refreshing
  <2>1. ApiRefreshes(q) \/ StorePair(q) \/ RefreshFails(q) \/ RefreshLost(q) \/ RefreshInvalid(q)
    BY <1>3 DEF Step, Begin, Token, ReadToken, Lead, Follow, Park, Woken, NotifyWaiters,
       Refreshed, ApiAnswers, Unauthorized, Retry, Return, At, Refreshing
  <2>2. CASE StorePair(q)
    BY <2>2, GotoPc DEF StorePair, Refreshing
  <2>3. CASE ApiRefreshes(q) \/ RefreshFails(q) \/ RefreshLost(q) \/ RefreshInvalid(q)
    <3>1. \A n : [req[q] EXCEPT !.pc = "posted", !.tok = n, !.result = "ok"].pc = "posted"
      BY <1>0, Zenon DEF Request
    <3>2. \A o : [req[q] EXCEPT !.pc = "unlatch", !.result = o].pc = "unlatch"
      BY <1>0, Zenon DEF Request
    <3>3. CASE ApiRefreshes(q)
      <4>1. \/ \E n : Becomes(q, [req[q] EXCEPT !.pc = "posted", !.tok = n, !.result = "ok"])
            \/ Becomes(q, [req[q] EXCEPT !.pc = "unlatch", !.result = "REFRESH_FAILED"])
        BY <3>3, Zenon DEF ApiRefreshes
      <4>2. \/ \E n : req'[q] = [req[q] EXCEPT !.pc = "posted", !.tok = n, !.result = "ok"]
            \/ req'[q] = [req[q] EXCEPT !.pc = "unlatch", !.result = "REFRESH_FAILED"]
        BY <4>1, BecomesOnly, Zenon
      <4>3. req'[q].pc = "posted" \/ req'[q].pc = "unlatch"
        BY <3>1, <3>2, <4>2, Zenon
      <4> QED BY <4>3 DEF Refreshing
    <3>4. CASE RefreshFails(q) \/ RefreshLost(q) \/ RefreshInvalid(q)
      BY <3>2, <3>4, BecomesOnly DEF RefreshFails, RefreshLost, RefreshInvalid, Refreshing
    <3> QED BY <2>3, <3>3, <3>4
  <2> QED BY <2>1, <2>2, <2>3
<1>4. ASSUME NEW r \in Reqs, Step(r) \/ RefreshFails(r) \/ RefreshLost(r) \/ RefreshInvalid(r)
      PROVE  req'[q].pc \in Refreshing \/ req'[q].out = "cancelled"
  BY <1>1, <1>2, <1>3, <1>4, StepWalksOrEnds
<1>5. ASSUME NEW r \in Reqs, Cancel(r)
      PROVE  req'[q].pc \in Refreshing \/ req'[q].out = "cancelled"
  BY <1>2, <1>5 DEF Cancel, Outcome
<1>6. CASE Expire \/ Age \/ UNCHANGED vars
  BY <1>6 DEF Expire, Age, vars
<1> QED BY <1>4, <1>5, <1>6 DEF Next

\* The flag goes up with a leader and down with it; a leader that is dropped
\* leaves a trace.
LEMMA FlagHasCause ==
  ASSUME TypeOK, Ended, [Next]_vars, sess.refreshing => Led \/ Dropped
  PROVE  sess'.refreshing => Led' \/ Dropped'
<1>0. sess \in Session /\ \A r \in Reqs : req[r] \in Request
  BY DEF TypeOK
<1>1. ASSUME NEW r \in Reqs, Lead(r) PROVE Led'
  <2>1. [req[r] EXCEPT !.pc = "post", !.tok = sess.pair, !.result = "none"].pc = "post"
    BY <1>0, Zenon DEF Request
  <2>2. req'[r].pc = "post"
    BY <1>1, <2>1, BecomesOnly DEF Lead
  <2> QED BY <2>2 DEF Led, Refreshing
<1>2. ASSUME NEW r \in Reqs, Unlatch(r) PROVE ~sess'.refreshing
  BY <1>0, <1>2, SessUpdates DEF Unlatch, Unlatched
<1>3. CASE \A r \in Reqs : ~Lead(r) /\ ~Unlatch(r)
  <2>1. sess'.refreshing = sess.refreshing
    BY <1>3, FlagIsKept
  <2>2. Led => Led' \/ Dropped'
    BY <1>3, LeaderStays DEF Led, Dropped
  <2>3. Dropped => Dropped'
    BY DroppedStays DEF Dropped
  <2> QED BY <2>1, <2>2, <2>3
<1> QED BY <1>1, <1>2, <1>3

\* ClientAuthInner::refresh: the flag is up while a leader is at work, and stays
\* up behind it only when the leader was dropped, whatever else goes wrong.
THEOREM LatchIsLed == Spec => []LatchHasLeader
<1> DEFINE Cause == sess.refreshing => Led \/ Dropped
<1>1. Init => Cause
  BY DEF Init
<1>2. HInv /\ Cause /\ [Next]_vars => Cause'
  BY FlagHasCause DEF HInv, PInv
<1>3. HInv /\ Cause => LatchHasLeader
  BY DEF HInv, PInv, FlagUp, LatchHasLeader, Led, Dropped
<1> QED BY <1>1, <1>2, <1>3, HInvHolds, PTL DEF Spec
===============================================================================
