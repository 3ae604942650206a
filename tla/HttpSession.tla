------------------------------ MODULE HttpSession ------------------------------
(***************************************************************************)
(* The HTTP client with a refreshable token pair: the retry loop of        *)
(* Transport::do_request (transport.rs), the single-flight refresh of      *)
(* ClientAuthSession (auth.rs) and run_batch (geocoding.rs), which runs    *)
(* several requests inside one task and drops them all on the first error. *)
(*                                                                         *)
(* A request r walks through token(), send, the answer, and, when a token  *)
(* has to be renewed, refresh(): either as the leader that posts the       *)
(* refresh token or as a waiter on the Notify.  Token pairs are numbered   *)
(* in the order the server issues them.                                    *)
(***************************************************************************)
EXTENDS Naturals, FiniteSets

CONSTANTS
  Reqs,         \* request ids, in input order
  Batches,      \* the tasks that run them; a lone request is a batch of one
  BatchOf,      \* the batch of each request
  Concurrency,  \* cfg.concurrency
  MaxRetries,   \* cfg.max_retries
  MultiThread,  \* tasks run on several worker threads
  Limits        \* how often what may go wrong: the cases

Faults == {"expire", "age", "network", "server", "client", "forbid",
           "failRefresh", "lostRefresh", "badRefresh", "cancel"}

ASSUME HttpAssumption ==
  /\ Reqs \subseteq Nat
  /\ BatchOf \in [Reqs -> Batches]
  /\ Concurrency \in Nat \ {0} /\ MaxRetries \in Nat
  /\ MultiThread \in BOOLEAN
  /\ Limits \subseteq [Faults -> Nat]

VARIABLES sess, req, batch, api, faults
vars == <<sess, req, batch, api, faults>>

Pc == {"queued", "token", "refresh", "park", "parked", "woken", "post", "posted",
       "unlatch", "notify", "refreshed", "readToken", "sent", "answered", "done"}

Outcome == {"none", "ok", "API_AUTH", "REFRESH_FAILED", "INVALID_TOKEN",
            "NETWORK", "SERVER_ERROR", "CLIENT_ERROR", "cancelled"}

Answer == {"none", "ok", "401", "403", "4xx", "5xx", "network"}

\* why: the caller of refresh(); tok: the pair the request presents;
\* result: what do_refresh returned.
Request == [pc : Pc, attempt : 0 .. MaxRetries, auth_retried : BOOLEAN,
            why : {"token", "401"}, tok : Nat, answer : Answer, result : Outcome,
            out : Outcome]

\* pair: the stored token pair; aged: needs_proactive_refresh would say yes.
Session == [pair : Nat, aged : BOOLEAN, refreshing : BOOLEAN]

\* access, refresh: the pair whose access (refresh) token the server accepts.
Api == [issued : Nat, access : Nat, refresh : Nat]

TypeOK ==
  /\ sess \in Session
  /\ req \in [Reqs -> Request]
  /\ batch \in [Batches -> {"running", "failed"}]
  /\ api \in Api
  /\ faults \in [Faults -> Nat]

NewRequest == [pc |-> "queued", attempt |-> 0, auth_retried |-> FALSE,
               why |-> "token", tok |-> 0, answer |-> "none", result |-> "none",
               out |-> "none"]

Init ==
  /\ sess = [pair |-> 1, aged |-> FALSE, refreshing |-> FALSE]
  /\ req = [r \in Reqs |-> NewRequest]
  /\ batch = [b \in Batches |-> "running"]
  /\ api = [issued |-> 1, access |-> 1, refresh |-> 1]
  /\ faults = [f \in Faults |-> 0]

\* One more fault of kind f, within one of the cases.
Spend(f) ==
  /\ faults' = [faults EXCEPT ![f] = @ + 1]
  /\ \E most \in Limits : \A e \in Faults : faults'[e] <= most[e]

Mates(r) == {q \in Reqs : BatchOf[q] = BatchOf[r]}

Active(r) == req[r].pc \notin {"queued", "done"}

\* No other request of the same task runs while one is between two statements
\* without an await (drop(guard) and notified(); unlocking and notify_waiters());
\* on a single worker thread no request at all does.
MayRun(r) ==
  \A q \in (IF MultiThread THEN Mates(r) ELSE Reqs) \ {r} :
    req[q].pc \notin {"park", "notify"}

At(r, pc) == req[r].pc = pc /\ MayRun(r)

Becomes(r, q) == req' = [req EXCEPT ![r] = q]
Goto(r, pc) == Becomes(r, [req[r] EXCEPT !.pc = pc])

\* Faulty variant: the rest of a failed batch keeps running.
EndAlone(r, out) ==
  /\ Becomes(r, [req[r] EXCEPT !.pc = "done", !.out = out])
  /\ batch' = IF out = "ok" THEN batch ELSE [batch EXCEPT ![BatchOf[r]] = "failed"]
\* do_request returns; on an error run_batch drops the stream, and with it
\* every request of the batch wherever it stands.
End(r, out) ==
  IF out = "ok"
  THEN /\ Becomes(r, [req[r] EXCEPT !.pc = "done", !.out = "ok"])
       /\ UNCHANGED batch
  ELSE /\ req' = [q \in Reqs |->
                    IF q = r THEN [req[q] EXCEPT !.pc = "done", !.out = out]
                    ELSE IF q \in Mates(r) /\ req[q].pc # "done"
                    THEN [req[q] EXCEPT !.pc = "done", !.out = "cancelled"]
                    ELSE req[q]]
       /\ batch' = [batch EXCEPT ![BatchOf[r]] = "failed"]

-----------------------------------------------------------------------------
\* buffer_unordered: the next input, when fewer than Concurrency are running.
Begin(r) ==
  /\ At(r, "queued") /\ batch[BatchOf[r]] = "running"
  /\ \A q \in Mates(r) : req[q].pc = "queued" => r <= q
  /\ Cardinality({q \in Mates(r) : Active(q)}) < Concurrency
  /\ Goto(r, "token")
  /\ UNCHANGED <<sess, batch, api, faults>>

\* The request goes out with the access token that is stored now.
SendWith(r) ==
  Becomes(r, [req[r] EXCEPT !.pc = "sent", !.tok = sess.pair,
                     !.answer = "none", !.result = "none"])

\* token(): without a proactive refresh the stored token is read at once.
Token(r) ==
  /\ At(r, "token")
  /\ IF sess.aged
     THEN Becomes(r, [req[r] EXCEPT !.pc = "refresh", !.why = "token"])
     ELSE SendWith(r)
  /\ UNCHANGED <<sess, batch, api, faults>>

ReadToken(r) ==
  /\ At(r, "readToken")
  /\ SendWith(r)
  /\ UNCHANGED <<sess, batch, api, faults>>

\* Faulty variant: the flag is looked at but never raised.
LatchForgotten == sess
Latch == [sess EXCEPT !.refreshing = TRUE]

\* refresh(): the first one becomes the leader, with the refresh token it reads.
Lead(r) ==
  /\ At(r, "refresh") /\ ~sess.refreshing
  /\ sess' = Latch
  /\ Becomes(r, [req[r] EXCEPT !.pc = "post", !.tok = sess.pair, !.result = "none"])
  /\ UNCHANGED <<batch, api, faults>>

\* refresh(): the others wait.  The Notify keeps nothing for a late waiter.
Follow(r) ==
  /\ At(r, "refresh") /\ sess.refreshing
  /\ Goto(r, "park")
  /\ UNCHANGED <<sess, batch, api, faults>>

Park(r) ==
  /\ At(r, "park")
  /\ Goto(r, "parked")
  /\ UNCHANGED <<sess, batch, api, faults>>

\* A woken waiter takes any finished refresh for a success.
Woken(r) ==
  /\ At(r, "woken")
  /\ IF sess.refreshing THEN Goto(r, "refresh")
     ELSE Becomes(r, [req[r] EXCEPT !.pc = "refreshed", !.result = "ok"])
  /\ UNCHANGED <<sess, batch, api, faults>>

\* The server rotates the pair, or refuses a refresh token it has rotated.
ApiRefreshes(r) ==
  /\ At(r, "post")
  /\ IF req[r].tok = api.refresh
     THEN LET n == api.issued + 1
          IN /\ api' = [issued |-> n, access |-> n, refresh |-> n]
             /\ Becomes(r, [req[r] EXCEPT !.pc = "posted", !.tok = n, !.result = "ok"])
     ELSE /\ Becomes(r, [req[r] EXCEPT !.pc = "unlatch", !.result = "REFRESH_FAILED"])
          /\ UNCHANGED api
  /\ UNCHANGED <<sess, batch, faults>>

\* The refresh fails and the server has not rotated the pair: it was not sent,
\* the token endpoint answered 5xx, or it refused a valid token.
RefreshFails(r) ==
  /\ At(r, "post") /\ Spend("failRefresh")
  /\ Becomes(r, [req[r] EXCEPT !.pc = "unlatch", !.result = "REFRESH_FAILED"])
  /\ UNCHANGED <<sess, batch, api>>

\* The answer does not arrive, although the server has rotated the pair.
RefreshLost(r) ==
  /\ At(r, "posted") /\ Spend("lostRefresh")
  /\ Becomes(r, [req[r] EXCEPT !.pc = "unlatch", !.result = "REFRESH_FAILED"])
  /\ UNCHANGED <<sess, batch, api>>

RefreshInvalid(r) ==
  /\ At(r, "posted") /\ Spend("badRefresh")
  /\ Becomes(r, [req[r] EXCEPT !.pc = "unlatch", !.result = "INVALID_TOKEN"])
  /\ UNCHANGED <<sess, batch, api>>

\* Faulty variant: the new refresh token is not kept.
StoreNothing(n) == [sess EXCEPT !.aged = FALSE]
Store(n) == [sess EXCEPT !.pair = n, !.aged = FALSE]

\* do_refresh stores the new pair.
StorePair(r) ==
  /\ At(r, "posted")
  /\ sess' = Store(req[r].tok)
  /\ Goto(r, "unlatch")
  /\ UNCHANGED <<batch, api, faults>>

\* Faulty variant: a failed refresh leaves the flag up.
UnlatchOnSuccess(r) == [sess EXCEPT !.refreshing = req[r].result # "ok"]
Unlatched(r) == [sess EXCEPT !.refreshing = FALSE]

Unlatch(r) ==
  /\ At(r, "unlatch")
  /\ sess' = Unlatched(r)
  /\ Goto(r, "notify")
  /\ UNCHANGED <<batch, api, faults>>

\* notify_waiters reaches those that wait at this moment, and refresh() returns.
NotifyWaiters(r) ==
  /\ At(r, "notify")
  /\ req' = [q \in Reqs |->
               IF q = r THEN [req[q] EXCEPT !.pc = "refreshed"]
               ELSE IF req[q].pc = "parked" THEN [req[q] EXCEPT !.pc = "woken"]
               ELSE req[q]]
  /\ UNCHANGED <<sess, batch, api, faults>>

\* refresh() returns to token(), or to the 401 branch of do_request.
Refreshed(r) ==
  /\ At(r, "refreshed")
  /\ IF req[r].result # "ok"
     THEN End(r, IF req[r].why = "401" THEN "API_AUTH" ELSE req[r].result)
     ELSE /\ IF req[r].why = "token" THEN Goto(r, "readToken")
             ELSE Becomes(r, [req[r] EXCEPT !.pc = "token", !.auth_retried = TRUE])
          /\ UNCHANGED batch
  /\ UNCHANGED <<sess, api, faults>>

\* The server judges the token it was sent, or something goes wrong.
ApiAnswers(r) ==
  /\ req[r].pc = "sent"
  /\ \/ /\ Becomes(r, [req[r] EXCEPT !.pc = "answered",
                     !.answer = IF req[r].tok = api.access THEN "ok" ELSE "401"])
        /\ UNCHANGED faults
     \/ \E f \in {<<"network", "network">>, <<"server", "5xx">>,
                  <<"client", "4xx">>, <<"forbid", "403">>} :
          /\ Spend(f[1])
          /\ Becomes(r, [req[r] EXCEPT !.pc = "answered", !.answer = f[2]])
  /\ UNCHANGED <<sess, batch, api>>

\* 401: one refresh, then the request starts over.
Unauthorized(r) ==
  /\ At(r, "answered") /\ req[r].answer = "401"
  /\ IF ~req[r].auth_retried
     THEN /\ Becomes(r, [req[r] EXCEPT !.pc = "refresh", !.why = "401"])
          /\ UNCHANGED batch
     ELSE End(r, "API_AUTH")
  /\ UNCHANGED <<sess, api, faults>>

\* Faulty variant: one retry too many.
MayRetryOnceMore(r) == req[r].attempt <= MaxRetries
MayRetry(r) == req[r].attempt < MaxRetries

\* Network errors and 5xx are retried, with backoff, max_retries times.
Retry(r) ==
  /\ At(r, "answered") /\ req[r].answer \in {"network", "5xx"}
  /\ IF MayRetry(r)
     THEN /\ Becomes(r, [req[r] EXCEPT !.pc = "token", !.attempt = @ + 1])
          /\ UNCHANGED batch
     ELSE End(r, IF req[r].answer = "network" THEN "NETWORK" ELSE "SERVER_ERROR")
  /\ UNCHANGED <<sess, api, faults>>

\* 2xx and 204; 403 and 402; other 4xx, which OnClientError::Empty turns into Ok.
Return(r) ==
  /\ At(r, "answered")
  /\ \/ req[r].answer = "ok" /\ End(r, "ok")
     \/ req[r].answer = "403" /\ End(r, "API_AUTH")
     \/ req[r].answer = "4xx" /\ \E out \in {"CLIENT_ERROR", "ok"} : End(r, out)
  /\ UNCHANGED <<sess, api, faults>>

Step(r) ==
  \/ Begin(r) \/ Token(r) \/ ReadToken(r) \/ Lead(r) \/ Follow(r) \/ Park(r)
  \/ Woken(r) \/ ApiRefreshes(r) \/ StorePair(r) \/ Unlatch(r) \/ NotifyWaiters(r)
  \/ Refreshed(r) \/ ApiAnswers(r) \/ Unauthorized(r) \/ Retry(r) \/ Return(r)

\* The application drops a request or a batch, between two awaits.
Cancel(r) ==
  /\ Active(r) /\ \A q \in Mates(r) : req[q].pc \notin {"park", "notify"}
  /\ Spend("cancel")
  /\ End(r, "cancelled")
  /\ UNCHANGED <<sess, api>>

\* The access token expires on the server; half of its lifetime is over.
Expire == /\ api.access # 0 /\ Spend("expire")
          /\ api' = [api EXCEPT !.access = 0]
          /\ UNCHANGED <<sess, req, batch>>
Age == /\ ~sess.aged /\ Spend("age")
       /\ sess' = [sess EXCEPT !.aged = TRUE]
       /\ UNCHANGED <<req, batch, api>>

Next ==
  \/ \E r \in Reqs :
       Step(r) \/ RefreshFails(r) \/ RefreshLost(r) \/ RefreshInvalid(r) \/ Cancel(r)
  \/ Expire \/ Age

Spec == Init /\ [][Next]_vars

\* Every task that can run is run, and the server answers.
FairSpec == Spec /\ WF_vars(\E r \in Reqs : Step(r))

-----------------------------------------------------------------------------
(* The abstract session that this one implements.                            *)

Refreshing == {"post", "posted", "unlatch"}

Rotation == INSTANCE TokenRotation WITH
  holders <- {r \in Reqs : req[r].pc \in Refreshing},
  fetched <- \E r \in Reqs : req[r].pc = "posted",
  pair    <- sess.pair,
  newest  <- api.refresh

-----------------------------------------------------------------------------
(* Properties.                                                               *)

\* ClientAuthInner::refresh as the rest of the client relies on it: whatever is
\* retried, dropped or lost, it does nothing but take turns at rotating the
\* stored pair, and an answer is stored by the request that asked for it.
KeepsRotation == Rotation!Spec

\* Tasks on several threads see 401s at once, yet at most one request is between
\* raising and lowering `refreshing` in ClientAuthInner::refresh.
SingleFlight ==
  \A q, r \in Reqs : req[q].pc \in Refreshing /\ req[r].pc \in Refreshing => q = r

\* The flag of ClientAuthInner::refresh is up for as long as a leader is at work,
\* and, whatever becomes of the refresh, no longer: only a leader that is dropped
\* leaves it up, and requests waiting for nobody.
LatchHasLeader ==
  LET led == \E r \in Reqs : req[r].pc \in Refreshing
  IN /\ led => sess.refreshing
     /\ sess.refreshing => led \/ \E r \in Reqs : req[r].out = "cancelled"

\* The server has rotated the pair, and the answer did not reach do_refresh.
RefreshWasLost ==
  \/ \E f \in {"lostRefresh", "badRefresh"} : faults[f] > 0
  \/ \E r \in Reqs : req[r].out = "cancelled"

\* As long as no answer is lost, the refresh token that a leader of
\* ClientAuthInner::refresh posts is the newest one: a rotated token is never
\* presented again, whoever refreshed last.
FreshTokenPresented ==
  \A r \in Reqs : req[r].pc = "post" => req[r].tok = api.refresh \/ RefreshWasLost

\* The first error of run_batch is its only one, and nothing of the batch runs
\* on behind it, also not a request that leads or awaits a refresh.
FailedBatchIsOver ==
  \A b \in Batches : batch[b] = "failed" =>
    LET mine == {r \in Reqs : BatchOf[r] = b}
    IN /\ \A r \in mine : ~Active(r)
       /\ Cardinality({r \in mine : req[r].out \notin {"none", "ok", "cancelled"}}) <= 1

\* On a runtime of several threads (README) notify_waiters can run while r is
\* between drop(guard) and notified(), and r misses it.
MayMissWakeup(r) == req[r].pc = "park" /\ ~sess.refreshing

\* The leader was dropped, and nobody will lower the flag.
Abandoned ==
  /\ sess.refreshing /\ \A r \in Reqs : req[r].pc \notin Refreshing
  /\ \E r \in Reqs : req[r].out = "cancelled"

Returned(r) == req[r].pc = "done" \/ batch[BatchOf[r]] = "failed"

\* The waiters of ClientAuthInner::refresh, on several threads: every do_request
\* gets its result, however often refreshes fail and whoever led them.  It does
\* not if it missed the notification, or the leader it waits for was dropped.
WaitersReturn == \A r \in Reqs : <>MayMissWakeup(r) \/ <>Abandoned \/ <>[]Returned(r)

\* "On HTTP 401, one refresh + retry" (README): every do_request that nobody cuts
\* short gets its result, also one that waits for the refresh of another.
RequestsReturn == \A r \in Reqs : <>[]Returned(r)
===============================================================================
