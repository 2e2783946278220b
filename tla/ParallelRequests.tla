-------------------------- MODULE ParallelRequests --------------------------
(***************************************************************************)
(* The bridge between context.parallel (src/index.ts) and the parallel     *)
(* engine: how a request travels from the JS thread over the pool into the *)
(* engine, and how its tokens, its result and the status feed travel back. *)
(*                                                                         *)
(* The engine itself is RequestService, which SlotManager implements: the  *)
(* steps of its worker thread are taken from there and joined with the     *)
(* callbacks the worker calls.  Four kinds of threads meet: the JS thread, *)
(* the workers of the pool (one job per request, one for a release, one    *)
(* for a mode switch), the worker thread of the engine, and whoever tells  *)
(* the status subscriber.  They share the engine's queue, the callbacks    *)
(* RequestManager holds under the request's id, and the JS thread's queue. *)
(*                                                                         *)
(* The application awaits a mode switch before it queues a request, and    *)
(* its queue calls before it switches (the README's usage); a request may  *)
(* well be unanswered when it does.  A host function of the JS thread that *)
(* looks the context up uses it in the same step.  The pool's own queue,   *)
(* its shutdown and the limit on a release's wait are ContextTasks'.       *)
(***************************************************************************)
EXTENDS Naturals, Sequences, FiniteSets, SequencesExt

CONSTANTS
  Request,      \* calls of parallel.completion(), embedding() and rerank()
  Embedding,    \* those of them that have onResult only
  Capacity,     \* slots of the engine
  MaxTokens,    \* the most tokens a request generates
  App,          \* the applications considered: what each does beside queueing
  NoRequest

ASSUME ParallelRequestsAssumption ==
  /\ IsFiniteSet(Request) /\ Embedding \subseteq Request /\ NoRequest \notin Request
  /\ Request \cap {"worker", "js"} = {}
  /\ Capacity \in Nat \ {0} /\ MaxTokens \in Nat
  /\ \A a \in App : /\ a.queues \subseteq Request /\ a.stops \subseteq a.queues \ Embedding
                    /\ a.subscribes \in BOOLEAN /\ a.unsubscribes \in BOOLEAN
                    /\ a.releases \in BOOLEAN
                    /\ a.disables \in BOOLEAN /\ a.configures \in BOOLEAN
                    /\ a.failures \in BOOLEAN

\* Ids that a manager can give out: one for every request.
Id == 1 .. Cardinality(Request)

VARIABLES
  app,               \* the application of this behaviour
  stage,             \* stage[r]: how far the job that queues r has come
  id,                \* id[r]: its request_id (0: none yet)
  requests,          \* RequestManager: whose callbacks are kept under an id
  next_request_id,   \* the manager's counter
  queue_requests, status,   \* the engine: RequestService's variables
  interrupted,       \* requests whose slot has is_interrupted set
  decoded,           \* decoded[r]: tokens request r has generated
  update,            \* how far update_slots() has come
  completed_interrupted,    \* its local
  callbacks,         \* what invokeAsync has queued for the JS thread
  js,                \* the stop() the JS thread is in the middle of
  outer,             \* outer[r]: the promise of the call
  inner,             \* inner[r]: how often onComplete or onResult was called for r, and the last result
  subscribed, snapshot, seen,   \* the status feed: subscriber, statuses on their way, last one seen
  enabled, release, registered,   \* parallel mode; releaseContext(); the registry
  asked,             \* history: requests whose stop() has been called
  stale_stop,        \* history: stop() was called for a request of an earlier manager
  former,            \* history: requests of a manager that has been deleted
  late_token,        \* history: onToken was called after onComplete
  unannounced        \* history: the engine changed since a status was last taken, and nobody tells

vars == <<app, stage, id, requests, next_request_id, queue_requests, status, interrupted, decoded,
          update, completed_interrupted, callbacks, js, outer, inner, subscribed, snapshot, seen,
          enabled, release, registered, asked, stale_stop, former, late_token, unannounced>>

engine  == <<queue_requests, status>>
slotVars == <<interrupted, decoded>>
feed    == <<subscribed, snapshot, seen, unannounced>>
promises == <<outer, inner, late_token>>
context == <<app, enabled, release, registered, former>>
stops   == <<js, asked, stale_stop>>
jobs    == <<stage, id, next_request_id>>
worker  == <<update, completed_interrupted>>

Engine == INSTANCE RequestService
            WITH waiting <- queue_requests, CanBeDropped <- Embedding

Completion == Request \ Embedding
Running == Engine!RunningRequests

\* Threads that tell the subscriber: the worker, the JS thread, a request's job.
Teller == {"worker", "js"} \cup Request

\* What a status says, as far as it is told apart: the requests in slots and in the queue.
ParallelStatus == [active : SUBSET Request, queued : Seq(Request), old : BOOLEAN]
Current == [active |-> Running, queued |-> queue_requests, old |-> FALSE]

Stage == {"uncalled", "posted", "registered", "queued", "announced", "returned", "over"}

Result == [data : Request \cup {NoRequest}, how : {"answer", "cancelled"}, calls : 0 .. 2]

TypeOK ==
  /\ app \in App
  /\ stage \in [Request -> Stage] /\ id \in [Request -> Id \cup {0}]
  /\ requests \in [Id -> Request \cup {NoRequest}] /\ next_request_id \in 1 .. Cardinality(Request) + 1
  /\ queue_requests \in Seq(Request) /\ status \in [Request -> Engine!Status]
  /\ interrupted \subseteq Request /\ decoded \in [Request -> 0 .. MaxTokens]
  /\ update \in {"turn", "admit", "batch", "sample", "refill", "announce", "deliver", "stopped"}
  /\ \A i \in DOMAIN callbacks : callbacks[i].kind \in {"token", "complete", "queued"}
  /\ js.at \in {"idle", "cancelled", "told"}
  /\ outer \in [Request -> {"uncalled", "pending", "resolved", "rejected"}]
  /\ inner \in [Request -> Result]
  /\ \A t \in Teller : \A s \in snapshot[t] : s \in ParallelStatus
  /\ \A s \in seen : s \in ParallelStatus
  /\ release \in {"no", "posted", "cleared", "joined", "done"}
  /\ \A b \in {completed_interrupted, subscribed, enabled, registered, stale_stop, late_token,
               unannounced} : b \in BOOLEAN
  /\ asked \subseteq Request /\ former \subseteq Request

Init ==
  /\ app \in App
  /\ stage = [r \in Request |-> "uncalled"]
  /\ id = [r \in Request |-> 0]
  /\ requests = [i \in Id |-> NoRequest] /\ next_request_id = 1
  /\ Engine!Init
  /\ interrupted = {} /\ decoded = [r \in Request |-> 0]
  /\ update = "turn" /\ completed_interrupted = FALSE
  /\ callbacks = <<>> /\ js = [at |-> "idle"]
  /\ outer = [r \in Request |-> "uncalled"]
  /\ inner = [r \in Request |-> [data |-> NoRequest, how |-> "answer", calls |-> 0]]
  /\ subscribed = FALSE /\ snapshot = [t \in Teller |-> {}] /\ seen = {}
  /\ enabled = TRUE /\ release = "no" /\ registered = TRUE
  /\ asked = {} /\ stale_stop = FALSE /\ former = {} /\ late_token = FALSE
  /\ unannounced = FALSE

-----------------------------------------------------------------------------
(* RequestManager and the callbacks                                        *)

addRequest(r, i) == requests' = [requests EXCEPT ![i] = r]

\* takeRequest() for every id of I.
takeRequests(I) == requests' = [i \in Id |-> IF i \in I THEN NoRequest ELSE requests[i]]

getRequest(r) == requests[id[r]]

InvokeAsync(messages) == callbacks' = callbacks \o messages

\* What the callbacks of request r send to the JS thread: the callbacks found
\* under its id now, and the data of r.
TokenOf(r) == [kind |-> "token", of |-> getRequest(r), data |-> r]
ResultOf(r) == [kind |-> "complete", of |-> getRequest(r), data |-> r,
                how |-> IF r \in interrupted THEN "cancelled" ELSE "answer"]

\* Faulty variant: the results are sent before the last tokens.
InOrder_ResultsFirst(tokens, results) == results \o tokens

\* A slot's on_token is called before its on_complete.
InOrder(tokens, results) == tokens \o results

\* The engine generates a token for the requests T and then answers the requests A.
Answer(T, A) ==
  LET Has(r) == getRequest(r) # NoRequest
      TokensFor == {r \in T \ Embedding : Has(r)}
      Answered == {r \in A : Has(r)}
      tokens == SetToSeq(TokensFor)
      results == SetToSeq(Answered)
  IN  /\ InvokeAsync(InOrder([i \in DOMAIN tokens |-> TokenOf(tokens[i])],
                             [i \in DOMAIN results |-> ResultOf(results[i])]))
      /\ takeRequests({id[r] : r \in A})

\* The requests this step of the engine answers.
AnsweredNow == {r \in Request : status[r] # "answered" /\ status'[r] = "answered"}

-----------------------------------------------------------------------------
(* The status feed                                                         *)

\* get_status() by thread t: the statuses already on their way are now older.
TakeStatus(t) ==
  /\ snapshot' = [u \in Teller |-> IF u = t THEN {Current}
                                   ELSE {[s EXCEPT !.old = TRUE] : s \in snapshot[u]}]
  /\ unannounced' = FALSE
  /\ UNCHANGED <<subscribed, seen>>

\* The rest of notify_status_change(): the subscriber, if there still is one,
\* is told the status t has taken.  (The JS thread gets the statuses in the order
\* they are sent to it: the last one sent is the last one seen.)  The thread then
\* sends the messages more.
TellStatus(t, more) ==
  LET told == IF subscribed THEN snapshot[t] ELSE {}
  IN  /\ seen' = IF told = {} THEN seen ELSE told
      /\ snapshot' = [snapshot EXCEPT ![t] = {}]
      /\ InvokeAsync(more)
      /\ UNCHANGED <<subscribed, unannounced>>

subscribeToStatus ==
  /\ app.subscribes /\ js.at = "idle" /\ enabled /\ release = "no" /\ ~subscribed /\ seen = {}
  /\ subscribed' = TRUE
  /\ UNCHANGED <<jobs, requests, engine, slotVars, worker, callbacks, stops, promises, context,
                 snapshot, seen, unannounced>>

\* remove() of the subscription.
Unsubscribe ==
  /\ app.unsubscribes /\ js.at = "idle" /\ registered /\ subscribed /\ seen # {}
  /\ subscribed' = FALSE
  /\ UNCHANGED <<jobs, requests, engine, slotVars, worker, callbacks, stops, promises, context,
                 snapshot, seen, unannounced>>

-----------------------------------------------------------------------------
(* The job that queues a request                                           *)

MoveTo(r, s) == stage' = [stage EXCEPT ![r] = s]

\* The job ends: its promise is resolved with the id, or rejected, on the JS thread.
Reply(r, ok) == [kind |-> "queued", of |-> r, ok |-> ok]

\* parallel.completion(), embedding(), rerank() on the JS thread.
CallQueue(r) ==
  /\ r \in app.queues /\ stage[r] = "uncalled" /\ js.at = "idle"
  /\ \/ /\ registered
        /\ MoveTo(r, "posted")
        /\ outer' = [outer EXCEPT ![r] = "pending"]
     \/ /\ ~registered
        /\ MoveTo(r, "over")
        /\ outer' = [outer EXCEPT ![r] = "rejected"]
  /\ UNCHANGED <<id, next_request_id, inner, late_token, requests, engine, slotVars, worker,
                 callbacks, stops, feed, context>>

\* Faulty variant: the counter is read without being advanced.
StartJob_SharesId(r) ==
  /\ stage[r] = "posted"
  /\ registered /\ enabled
  /\ id' = [id EXCEPT ![r] = next_request_id]
  /\ addRequest(r, next_request_id)
  /\ MoveTo(r, "registered")
  /\ UNCHANGED <<next_request_id, engine, slotVars, worker, callbacks, stops, feed, promises,
                 context>>

\* A worker takes the job: the context, the parallel mode and the prompt's tokens
\* are there, reserve_request_id() gives the id and addRequest() keeps the callbacks.
\* (What other threads do between these steps makes no difference to them.)
StartJob(r) ==
  /\ stage[r] = "posted"
  /\ registered /\ enabled
  /\ next_request_id' = next_request_id + 1
  /\ id' = [id EXCEPT ![r] = next_request_id]
  /\ addRequest(r, next_request_id)
  /\ MoveTo(r, "registered")
  /\ UNCHANGED <<engine, slotVars, worker, callbacks, stops, feed, promises, context>>

\* No context, no parallel mode, or no tokens: the job throws.
JobFails(r) ==
  /\ stage[r] = "posted"
  /\ ~registered \/ ~enabled \/ app.failures
  /\ MoveTo(r, "returned")
  /\ InvokeAsync(<<Reply(r, FALSE)>>)
  /\ UNCHANGED <<id, next_request_id, requests, engine, slotVars, worker, stops, feed, promises,
                 context>>

\* queue_request(), queue_embedding_request(), queue_rerank_request(): the last
\* two may answer at once (embeddings are off, there is nothing to rank).
QueueRequest(r) ==
  /\ stage[r] = "registered"
  /\ Engine!Submit(r)
  /\ \/ /\ status'[r] = "waiting"
        /\ MoveTo(r, "queued")
        /\ UNCHANGED <<callbacks, requests>>
     \/ /\ status'[r] = "answered" /\ r \in Embedding
        /\ Answer({}, {r})
        /\ MoveTo(r, "announced")
  /\ UNCHANGED <<id, next_request_id, slotVars, worker, stops, feed, promises, context>>

AnnounceQueued(r) ==
  /\ stage[r] = "queued" /\ subscribed
  /\ TakeStatus(r)
  /\ MoveTo(r, "announced")
  /\ UNCHANGED <<id, next_request_id, requests, engine, slotVars, worker, callbacks, stops,
                 promises, context>>

EndJob(r) ==
  /\ stage[r] = "announced" \/ (stage[r] = "queued" /\ ~subscribed)
  /\ TellStatus(r, <<Reply(r, TRUE)>>)
  /\ MoveTo(r, "returned")
  /\ UNCHANGED <<id, next_request_id, requests, engine, slotVars, worker, stops, promises, context>>

-----------------------------------------------------------------------------
(* The JS thread: callbacks and stop()                                     *)

\* onComplete or onResult of request r is called.
Settle(r, data, how) ==
  inner' = [inner EXCEPT ![r] = [data |-> data, how |-> how,
                                 calls |-> IF @.calls = 0 THEN 1 ELSE 2]]

\* The oldest callback runs.  Those of a completion look the context up.
RunCallback ==
  /\ js.at = "idle" /\ callbacks # <<>>
  /\ callbacks' = Tail(callbacks)
  /\ LET m == Head(callbacks)
     IN  \/ /\ m.kind = "token"
            /\ late_token' = (late_token \/ (registered /\ inner[m.of].calls > 0))
            /\ UNCHANGED <<outer, inner, stage>>
         \/ /\ m.kind = "complete"
            /\ IF registered \/ m.of \in Embedding THEN Settle(m.of, m.data, m.how)
                                                   ELSE UNCHANGED inner
            /\ UNCHANGED <<outer, late_token, stage>>
         \/ /\ m.kind = "queued"
            /\ outer' = [outer EXCEPT ![m.of] = IF m.ok THEN "resolved" ELSE "rejected"]
            /\ MoveTo(m.of, "over")
            /\ UNCHANGED <<inner, late_token>>
  /\ UNCHANGED <<id, next_request_id, requests, engine, slotVars, worker, stops, feed,
                 context>>

\* stop() of request r: cancel_request() with r's id, whoever has that id now.
StopRequest(r) ==
  /\ r \in app.stops \ asked /\ js.at = "idle" /\ outer[r] = "resolved" /\ registered
  /\ asked' = asked \cup {r}
  /\ stale_stop' = (stale_stop \/ r \in former)
  /\ LET found == {q \in Request : id[q] = id[r] /\ status[q] \in {"waiting", "running"}}
     IN  \/ /\ found = {}
            /\ UNCHANGED <<js, interrupted, engine>>
         \/ \E q \in found :
              /\ status[q] = "running"
              /\ interrupted' = interrupted \cup {q}
              /\ js' = [at |-> "cancelled", result |-> "ACTIVE", of |-> q]
              /\ UNCHANGED engine
         \/ \E q \in found :
              /\ Engine!Withdraw(q)
              /\ js' = [at |-> "cancelled", result |-> "QUEUED", of |-> q]
              /\ UNCHANGED interrupted
  /\ UNCHANGED <<jobs, requests, decoded, worker, callbacks, feed, promises, context>>

\* Faulty variant: a cancellation is not announced.
AnnounceStop_Silently ==
  /\ js.at = "cancelled" /\ subscribed
  /\ js' = [js EXCEPT !.at = "told"]
  /\ UNCHANGED <<jobs, requests, engine, slotVars, worker, callbacks, asked, stale_stop, feed,
                 promises, context>>

\* stop() tells the subscriber that a request has been cancelled.
AnnounceStop ==
  /\ js.at = "cancelled" /\ subscribed
  /\ TakeStatus("js")
  /\ js' = [js EXCEPT !.at = "told"]
  /\ UNCHANGED <<jobs, requests, engine, slotVars, worker, callbacks, asked, stale_stop, promises,
                 context>>

\* Faulty variant: the callbacks of a running request are taken too.
CancelledCallbacks_OfAll == getRequest(js.of)

\* Whose callbacks stop() takes and calls: those of a request that was still queued.
CancelledCallbacks == IF js.result = "QUEUED" THEN getRequest(js.of) ELSE NoRequest

\* Faulty variant: the callbacks are dropped, and nobody is told.
FinishStop_WithoutCalling ==
  /\ js.at = "told" \/ (js.at = "cancelled" /\ ~subscribed)
  /\ TellStatus("js", <<>>)
  /\ takeRequests({id[r] : r \in {CancelledCallbacks} \ {NoRequest}})
  /\ js' = [at |-> "idle"]
  /\ UNCHANGED <<jobs, engine, slotVars, worker, asked, stale_stop, promises, context>>

\* The callbacks of a queued request are taken, and onComplete is called at
\* once with a cancelled result; onResult is not called.
FinishStop ==
  /\ js.at = "told" \/ (js.at = "cancelled" /\ ~subscribed)
  /\ TellStatus("js", <<>>)
  /\ LET r == CancelledCallbacks
     IN  /\ takeRequests({id[q] : q \in {r} \ {NoRequest}})
         /\ IF r \in Completion THEN Settle(r, js.of, "cancelled") ELSE UNCHANGED inner
  /\ js' = [at |-> "idle"]
  /\ UNCHANGED <<jobs, engine, slotVars, worker, asked, stale_stop, outer, late_token, context>>

-----------------------------------------------------------------------------
(* The worker thread of the engine: update_slots()                         *)

\* The requests E end with this step: a completion is answered, an embedding of D is not.
EndRequests(E, D) ==
  /\ queue_requests' = queue_requests
  /\ status' = [r \in Request |-> IF r \in E \ D THEN "answered"
                                  ELSE IF r \in E THEN "dropped" ELSE status[r]]
  /\ Engine!End
  /\ interrupted' = interrupted \ E

\* A turn begins when there is work: interrupted requests are completed first.
BeginUpdate ==
  /\ update = "turn" /\ enabled
  /\ queue_requests # <<>> \/ Running # {}
  /\ LET E == interrupted \cap Running
     IN  /\ EndRequests(E, E \cap Embedding)
         /\ completed_interrupted' = (E # {})
  /\ Answer({}, AnsweredNow)
  /\ update' = "admit"
  /\ UNCHANGED <<jobs, decoded, stops, feed, promises, context>>

\* process_pending_queue() puts the oldest request into a free slot, or fails it.
Admit ==
  /\ update \in {"admit", "refill"}
  /\ Cardinality(Running) < Capacity
  /\ Engine!Start
  /\ app.failures \/ AnsweredNow = {}
  /\ Answer({}, AnsweredNow)
  /\ unannounced' = (unannounced \/ AnsweredNow # {})
  /\ UNCHANGED <<jobs, slotVars, worker, stops, subscribed, snapshot, seen, promises,
                 context>>

\* The queue is empty or the slots are full.
Admitted ==
  /\ update \in {"admit", "refill"}
  /\ queue_requests = <<>> \/ Cardinality(Running) >= Capacity
  /\ update' = IF update = "refill" THEN "announce"
               ELSE IF Running # {} THEN "batch"
               ELSE IF completed_interrupted THEN "announce" ELSE "turn"
  /\ UNCHANGED <<completed_interrupted, jobs, requests, engine, slotVars, callbacks, stops, feed,
                 promises, context>>

DecodeBatch ==
  /\ update = "batch"
  /\ update' = "sample"
  /\ UNCHANGED <<completed_interrupted, jobs, requests, engine, slotVars, callbacks, stops, feed,
                 promises, context>>

\* A failed batch ends every active request, and the turn, with no word to the subscriber.
DecodeBatchFails ==
  /\ app.failures /\ update = "batch"
  /\ EndRequests(Running, Running \cap Embedding)
  /\ Answer({}, AnsweredNow)
  /\ unannounced' = TRUE
  /\ update' = "turn"
  /\ UNCHANGED <<completed_interrupted, jobs, decoded, stops, subscribed, snapshot, seen,
                 promises, context>>

\* Faulty variant: the limit is passed by one.
CanGenerate_OneMore(r) == decoded[r] <= MaxTokens

CanGenerate(r) == decoded[r] < MaxTokens

\* Interrupted requests are completed, then every other one generates a token
\* and may end with it; an embedding or a ranking ends.
SampleAndRelease ==
  /\ update = "sample"
  /\ LET Stopped == interrupted \cap Running
         Sampled == {r \in Running \ (Stopped \cup Embedding) : CanGenerate(r)}
     IN  \E Ended \in SUBSET Sampled :
           /\ EndRequests(Running \ (Sampled \ Ended), Stopped \cap Embedding)
           /\ decoded' = [r \in Request |-> IF r \in Sampled THEN decoded[r] + 1 ELSE decoded[r]]
           /\ Answer(Sampled, AnsweredNow)
  /\ update' = "refill"
  /\ UNCHANGED <<completed_interrupted, jobs, stops, feed, promises, context>>

AnnounceUpdate ==
  /\ update = "announce" /\ subscribed
  /\ TakeStatus("worker")
  /\ update' = "deliver"
  /\ UNCHANGED <<completed_interrupted, jobs, requests, engine, slotVars, callbacks, stops,
                 promises, context>>

EndUpdate ==
  /\ update = "deliver" \/ (update = "announce" /\ ~subscribed)
  /\ TellStatus("worker", <<>>)
  /\ update' = "turn"
  /\ UNCHANGED <<completed_interrupted, jobs, requests, engine, slotVars, stops, promises, context>>

update_slots ==
  \/ BeginUpdate \/ Admit \/ Admitted \/ DecodeBatch \/ DecodeBatchFails
  \/ SampleAndRelease \/ AnnounceUpdate \/ EndUpdate

-----------------------------------------------------------------------------
(* Parallel mode and release                                               *)

\* No request is being queued, and the worker has been joined: the manager is deleted.
DeleteManager ==
  /\ release = "no" /\ js.at = "idle" /\ update = "turn" /\ former = {}
  /\ \A r \in Request : stage[r] \in {"uncalled", "over"}
  /\ former' = {r \in Request : stage[r] = "over"} /\ former' # {}
  /\ queue_requests' = <<>> /\ status' = [r \in Request |-> "unknown"]
  /\ interrupted' = {} /\ next_request_id' = 1
  /\ subscribed' = FALSE
  /\ UNCHANGED <<app, stage, id, requests, decoded, worker, callbacks, stops, promises, snapshot,
                 seen, unannounced, release, registered>>

disableParallelMode ==
  /\ app.disables /\ enabled
  /\ DeleteManager
  /\ enabled' = FALSE

\* enableParallelMode() when parallel mode is on: a new manager replaces the old one.
configure ==
  /\ app.configures /\ enabled
  /\ DeleteManager
  /\ UNCHANGED enabled

enableParallelMode ==
  /\ ~enabled /\ release = "no"
  /\ enabled' = TRUE
  /\ UNCHANGED <<app, release, registered, former, jobs, requests, engine, slotVars, worker,
                 callbacks, stops, feed, promises>>

CallRelease ==
  /\ app.releases /\ release = "no" /\ js.at = "idle"
  /\ release' = "posted"
  /\ UNCHANGED <<app, enabled, registered, former, jobs, requests, engine, slotVars, worker,
                 callbacks, stops, feed, promises>>

\* The job of the release: RequestManager forgets the context's requests first.
clearContext ==
  /\ release = "posted"
  /\ release' = "cleared"
  /\ takeRequests(Id)
  /\ UNCHANGED <<app, enabled, registered, former, jobs, engine, slotVars, worker, callbacks,
                 stops, feed, promises>>

\* stop_processing_loop(): the worker ends its turn and is joined.
stop_processing_loop ==
  /\ release = "cleared" /\ update = "turn"
  /\ release' = "joined"
  /\ update' = "stopped"
  /\ UNCHANGED <<app, enabled, registered, former, completed_interrupted, jobs, requests, engine,
                 slotVars, callbacks, stops, feed, promises>>

\* A started job counts until its promise is settled.
StartedJobs == {r \in Request : stage[r] \in {"registered", "queued", "announced", "returned"}}

\* Faulty variant: the callbacks are sent without being counted.
TrackedCallbacks_None == {}

\* The callbacks sent with invokeAsyncTracked().
TrackedCallbacks == {i \in DOMAIN callbacks : callbacks[i].kind \in {"token", "complete"}}

\* waitForContext(), then the context is deleted.
DeleteContext ==
  /\ release = "joined"
  /\ StartedJobs = {} /\ TrackedCallbacks = {}
  /\ release' = "done" /\ registered' = FALSE
  /\ UNCHANGED <<app, enabled, former, jobs, requests, engine, slotVars, worker, callbacks, stops,
                 feed, promises>>

ReleaseContext == clearContext \/ stop_processing_loop \/ DeleteContext

Job(r) == StartJob(r) \/ JobFails(r) \/ QueueRequest(r) \/ AnnounceQueued(r) \/ EndJob(r)

JsThread == RunCallback \/ AnnounceStop \/ FinishStop

Application ==
  \/ subscribeToStatus \/ Unsubscribe \/ CallRelease
  \/ disableParallelMode \/ configure \/ enableParallelMode
  \/ \E r \in Request : CallQueue(r) \/ StopRequest(r)

Next == Application \/ JsThread \/ update_slots \/ ReleaseContext \/ \E r \in Request : Job(r)

Spec == Init /\ [][Next]_vars

\* Every thread that can run does: the JS thread, the worker and the pool's jobs.
FairSpec ==
  /\ Spec
  /\ WF_vars(JsThread) /\ WF_vars(update_slots) /\ WF_vars(ReleaseContext)
  /\ \A r \in Request : WF_vars(Job(r))

-----------------------------------------------------------------------------
(* Properties                                                              *)

Owed(r) == status[r] \in {"waiting", "running"}

\* A request's promise is settled with that request's result and with no other,
\* and its callback is called once: whether the worker answers it, stop() takes
\* it out of the queue, or both are tried.  It is cancelled only if its own stop()
\* was called - or, after a new manager has begun to count from 1 again, a stop()
\* kept from an earlier manager.
OwnResultOnce ==
  \A r \in Request :
    inner[r].calls > 0 =>
      /\ inner[r].calls = 1 /\ inner[r].data = r
      /\ inner[r].how = "cancelled" => r \in asked \/ stale_stop

\* RequestManager keeps the callbacks of exactly the requests that still need them.
\* While the engine owes a request its answer, its own callbacks are kept under its
\* id: registering, queueing, cancelling and answering on four threads never lose
\* or exchange them, until a release forgets them all.  And none are kept that
\* nobody will take, unless the engine has dropped the request without an answer
\* (an embedding) or its manager has been deleted.
CallbacksMatchRequests ==
  release \in {"no", "posted"} =>
    /\ \A r \in Request : Owed(r) => getRequest(r) = r
    /\ \A i \in Id : \A r \in {requests[i]} \ {NoRequest} :
         \/ stage[r] = "registered" \/ Owed(r) \/ status[r] = "dropped" \/ r \in former
         \/ status[r] = "withdrawn" /\ js.at # "idle"
         \/ release = "posted"

\* No onToken call of a completion comes after its onComplete call, although they
\* reach the JS thread from the worker and, when a queued request is cancelled,
\* from stop() itself.
NoTokenAfterResult == ~late_token

\* When the context is deleted, no callback that uses it is left for the JS
\* thread, and no job that has looked it up is still at work.
ReleaseWaitsForCallbacks ==
  release = "done" =>
    /\ \A i \in DOMAIN callbacks : callbacks[i].kind \notin {"token", "complete"}
    /\ \A r \in Request : stage[r] \notin {"registered", "queued", "announced"}

\* Nothing moves in the engine, and nobody is about to tell the subscriber.
AtRest ==
  /\ update \in {"turn", "stopped"} /\ js.at = "idle"
  /\ \A r \in Request : ~Owed(r) /\ stage[r] \in {"uncalled", "returned", "over"}

\* When the engine has come to rest, the last status the subscriber was told is
\* the engine's, except in two cases: two threads took their statuses one after
\* the other and told them in the opposite order, or requests failed with a batch
\* (or at their start, with no other request active), which nobody announces.
FeedIsCurrent ==
  AtRest /\ subscribed =>
    \A s \in seen : s.old \/ unannounced \/ s = Current

\* The promise of a completion does not hang: it is settled, or the call itself
\* has failed - unless the context is released, or the manager deleted with the
\* request in it.
CompletionsSettle ==
  \A r \in Completion :
    outer[r] = "pending" ~> (outer[r] = "rejected" \/ inner[r].calls > 0
                             \/ release # "no" \/ r \in former)
=============================================================================
