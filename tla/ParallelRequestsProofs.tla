----------------------- MODULE ParallelRequestsProofs -----------------------
(***************************************************************************)
(* Theorems about ParallelRequests for every number of requests and slots  *)
(* and every application that keeps to the README's usage.                 *)
(*                                                                         *)
(* A request's callbacks are in one of three places: kept by the           *)
(* RequestManager under its id, on their way to the JS thread, or called.  *)
(* The inductive invariant follows them: while they are kept no result has *)
(* been sent, once the result is on its way no token can follow it, and    *)
(* ids of one manager are never shared.                                    *)
(***************************************************************************)
EXTENDS ParallelRequests, FiniteSetTheorems, TLAPS

-----------------------------------------------------------------------------
(* The inductive invariant                                                 *)

Started(r) == id[r] # 0

\* The requests the present manager has given an id to.
Served == {r \in Request \ former : Started(r)}

IdsTyped ==
  /\ stage \in [Request -> Stage] /\ id \in [Request -> Id \cup {0}]
  /\ former \subseteq Request /\ next_request_id \in Nat

\* Ids of one manager are distinct, and the counter counts them.
IdsInv ==
  /\ \A r \in Request : stage[r] \in {"uncalled", "posted"} => ~Started(r)
  /\ \A r \in Request : stage[r] \in {"registered", "queued", "announced"} => Started(r)
  /\ \A r \in Request \ former : id[r] < next_request_id
  /\ \A r, q \in Request \ former : Started(r) /\ id[r] = id[q] => r = q
  /\ \A r \in former : stage[r] = "over"
  /\ next_request_id = Cardinality(Served) + 1

EngineTyped ==
  /\ queue_requests \in Seq(Request) /\ status \in [Request -> Engine!Status]
  /\ interrupted \subseteq Request /\ decoded \in [Request -> 0 .. MaxTokens]

Distinct(q) == \A i, j \in DOMAIN q : q[i] = q[j] => i = j
Occurs(x, q) == \E i \in DOMAIN q : q[i] = x

\* The queue holds each waiting request once.
WaitingInv ==
  /\ Distinct(queue_requests)
  /\ \A r \in Request : status[r] = "waiting" <=> Occurs(r, queue_requests)

\* The engine knows the requests that were queued with the present manager.
KnownInv ==
  \A r \in Request : status[r] # "unknown" =>
    r \in Served /\ stage[r] \in {"queued", "announced", "returned", "over"}

TokenMessage == [kind : {"token"}, of : Request, data : Request]
CompleteMessage ==
  [kind : {"complete"}, of : Request, data : Request, how : {"answer", "cancelled"}]
QueuedMessage == [kind : {"queued"}, of : Request, ok : BOOLEAN]
Message == TokenMessage \cup CompleteMessage \cup QueuedMessage

CallbacksTyped ==
  callbacks \in Seq(Message) /\ requests \in [Id -> Request \cup {NoRequest}]

JsState ==
  [at : {"idle"}]
    \cup [at : {"cancelled", "told"}, result : {"ACTIVE", "QUEUED"}, of : Request]

StopsTyped == js \in JsState /\ asked \subseteq Request /\ stale_stop \in BOOLEAN

PromisesTyped ==
  /\ outer \in [Request -> {"uncalled", "pending", "resolved", "rejected"}]
  /\ inner \in [Request -> Result] /\ late_token \in BOOLEAN

FeedTyped ==
  /\ subscribed \in BOOLEAN /\ unannounced \in BOOLEAN
  /\ snapshot \in [Teller -> SUBSET ParallelStatus] /\ seen \subseteq ParallelStatus

ModesTyped ==
  /\ app \in App /\ release \in {"no", "posted", "cleared", "joined", "done"}
  /\ enabled \in BOOLEAN /\ registered \in BOOLEAN /\ completed_interrupted \in BOOLEAN
  /\ update \in {"turn", "admit", "batch", "sample", "refill", "announce", "deliver", "stopped"}

\* What the parts about the engine rest on.
EngineInv == IdsTyped /\ IdsInv /\ EngineTyped /\ WaitingInv /\ KnownInv

TypeInv ==
  EngineInv /\ CallbacksTyped /\ StopsTyped /\ PromisesTyped /\ FeedTyped /\ ModesTyped

\* After the worker has been joined nothing is sent and no job begins.
ReleaseInv ==
  /\ release \in {"joined", "done"} <=> update = "stopped"
  /\ release = "done" => ~registered /\ ReleaseWaitsForCallbacks

\* The manager keeps the callbacks of r.
Held(r) == Started(r) /\ getRequest(r) = r

\* stop() has taken r out of the queue and has not yet called its callbacks.
Withdrawing(r) == js.at # "idle" /\ js.result = "QUEUED" /\ js.of = r

\* Under an id of the present manager are the callbacks of its own request or none; they
\* are kept while the request needs them, and no longer.
HeldInv ==
  /\ \A i \in Id : requests[i] # NoRequest => id[requests[i]] = i
  /\ \A r \in Served : getRequest(r) \in {r, NoRequest}
  /\ release \in {"no", "posted"} =>
       \A r \in Request : Owed(r) \/ stage[r] = "registered" => Held(r)
  /\ \A r \in Request : Held(r) =>
       \/ stage[r] = "registered" \/ Owed(r) \/ status[r] = "dropped" \/ r \in former
       \/ status[r] = "withdrawn" /\ Withdrawing(r)

Stopped(r) == r \in asked \/ stale_stop

\* A request is only cancelled when it was its own stop() that was called, or one kept from
\* an earlier manager.
StopInv ==
  /\ js.at # "idle" => Stopped(js.of)
  /\ \A r \in Request : Withdrawing(r) => status[r] = "withdrawn"
  /\ \A r \in interrupted : Stopped(r)

IsToken(i) == callbacks[i].kind = "token"
IsComplete(i) == callbacks[i].kind = "complete"
IsQueued(i) == callbacks[i].kind = "queued"

\* One reply to a job is on its way, after the job and before the promise is settled.
RepliesInv ==
  \A i \in DOMAIN callbacks : IsQueued(i) =>
    /\ stage[callbacks[i].of] = "returned"
    /\ \A j \in DOMAIN callbacks : IsQueued(j) /\ callbacks[j].of = callbacks[i].of => i = j

\* The messages on their way: each is for the request it is about; tokens only follow
\* a start, and a result only callbacks that are no longer kept.
MessageInv(m) ==
  LET r == m.of IN
  /\ m.kind = "token" =>
       /\ m.data = r /\ Started(r) /\ inner[r].calls = 0
       /\ r \in former \/ status[r] \in {"running", "answered", "dropped"}
  /\ m.kind = "complete" =>
       /\ m.data = r /\ Started(r) /\ inner[r].calls = 0 /\ ~Held(r)
       /\ m.how = "cancelled" => Stopped(r)
       /\ r \in former \/ status[r] = "answered"

\* Of one request there is one result on its way, with no token behind it.
OrderInv ==
  \A i, j \in DOMAIN callbacks : callbacks[i].of = callbacks[j].of =>
    /\ IsComplete(i) /\ IsToken(j) => j < i
    /\ IsComplete(i) /\ IsComplete(j) => i = j

SettledInv ==
  /\ \A r \in Request : Held(r) \/ ~Started(r) => inner[r].calls = 0
  /\ \A r \in Request : inner[r].calls > 0 =>
       /\ inner[r].calls = 1 /\ inner[r].data = r
       /\ inner[r].how = "cancelled" => Stopped(r)
  /\ ~late_token

MessagesInv == \A i \in DOMAIN callbacks : MessageInv(callbacks[i])

CallbackInv == MessagesInv /\ OrderInv /\ SettledInv

\* A thread has yet to take a status that shows what the engine has done.
Owing ==
  \/ update \in {"batch", "sample", "refill", "announce"}
  \/ update = "admit" /\ completed_interrupted
  \/ js.at = "cancelled" \/ \E r \in Request : stage[r] = "queued"
  \/ Running # {} \/ queue_requests # <<>>

\* Thread t has taken a status and not yet told it.
Telling(t) ==
  \/ t = "worker" /\ update = "deliver"
  \/ t = "js" /\ js.at = "told"
  \/ t \in Request /\ stage[t] = "announced"

Shown(s) == s.old \/ unannounced \/ s = Current \/ Owing

\* A status that differs from the engine is an older one, or a newer one is still to come.
FeedInv ==
  /\ \A t \in Teller : snapshot[t] # {} => Telling(t)
  /\ ~subscribed /\ seen = {} => \A t \in Teller : snapshot[t] = {}
  /\ subscribed =>
       /\ \A t \in Teller : \A s \in snapshot[t] : Shown(s)
       /\ \A s \in seen : Shown(s) \/ \E t \in Teller : \E u \in snapshot[t] : ~u.old

\* The invariant that all of the properties follow from.
BridgeInv ==
  TypeInv /\ ReleaseInv /\ HeldInv /\ StopInv /\ RepliesInv /\ CallbackInv /\ FeedInv

-----------------------------------------------------------------------------
(* Ids                                                                     *)

LEMMA Values ==
  /\ {"uncalled", "posted", "registered", "queued", "announced", "returned", "over"} = Stage
  /\ {"unknown", "waiting", "running", "answered", "withdrawn", "dropped"} = Engine!Status
  /\ {"worker", "js"} \cup Request = Teller /\ Request \cap {"worker", "js"} = {}
  BY ParallelRequestsAssumption DEF Stage, Engine!Status, Teller

LEMMA RequestsCounted ==
  ASSUME NEW S \in SUBSET Request
  PROVE  /\ Cardinality(S) \in Nat /\ Cardinality(Request) \in Nat
         /\ Cardinality(S) <= Cardinality(Request)
         /\ S # Request => Cardinality(S) < Cardinality(Request)
         /\ \A r \in Request \ S : Cardinality(S \cup {r}) = Cardinality(S) + 1
  <1>1. IsFiniteSet(Request)
    BY ParallelRequestsAssumption
  <1>2. IsFiniteSet(S) /\ Cardinality(S) <= Cardinality(Request)
    BY <1>1, FS_Subset
  <1>3. Cardinality(S) \in Nat /\ Cardinality(Request) \in Nat
    BY <1>1, <1>2, FS_CardinalityType
  <1>4. S # Request => Cardinality(S) < Cardinality(Request)
    BY <1>1, <1>2, <1>3, FS_Subset
  <1>5. \A r \in Request \ S : Cardinality(S \cup {r}) = Cardinality(S) + 1
    BY <1>2, FS_AddElement
  <1>6. QED BY <1>2, <1>3, <1>4, <1>5

LEMMA NextIdIsFree ==
  ASSUME IdsTyped, IdsInv
  PROVE  /\ next_request_id \in 1 .. Cardinality(Request) + 1
         /\ \A r \in Request \ former : ~Started(r) => next_request_id \in Id
  <1>1. Served \in SUBSET Request
    BY DEF Served
  <1>2. next_request_id = Cardinality(Served) + 1
    BY DEF IdsInv
  <1>3. \A r \in Request \ former : ~Started(r) => Served # Request
    BY DEF Served
  <1>4. QED BY <1>1, <1>2, <1>3, RequestsCounted DEF Id

LEMMA IdOfServed ==
  ASSUME IdsTyped, IdsInv, NEW r \in Served
  PROVE  r \in Request /\ id[r] \in Id /\ \A q \in Served : id[q] = id[r] => q = r
  BY DEF Served, Started, IdsTyped, IdsInv

\* Steps of the job move a request on, and never back.
LEMMA StagesAdvance ==
  ASSUME IdsTyped, IdsInv, UNCHANGED <<id, former, next_request_id>>,
         \A r \in Request :
           /\ stage'[r] \in {"uncalled", "posted"} => stage[r] \in {"uncalled", "posted"}
           /\ stage'[r] \in {"registered", "queued", "announced"} =>
                stage[r] \in {"registered", "queued", "announced"}
           /\ stage[r] = "over" => stage'[r] = "over"
  PROVE  IdsInv'
  <1>1. Served' = Served /\ \A r \in Request : Started(r)' <=> Started(r)
    BY DEF Served, Started
  <1>2. QED BY <1>1 DEF IdsInv, IdsTyped

LEMMA InitIds == Init => IdsTyped /\ IdsInv
  <1> SUFFICES ASSUME Init
               PROVE  IdsTyped /\ IdsInv
    OBVIOUS
  <1>1. IdsTyped
    BY Values DEF Init, IdsTyped
  <1>2. Served = {} /\ \A r \in Request : ~Started(r)
    BY DEF Init, Served, Started
  <1>3. QED BY <1>1, <1>2, FS_EmptySet DEF Init, IdsInv

LEMMA IdsTypedStep ==
  ASSUME IdsTyped, IdsInv, Next
  PROVE  IdsTyped'
  <1>1. CASE UNCHANGED <<stage, id, former, next_request_id>>
    BY <1>1, Values DEF IdsTyped
  <1>2. ASSUME NEW r \in Request, CallQueue(r)
        PROVE  IdsTyped'
    BY <1>2, Values DEF IdsTyped, CallQueue, MoveTo, engine, slotVars, feed, promises, context,
        stops, jobs, worker
  <1>3. ASSUME NEW r \in Request, StartJob(r)
        PROVE  IdsTyped'
    <2>1. r \in Request \ former /\ ~Started(r)
      BY <1>3 DEF StartJob, IdsInv
    <2>2. next_request_id \in Id
      BY <2>1, NextIdIsFree
    <2>3. QED BY <1>3, <2>2, Values DEF IdsTyped, StartJob, MoveTo, context
  <1>4. ASSUME NEW r \in Request, JobFails(r)
        PROVE  IdsTyped'
    BY <1>4, Values DEF IdsTyped, JobFails, MoveTo, InvokeAsync, engine, slotVars, feed,
        promises, context, stops, jobs, worker
  <1>5. ASSUME NEW r \in Request, QueueRequest(r)
        PROVE  IdsTyped'
    BY <1>5, Values DEF IdsTyped, QueueRequest, MoveTo, engine, slotVars, feed, promises,
        context, stops, jobs, worker
  <1>6. ASSUME NEW r \in Request, AnnounceQueued(r)
        PROVE  IdsTyped'
    BY <1>6, Values DEF IdsTyped, AnnounceQueued, MoveTo, TakeStatus, engine, slotVars, feed,
        promises, context, stops, jobs, worker
  <1>7. ASSUME NEW r \in Request, EndJob(r)
        PROVE  IdsTyped'
    BY <1>7, Values DEF IdsTyped, EndJob, MoveTo, TellStatus, InvokeAsync, engine, slotVars,
        feed, promises, context, stops, jobs, worker
  <1>8. CASE RunCallback
    BY <1>8, Values DEF IdsTyped, RunCallback, MoveTo, Settle, engine, slotVars, feed, promises,
        context, stops, jobs, worker
  <1>9. CASE disableParallelMode
    BY <1>9, Values DEF IdsTyped, disableParallelMode, DeleteManager, engine, slotVars, feed,
        promises, context, stops, jobs, worker
  <1>10. CASE configure
    BY <1>10, Values DEF IdsTyped, configure, DeleteManager, engine, slotVars, feed, promises,
        context, stops, jobs, worker
  <1>11. QED
    BY <1>1, <1>2, <1>3, <1>4, <1>5, <1>6, <1>7, <1>8, <1>9, <1>10 DEF Next, Application,
        JsThread, update_slots, ReleaseContext, Job, vars, subscribeToStatus, Unsubscribe,
        StopRequest, AnnounceStop, FinishStop, BeginUpdate, Admit, Admitted, DecodeBatch,
        DecodeBatchFails, SampleAndRelease, AnnounceUpdate, EndUpdate, enableParallelMode,
        CallRelease, clearContext, stop_processing_loop, DeleteContext, EndRequests,
        InvokeAsync, Settle, TakeStatus, TellStatus, takeRequests, engine, slotVars, feed,
        promises, context, stops, jobs, worker

\* A new manager has no request and counts from 1 again.
LEMMA ManagerDeleted ==
  ASSUME IdsTyped, IdsInv, DeleteManager
  PROVE  IdsInv' /\ Served' = {} /\ former \subseteq former'
  <1>1. /\ \A r \in Request : stage[r] \in {"uncalled", "over"}
        /\ former = {} /\ former' = {r \in Request : stage[r] = "over"}
        /\ UNCHANGED <<stage, id>> /\ next_request_id' = 1
    BY DEF DeleteManager
  <1>2. \A r \in Request \ former' : ~Started(r)'
    BY <1>1 DEF IdsInv, Started
  <1>3. Served' = {}
    BY <1>2 DEF Served
  <1>4. \A r \in Request \ former' : id'[r] = 0
    BY <1>2 DEF Started
  <1>5. \A r \in Request : stage'[r] \in {"uncalled", "posted"} => ~Started(r)'
    BY <1>1 DEF IdsInv, Started
  <1>6. QED BY <1>1, <1>2, <1>3, <1>4, <1>5, FS_EmptySet DEF IdsInv

LEMMA IdsStep ==
  ASSUME IdsTyped, IdsInv, Next
  PROVE  IdsInv'
  <1>1. CASE UNCHANGED <<stage, id, former, next_request_id>>
    BY <1>1 DEF IdsInv, Served, Started
  <1>2. ASSUME NEW r \in Request, CallQueue(r)
        PROVE  IdsInv'
    <2>1. UNCHANGED <<id, former, next_request_id>>
      BY <1>2 DEF CallQueue, MoveTo, engine, slotVars, feed, promises, context, stops, jobs, worker
    <2>2. \A q \in Request :
            \/ stage'[q] = stage[q]
            \/ stage[q] = "uncalled" /\ stage'[q] \in {"posted", "over"}
      BY <1>2 DEF IdsTyped, CallQueue, MoveTo
    <2>3. QED BY <2>1, <2>2, StagesAdvance
  <1>3. ASSUME NEW r \in Request, StartJob(r)
        PROVE  IdsInv'
    <2>1. /\ id' = [id EXCEPT ![r] = next_request_id] /\ next_request_id' = next_request_id + 1
          /\ stage' = [stage EXCEPT ![r] = "registered"] /\ UNCHANGED former
      BY <1>3 DEF StartJob, MoveTo, context
    <2>2. r \in Request \ former /\ ~Started(r) /\ next_request_id \in Id
      <3>1. r \in Request \ former /\ ~Started(r)
        BY <1>3 DEF StartJob, IdsInv
      <3>2. QED BY <3>1, NextIdIsFree
    <2>3. next_request_id \in Nat /\ next_request_id # 0
      BY <2>2, RequestsCounted DEF Id
    <2>4. /\ id'[r] = next_request_id /\ stage'[r] = "registered"
          /\ \A q \in Request \ {r} : id'[q] = id[q] /\ stage'[q] = stage[q]
      BY <2>1 DEF IdsTyped
    <2>5. Started(r)' /\ \A q \in Request \ {r} : Started(q)' <=> Started(q)
      BY <2>3, <2>4 DEF Started
    <2>6. Served' = Served \cup {r} /\ r \notin Served /\ Served \subseteq Request
      BY <2>1, <2>2, <2>5 DEF Served
    <2>7. next_request_id' = Cardinality(Served') + 1
      BY <2>1, <2>6, RequestsCounted DEF IdsInv
    <2>8. \A q \in Request \ former : id[q] \in Nat /\ id[q] < next_request_id
      BY RequestsCounted DEF IdsInv, IdsTyped, Id
    <2>9. /\ \A q \in Request : stage'[q] \in {"uncalled", "posted"} => ~Started(q)'
          /\ \A q \in Request : stage'[q] \in {"registered", "queued", "announced"} => Started(q)'
          /\ \A q \in former' : stage'[q] = "over"
      BY <2>1, <2>2, <2>4, <2>5 DEF IdsInv
    <2>10. \A q \in Request \ former' : id'[q] < next_request_id'
      BY <2>1, <2>3, <2>4, <2>8
    <2>11. \A p, q \in Request \ former' : Started(p)' /\ id'[p] = id'[q] => p = q
      BY <2>1, <2>4, <2>5, <2>8 DEF IdsInv
    <2>12. QED BY <2>7, <2>9, <2>10, <2>11 DEF IdsInv
  <1>4. ASSUME NEW r \in Request, JobFails(r)
        PROVE  IdsInv'
    <2>1. UNCHANGED <<id, former, next_request_id>>
      BY <1>4 DEF JobFails, MoveTo, engine, slotVars, feed, promises, context, stops, jobs, worker
    <2>2. \A q \in Request :
            \/ stage'[q] = stage[q]
            \/ stage[q] = "posted" /\ stage'[q] = "returned"
      BY <1>4 DEF IdsTyped, JobFails, MoveTo
    <2>3. QED BY <2>1, <2>2, StagesAdvance
  <1>5. ASSUME NEW r \in Request, QueueRequest(r)
        PROVE  IdsInv'
    <2>1. UNCHANGED <<id, former, next_request_id>>
      BY <1>5 DEF QueueRequest, MoveTo, engine, slotVars, feed, promises, context, stops, jobs,
          worker
    <2>2. \A q \in Request :
            \/ stage'[q] = stage[q]
            \/ stage[q] = "registered" /\ stage'[q] \in {"queued", "announced"}
      BY <1>5 DEF IdsTyped, QueueRequest, MoveTo
    <2>3. QED BY <2>1, <2>2, StagesAdvance
  <1>6. ASSUME NEW r \in Request, AnnounceQueued(r)
        PROVE  IdsInv'
    <2>1. UNCHANGED <<id, former, next_request_id>>
      BY <1>6 DEF AnnounceQueued, MoveTo, engine, slotVars, feed, promises, context, stops, jobs,
          worker
    <2>2. \A q \in Request :
            \/ stage'[q] = stage[q]
            \/ stage[q] = "queued" /\ stage'[q] = "announced"
      BY <1>6 DEF IdsTyped, AnnounceQueued, MoveTo
    <2>3. QED BY <2>1, <2>2, StagesAdvance
  <1>7. ASSUME NEW r \in Request, EndJob(r)
        PROVE  IdsInv'
    <2>1. UNCHANGED <<id, former, next_request_id>>
      BY <1>7 DEF EndJob, MoveTo, engine, slotVars, feed, promises, context, stops, jobs, worker
    <2>2. \A q \in Request :
            \/ stage'[q] = stage[q]
            \/ stage[q] # "over" /\ stage'[q] = "returned"
      BY <1>7 DEF IdsTyped, EndJob, MoveTo
    <2>3. QED BY <2>1, <2>2, StagesAdvance
  <1>8. CASE RunCallback
    <2>1. UNCHANGED <<id, former, next_request_id>>
      BY <1>8 DEF RunCallback, MoveTo, engine, slotVars, feed, promises, context, stops, jobs,
          worker
    <2>2. \A q \in Request :
            \/ stage'[q] = stage[q]
            \/ stage'[q] = "over"
      BY <1>8 DEF IdsTyped, RunCallback, MoveTo
    <2>3. QED BY <2>1, <2>2, StagesAdvance
  <1>9. CASE disableParallelMode
    BY <1>9, ManagerDeleted DEF disableParallelMode
  <1>10. CASE configure
    BY <1>10, ManagerDeleted DEF configure
  <1>11. QED
    BY <1>1, <1>2, <1>3, <1>4, <1>5, <1>6, <1>7, <1>8, <1>9, <1>10 DEF Next, Application,
        JsThread, update_slots, ReleaseContext, Job, vars, subscribeToStatus, Unsubscribe,
        StopRequest, AnnounceStop, FinishStop, BeginUpdate, Admit, Admitted, DecodeBatch,
        DecodeBatchFails, SampleAndRelease, AnnounceUpdate, EndUpdate, enableParallelMode,
        CallRelease, clearContext, stop_processing_loop, DeleteContext, EndRequests,
        InvokeAsync, Settle, TakeStatus, TellStatus, takeRequests, engine, slotVars, feed,
        promises, context, stops, jobs, worker

-----------------------------------------------------------------------------
(* The engine's queue and the requests' statuses                           *)

\* The queue without its k-th element.
Without(q, k) == [j \in 1..(Len(q) - 1) |-> IF j < k THEN q[j] ELSE q[j + 1]]

LEMMA TailOccurs ==
  ASSUME NEW q \in Seq(Request), q # <<>>, Distinct(q)
  PROVE  /\ Head(q) \in Request /\ Occurs(Head(q), q) /\ Distinct(Tail(q))
         /\ \A x : Occurs(x, Tail(q)) <=> Occurs(x, q) /\ x # Head(q)
  <1>1. /\ Len(q) \in Nat /\ Len(q) >= 1 /\ DOMAIN q = 1..Len(q)
        /\ Head(q) = q[1] /\ Head(q) \in Request
        /\ DOMAIN Tail(q) = 1..(Len(q) - 1)
        /\ \A i \in DOMAIN Tail(q) : Tail(q)[i] = q[i + 1]
    OBVIOUS
  <1>2. Distinct(Tail(q))
    BY <1>1 DEF Distinct
  <1>3. ASSUME NEW x PROVE Occurs(x, Tail(q)) <=> Occurs(x, q) /\ x # Head(q)
    <2>1. ASSUME NEW i \in DOMAIN Tail(q), Tail(q)[i] = x
          PROVE  i + 1 \in DOMAIN q /\ q[i + 1] = x /\ x # q[1]
      BY <1>1, <2>1 DEF Distinct
    <2>2. ASSUME NEW i \in DOMAIN q, q[i] = x, x # q[1]
          PROVE  i - 1 \in DOMAIN Tail(q) /\ Tail(q)[i - 1] = x
      BY <1>1, <2>2
    <2>3. QED BY <1>1, <2>1, <2>2 DEF Occurs
  <1>4. QED BY <1>1, <1>2, <1>3 DEF Occurs

LEMMA AppendOccurs ==
  ASSUME NEW q \in Seq(Request), NEW r \in Request, Distinct(q), ~Occurs(r, q)
  PROVE  /\ Distinct(Append(q, r))
         /\ \A x : Occurs(x, Append(q, r)) <=> Occurs(x, q) \/ x = r
  <1>1. /\ Len(q) \in Nat /\ DOMAIN q = 1..Len(q)
        /\ DOMAIN Append(q, r) = 1..(Len(q) + 1)
        /\ Append(q, r)[Len(q) + 1] = r
        /\ \A i \in DOMAIN q : Append(q, r)[i] = q[i]
    OBVIOUS
  <1>2. \A i \in DOMAIN Append(q, r) : i \in DOMAIN q \/ i = Len(q) + 1
    BY <1>1
  <1>3. \A i \in DOMAIN q : q[i] # r
    BY DEF Occurs
  <1>4. Distinct(Append(q, r))
    BY <1>1, <1>2, <1>3 DEF Distinct
  <1>5. \A x : Occurs(x, Append(q, r)) <=> Occurs(x, q) \/ x = r
    BY <1>1, <1>2 DEF Occurs
  <1>6. QED BY <1>4, <1>5


LEMMA WithoutOccurs ==
  ASSUME NEW q \in Seq(Request), NEW k \in DOMAIN q, Distinct(q)
  PROVE  /\ Distinct(Without(q, k))
         /\ Without(q, k) \in Seq(Request)
         /\ \A x : Occurs(x, Without(q, k)) <=> Occurs(x, q) /\ x # q[k]
  <1> DEFINE w == Without(q, k)
  <1>1. /\ Len(q) \in Nat /\ DOMAIN q = 1..Len(q) /\ k \in 1..Len(q)
        /\ DOMAIN w = 1..(Len(q) - 1)
    BY DEF Without
  <1>2. \A i \in DOMAIN w : w[i] = q[IF i < k THEN i ELSE i + 1]
    BY <1>1 DEF Without
  <1> HIDE DEF w
  <1>3. \A i \in DOMAIN w : /\ (IF i < k THEN i ELSE i + 1) \in DOMAIN q
                            /\ (IF i < k THEN i ELSE i + 1) # k
    BY <1>1
  <1>4. Distinct(w)
    BY <1>1, <1>2, <1>3 DEF Distinct
  <1>5. ASSUME NEW x PROVE Occurs(x, w) <=> Occurs(x, q) /\ x # q[k]
    <2>1. Occurs(x, w) => Occurs(x, q) /\ x # q[k]
      BY <1>2, <1>3 DEF Occurs, Distinct
    <2>2. ASSUME NEW i \in DOMAIN q, q[i] = x, x # q[k] PROVE Occurs(x, w)
      <3>1. CASE i < k
        <4>1. i \in DOMAIN w /\ w[i] = x
          BY <1>1, <1>2, <2>2, <3>1
        <4>2. QED BY <4>1 DEF Occurs
      <3>2. CASE i > k
        <4>1. i - 1 \in DOMAIN w /\ w[i - 1] = x
          BY <1>1, <1>2, <2>2, <3>2
        <4>2. QED BY <4>1 DEF Occurs
      <3>3. QED BY <1>1, <2>2, <3>1, <3>2
    <2>3. QED BY <2>1, <2>2 DEF Occurs
  <1>6. w \in Seq(Request)
    <2>1. \A i \in DOMAIN w : w[i] \in Request
      BY <1>1, <1>2, <1>3
    <2>2. QED BY <1>1, <2>1 DEF w, Without
  <1>7. QED BY <1>4, <1>5, <1>6 DEF w

LEMMA SubmitWorks ==
  ASSUME IdsTyped, EngineTyped, WaitingInv, NEW r \in Request, QueueRequest(r)
  PROVE  /\ status[r] = "unknown" /\ status'[r] \in {"waiting", "answered"}
         /\ status' \in [Request -> Engine!Status] /\ queue_requests' \in Seq(Request)
         /\ \A q \in Request \ {r} : status'[q] = status[q]
         /\ WaitingInv' /\ stage[r] = "registered" /\ stage'[r] \in {"queued", "announced"}
  <1>1. Engine!Submit(r) /\ stage[r] = "registered" /\ stage'[r] \in {"queued", "announced"}
    BY DEF QueueRequest, MoveTo, IdsTyped
  <1>2. CASE /\ queue_requests' = Append(queue_requests, r)
             /\ status' = [status EXCEPT ![r] = "waiting"]
    <2>1. status[r] = "unknown" /\ ~Occurs(r, queue_requests)
      BY <1>1 DEF Engine!Submit, WaitingInv
    <2>2. /\ Distinct(queue_requests')
          /\ \A x : Occurs(x, queue_requests') <=> Occurs(x, queue_requests) \/ x = r
      BY <1>2, <2>1, AppendOccurs DEF EngineTyped, WaitingInv
    <2>3. /\ status' \in [Request -> Engine!Status] /\ status'[r] = "waiting"
          /\ \A q \in Request \ {r} : status'[q] = status[q]
      BY <1>2, Values DEF EngineTyped
    <2>4. WaitingInv'
      BY <2>2, <2>3 DEF WaitingInv
    <2>5. QED BY <1>1, <1>2, <2>1, <2>3, <2>4 DEF EngineTyped
  <1>3. CASE UNCHANGED queue_requests /\ status' = [status EXCEPT ![r] = "answered"]
    <2>1. status[r] = "unknown" /\ ~Occurs(r, queue_requests)
      BY <1>1 DEF Engine!Submit, WaitingInv
    <2>2. /\ status' \in [Request -> Engine!Status] /\ status'[r] = "answered"
          /\ \A q \in Request \ {r} : status'[q] = status[q]
      BY <1>3, Values DEF EngineTyped
    <2>3. WaitingInv'
      BY <1>3, <2>1, <2>2 DEF WaitingInv
    <2>4. QED BY <1>1, <1>3, <2>1, <2>2, <2>3 DEF EngineTyped
  <1>4. QED BY <1>1, <1>2, <1>3 DEF Engine!Submit

LEMMA StartWorks ==
  ASSUME EngineTyped, WaitingInv, Admit
  PROVE  \E r \in Request :
           /\ status[r] = "waiting" /\ status'[r] \in {"running", "answered"}
           /\ status' \in [Request -> Engine!Status] /\ queue_requests' \in Seq(Request)
           /\ \A q \in Request \ {r} : status'[q] = status[q]
           /\ WaitingInv'
  <1> DEFINE r == Head(queue_requests)
  <1>1. Engine!Start
    BY DEF Admit
  <1>2. /\ queue_requests # <<>> /\ queue_requests' = Tail(queue_requests)
        /\ \E s \in {"running", "answered"} : status' = [status EXCEPT ![r] = s]
    BY <1>1 DEF Engine!Start
  <1>3. /\ r \in Request /\ Occurs(r, queue_requests) /\ Distinct(queue_requests')
        /\ \A x : Occurs(x, queue_requests') <=> Occurs(x, queue_requests) /\ x # r
    BY <1>2, TailOccurs DEF EngineTyped, WaitingInv
  <1>4. queue_requests' \in Seq(Request)
    BY <1>2 DEF EngineTyped
  <1> HIDE DEF r
  <1>5. /\ status' \in [Request -> Engine!Status] /\ status'[r] \in {"running", "answered"}
        /\ \A q \in Request \ {r} : status'[q] = status[q]
    BY <1>2, <1>3, Values DEF EngineTyped
  <1>6. status[r] = "waiting"
    BY <1>3 DEF WaitingInv
  <1>7. WaitingInv'
    BY <1>3, <1>5 DEF WaitingInv
  <1>8. QED BY <1>3, <1>4, <1>5, <1>6, <1>7

LEMMA WithdrawWorks ==
  ASSUME EngineTyped, WaitingInv, NEW r \in Request, Engine!Withdraw(r)
  PROVE  /\ status[r] = "waiting" /\ status'[r] = "withdrawn"
         /\ status' \in [Request -> Engine!Status] /\ queue_requests' \in Seq(Request)
         /\ \A q \in Request \ {r} : status'[q] = status[q]
         /\ WaitingInv'
  <1>1. PICK k \in DOMAIN queue_requests :
               queue_requests[k] = r /\ queue_requests' = Without(queue_requests, k)
    BY DEF Engine!Withdraw, Without
  <1>2. /\ Distinct(queue_requests') /\ queue_requests' \in Seq(Request)
        /\ \A x : Occurs(x, queue_requests') <=> Occurs(x, queue_requests) /\ x # r
    BY <1>1, WithoutOccurs DEF EngineTyped, WaitingInv
  <1>3. /\ status' \in [Request -> Engine!Status] /\ status'[r] = "withdrawn"
        /\ \A q \in Request \ {r} : status'[q] = status[q]
    BY Values DEF EngineTyped, Engine!Withdraw
  <1>4. WaitingInv'
    BY <1>2, <1>3 DEF WaitingInv
  <1>5. QED BY <1>2, <1>3, <1>4 DEF Engine!Withdraw

\* What stop() does to the engine: nothing, an interrupt, or a request taken back.
LEMMA StopWorks ==
  ASSUME EngineTyped, WaitingInv, NEW r \in Request, StopRequest(r)
  PROVE  \/ UNCHANGED <<js, interrupted, engine>>
         \/ \E q \in Request :
              /\ id[q] = id[r] /\ status[q] = "running"
              /\ interrupted' = interrupted \cup {q} /\ UNCHANGED engine
              /\ js' = [at |-> "cancelled", result |-> "ACTIVE", of |-> q]
         \/ \E q \in Request :
              /\ id[q] = id[r] /\ Engine!Withdraw(q) /\ UNCHANGED interrupted
              /\ js' = [at |-> "cancelled", result |-> "QUEUED", of |-> q]
  BY DEF StopRequest

LEMMA EndsWork ==
  ASSUME EngineTyped, WaitingInv, NEW E \in SUBSET Running, NEW N, EndRequests(E, N)
  PROVE  /\ status' \in [Request -> Engine!Status] /\ UNCHANGED queue_requests
         /\ \A r \in Request : status'[r] = IF r \in E \ N THEN "answered"
                                            ELSE IF r \in E THEN "dropped" ELSE status[r]
         /\ interrupted' = interrupted \ E /\ WaitingInv'
  <1>1. /\ UNCHANGED queue_requests /\ interrupted' = interrupted \ E
        /\ status' = [r \in Request |-> IF r \in E \ N THEN "answered"
                                        ELSE IF r \in E THEN "dropped" ELSE status[r]]
    BY DEF EndRequests
  <1>2. status' \in [Request -> Engine!Status]
    BY <1>1, Values DEF EngineTyped
  <1>3. \A r \in Request : r \in E => status[r] = "running"
    BY DEF Running, Engine!RunningRequests
  <1>4. WaitingInv'
    BY <1>1, <1>3 DEF WaitingInv
  <1>5. QED BY <1>1, <1>2, <1>4

\* The three steps of update_slots() that end requests.
LEMMA UpdateEnds ==
  ASSUME EngineTyped, BeginUpdate \/ DecodeBatchFails \/ SampleAndRelease
  PROVE  \E E \in SUBSET Running : \E N \in SUBSET (E \cap Embedding) :
           EndRequests(E, N)
  <1>1. CASE BeginUpdate
    <2> DEFINE E == interrupted \cap Running
    <2>1. EndRequests(E, E \cap Embedding)
      BY <1>1 DEF BeginUpdate
    <2>2. QED BY <2>1
  <1>2. CASE DecodeBatchFails
    BY <1>2 DEF DecodeBatchFails
  <1>3. CASE SampleAndRelease
    <2> DEFINE stopped == interrupted \cap Running
               sampled == {r \in Running \ (stopped \cup Embedding) : CanGenerate(r)}
    <2>1. PICK ended \in SUBSET sampled :
                 EndRequests(Running \ (sampled \ ended), stopped \cap Embedding)
      BY <1>3 DEF SampleAndRelease
    <2>2. stopped \cap Embedding \subseteq (Running \ (sampled \ ended)) \cap Embedding
      OBVIOUS
    <2>3. QED BY <2>1, <2>2
  <1>4. QED BY <1>1, <1>2, <1>3

\* Steps that change the engine.
EngineSteps ==
  \/ \E r \in Request : QueueRequest(r) \/ StopRequest(r)
  \/ Admit \/ BeginUpdate \/ DecodeBatchFails \/ SampleAndRelease \/ DeleteManager

LEMMA EngineChanges ==
  ASSUME Next
  PROVE  UNCHANGED <<queue_requests, status, interrupted, decoded>> \/ EngineSteps
  BY DEF EngineSteps, Next, Application, JsThread, update_slots, ReleaseContext, Job, vars,
      disableParallelMode, configure, subscribeToStatus, Unsubscribe, CallQueue, StartJob,
      JobFails, AnnounceQueued, EndJob, RunCallback, AnnounceStop, FinishStop, Admitted,
      DecodeBatch, AnnounceUpdate, EndUpdate, enableParallelMode, CallRelease, clearContext,
      stop_processing_loop, DeleteContext, engine, slotVars, feed, promises, context, stops,
      jobs, worker

LEMMA EngineTypedInit == Init => EngineTyped /\ WaitingInv /\ KnownInv
  <1> SUFFICES ASSUME Init
               PROVE  EngineTyped /\ WaitingInv /\ KnownInv
    OBVIOUS
  <1>1. queue_requests = <<>> /\ status = [r \in Request |-> "unknown"]
    BY DEF Init, Engine!Init
  <1>2. decoded \in [Request -> 0 .. MaxTokens] /\ interrupted \subseteq Request
    BY ParallelRequestsAssumption DEF Init
  <1>3. queue_requests \in Seq(Request) /\ DOMAIN queue_requests = {}
    BY <1>1
  <1>4. QED BY <1>1, <1>2, <1>3, Values DEF EngineTyped, WaitingInv, KnownInv, Distinct, Occurs

LEMMA EngineTypedStep ==
  ASSUME IdsTyped, EngineTyped, WaitingInv, Next
  PROVE  EngineTyped' /\ WaitingInv'
  <1>1. CASE UNCHANGED <<queue_requests, status, interrupted, decoded>>
    BY <1>1 DEF EngineTyped, WaitingInv, Distinct, Occurs
  <1>2. ASSUME NEW r \in Request, QueueRequest(r)
        PROVE  EngineTyped' /\ WaitingInv'
    <2>1. UNCHANGED <<interrupted, decoded>>
      BY <1>2 DEF QueueRequest, slotVars
    <2>2. QED BY <1>2, <2>1, SubmitWorks DEF EngineTyped
  <1>3. ASSUME NEW r \in Request, StopRequest(r)
        PROVE  EngineTyped' /\ WaitingInv'
    <2>1. UNCHANGED decoded
      BY <1>3 DEF StopRequest
    <2>2. CASE UNCHANGED engine
      <3>1. interrupted' \subseteq Request
        BY <1>3, <2>2, StopWorks DEF EngineTyped, Engine!Withdraw, engine
      <3>2. QED BY <2>1, <2>2, <3>1 DEF EngineTyped, WaitingInv, Distinct, Occurs, engine
    <2>3. ASSUME NEW q \in Request, Engine!Withdraw(q), UNCHANGED interrupted
          PROVE  EngineTyped' /\ WaitingInv'
      BY <2>1, <2>3, WithdrawWorks DEF EngineTyped
    <2>4. QED BY <1>3, <2>2, <2>3, StopWorks
  <1>4. CASE Admit
    <2>1. UNCHANGED <<interrupted, decoded>>
      BY <1>4 DEF Admit, slotVars
    <2>2. QED BY <1>4, <2>1, StartWorks DEF EngineTyped
  <1>5. CASE BeginUpdate \/ DecodeBatchFails \/ SampleAndRelease
    <2>1. decoded' \in [Request -> 0 .. MaxTokens]
      <3>1. CASE BeginUpdate \/ DecodeBatchFails
        BY <1>5, <3>1 DEF BeginUpdate, DecodeBatchFails, EngineTyped
      <3>2. CASE SampleAndRelease
        <4>1. \E S \in SUBSET Request :
                /\ \A r \in S : CanGenerate(r)
                /\ decoded' = [r \in Request |-> IF r \in S THEN decoded[r] + 1 ELSE decoded[r]]
          BY <3>2 DEF SampleAndRelease, Running, Engine!RunningRequests
        <4>2. QED BY <4>1, ParallelRequestsAssumption DEF EngineTyped, CanGenerate
      <3>3. QED BY <1>5, <3>1, <3>2
    <2>2. QED BY <1>5, <2>1, UpdateEnds, EndsWork DEF EngineTyped
  <1>6. CASE DeleteManager
    <2>1. /\ queue_requests' = <<>> /\ status' = [r \in Request |-> "unknown"]
          /\ interrupted' = {} /\ UNCHANGED decoded
      BY <1>6 DEF DeleteManager
    <2>2. queue_requests' \in Seq(Request) /\ DOMAIN (queue_requests') = {}
      BY <2>1
    <2>3. QED BY <2>1, <2>2, Values DEF EngineTyped, WaitingInv, Distinct, Occurs
  <1>7. QED BY <1>1, <1>2, <1>3, <1>4, <1>5, <1>6, EngineChanges DEF EngineSteps

\* How far a request's status may move in one step.
StatusMoves(r) ==
  \/ status'[r] = status[r]
  \/ status[r] = "unknown" /\ status'[r] \in {"waiting", "answered"} /\ QueueRequest(r)
  \/ status[r] = "waiting" /\ status'[r] \in {"running", "answered", "withdrawn"}
  \/ status[r] = "running" /\ status'[r] \in {"answered", "dropped"}
  \/ DeleteManager /\ status'[r] = "unknown"

LEMMA StatusesMove ==
  ASSUME IdsTyped, EngineTyped, WaitingInv, Next, NEW r \in Request
  PROVE  StatusMoves(r)
  <1>1. CASE UNCHANGED status
    BY <1>1 DEF StatusMoves
  <1>2. ASSUME NEW q \in Request, QueueRequest(q)
        PROVE  StatusMoves(r)
    BY <1>2, SubmitWorks DEF StatusMoves
  <1>3. ASSUME NEW q \in Request, StopRequest(q)
        PROVE  StatusMoves(r)
    BY <1>1, <1>3, StopWorks, WithdrawWorks DEF StatusMoves, engine
  <1>4. CASE Admit
    BY <1>4, StartWorks DEF StatusMoves
  <1>5. CASE BeginUpdate \/ DecodeBatchFails \/ SampleAndRelease
    <2>1. PICK E \in SUBSET Running : \E N \in SUBSET (E \cap Embedding) : EndRequests(E, N)
      BY <1>5, UpdateEnds
    <2>2. r \in E => status[r] = "running"
      BY <2>1 DEF Running, Engine!RunningRequests
    <2>3. QED BY <2>1, <2>2, EndsWork DEF StatusMoves
  <1>6. CASE DeleteManager
    BY <1>6 DEF DeleteManager, StatusMoves
  <1>7. QED BY <1>1, <1>2, <1>3, <1>4, <1>5, <1>6, EngineChanges DEF EngineSteps

LEMMA StagesMove ==
  ASSUME IdsTyped, IdsInv, Next, NEW r \in Request
  PROVE  /\ stage[r] \in {"queued", "announced", "returned", "over"} =>
              stage'[r] \in {"queued", "announced", "returned", "over"}
         /\ r \in Served => r \in Served' \/ DeleteManager
  <1> DEFINE goal == /\ stage[r] \in {"queued", "announced", "returned", "over"} =>
                          stage'[r] \in {"queued", "announced", "returned", "over"}
                     /\ r \in Served => r \in Served' \/ DeleteManager
  <1>1. CASE UNCHANGED <<stage, id, former>>
    BY <1>1 DEF Served, Started
  <1>2. ASSUME NEW q \in Request, CallQueue(q)
        PROVE  goal
    BY <1>2 DEF IdsTyped, Served, Started, CallQueue, MoveTo, engine, slotVars, feed, promises,
        context, stops, jobs, worker
  <1>3. ASSUME NEW q \in Request, StartJob(q)
        PROVE  goal
    <2>1. /\ stage' = [stage EXCEPT ![q] = "registered"] /\ stage[q] = "posted"
          /\ id' = [id EXCEPT ![q] = next_request_id] /\ UNCHANGED former
          /\ next_request_id # 0
      BY <1>3, NextIdIsFree DEF StartJob, MoveTo, context
    <2>2. QED BY <2>1 DEF IdsTyped, Served, Started
  <1>4. ASSUME NEW q \in Request, JobFails(q)
        PROVE  goal
    BY <1>4 DEF IdsTyped, Served, Started, JobFails, MoveTo, InvokeAsync, engine, slotVars,
        feed, promises, context, stops, jobs, worker
  <1>5. ASSUME NEW q \in Request, QueueRequest(q)
        PROVE  goal
    BY <1>5 DEF IdsTyped, Served, Started, QueueRequest, MoveTo, engine, slotVars, feed,
        promises, context, stops, jobs, worker
  <1>6. ASSUME NEW q \in Request, AnnounceQueued(q)
        PROVE  goal
    BY <1>6 DEF IdsTyped, Served, Started, AnnounceQueued, MoveTo, TakeStatus, engine, slotVars,
        feed, promises, context, stops, jobs, worker
  <1>7. ASSUME NEW q \in Request, EndJob(q)
        PROVE  goal
    BY <1>7 DEF IdsTyped, Served, Started, EndJob, MoveTo, TellStatus, InvokeAsync, engine,
        slotVars, feed, promises, context, stops, jobs, worker
  <1>8. CASE RunCallback
    BY <1>8 DEF IdsTyped, Served, Started, RunCallback, MoveTo, Settle, engine, slotVars, feed,
        promises, context, stops, jobs, worker
  <1>9. CASE disableParallelMode
    BY <1>9 DEF disableParallelMode, DeleteManager
  <1>10. CASE configure
    BY <1>10 DEF configure, DeleteManager
  <1>11. QED
    BY <1>1, <1>2, <1>3, <1>4, <1>5, <1>6, <1>7, <1>8, <1>9, <1>10 DEF Next, Application,
        JsThread, update_slots, ReleaseContext, Job, vars, subscribeToStatus, Unsubscribe,
        StopRequest, AnnounceStop, FinishStop, BeginUpdate, Admit, Admitted, DecodeBatch,
        DecodeBatchFails, SampleAndRelease, AnnounceUpdate, EndUpdate, enableParallelMode,
        CallRelease, clearContext, stop_processing_loop, DeleteContext, EndRequests,
        InvokeAsync, Settle, TakeStatus, TellStatus, takeRequests, engine, slotVars, feed,
        promises, context, stops, jobs, worker

LEMMA KnownStep ==
  ASSUME IdsTyped, IdsInv, EngineTyped, WaitingInv, KnownInv, Next
  PROVE  KnownInv'
  <1> SUFFICES ASSUME NEW r \in Request, status'[r] # "unknown"
               PROVE  /\ r \in Served'
                      /\ stage'[r] \in {"queued", "announced", "returned", "over"}
    BY DEF KnownInv
  <1>1. ~DeleteManager
    BY DEF DeleteManager
  <1>2. CASE status[r] # "unknown"
    BY <1>1, <1>2, StagesMove DEF KnownInv
  <1>3. CASE status[r] = "unknown"
    <2>1. QueueRequest(r)
      BY <1>1, <1>3, StatusesMove DEF StatusMoves
    <2>2. stage[r] = "registered" /\ stage'[r] \in {"queued", "announced"}
      BY <2>1, SubmitWorks
    <2>3. r \in Served
      BY <2>2 DEF IdsInv, Served
    <2>4. QED BY <1>1, <2>2, <2>3, StagesMove
  <1>4. QED BY <1>2, <1>3

LEMMA EngineInvInit == Init => EngineInv
  BY InitIds, EngineTypedInit DEF EngineInv

LEMMA EngineInvStep ==
  ASSUME EngineInv, Next
  PROVE  EngineInv'
  BY IdsTypedStep, IdsStep, EngineTypedStep, KnownStep DEF EngineInv

-----------------------------------------------------------------------------
(* The callbacks' messages                                                 *)

LEMMA MessageFields ==
  ASSUME NEW m \in Message
  PROVE  /\ m.kind \in {"token", "complete", "queued"} /\ m.of \in Request
         /\ m.kind = "token" => m.data \in Request
         /\ m.kind = "complete" => m.data \in Request /\ m.how \in {"answer", "cancelled"}
         /\ m.kind = "queued" => m.ok \in BOOLEAN
  <1>1. CASE m \in TokenMessage
    BY <1>1 DEF TokenMessage
  <1>2. CASE m \in CompleteMessage
    BY <1>2 DEF CompleteMessage
  <1>3. CASE m \in QueuedMessage
    BY <1>3 DEF QueuedMessage
  <1>4. QED BY <1>1, <1>2, <1>3 DEF Message

LEMMA ReplyFields ==
  ASSUME NEW r \in Request, NEW ok \in BOOLEAN
  PROVE  Reply(r, ok) \in Message /\ Reply(r, ok).kind = "queued" /\ Reply(r, ok).of = r
  BY DEF Reply, Message, QueuedMessage

LEMMA SetToSeqProperties ==
  ASSUME NEW S, IsFiniteSet(S)
  PROVE  /\ SetToSeq(S) \in Seq(S) /\ Len(SetToSeq(S)) = Cardinality(S)
         /\ \A i, j \in DOMAIN SetToSeq(S) : SetToSeq(S)[i] = SetToSeq(S)[j] => i = j
  <1> DEFINE n == Cardinality(S)
  <1>1. n \in Nat /\ \E f \in [1..n -> S] : IsInjective(f)
    BY FS_CardinalityType DEF ExistsBijection, Bijection, Injection
  <1>2. SetToSeq(S) \in [1..n -> S] /\ IsInjective(SetToSeq(S))
    BY <1>1 DEF SetToSeq
  <1> HIDE DEF n
  <1>3. SetToSeq(S) \in Seq(S) /\ Len(SetToSeq(S)) = n
    BY <1>1, <1>2
  <1>4. QED BY <1>2, <1>3 DEF IsInjective, n

LEMMA HeadAndTail ==
  ASSUME NEW S, NEW q \in Seq(S), q # <<>>
  PROVE  /\ Head(q) \in S /\ Tail(q) \in Seq(S) /\ Len(Tail(q)) = Len(q) - 1
         /\ 1 \in DOMAIN q /\ Head(q) = q[1]
         /\ \A i \in DOMAIN Tail(q) : i \in Nat \ {0} /\ i + 1 \in DOMAIN q /\ Tail(q)[i] = q[i + 1]
  OBVIOUS

LEMMA Joined ==
  ASSUME NEW S, NEW p \in Seq(S), NEW q \in Seq(S)
  PROVE  /\ p \o q \in Seq(S) /\ Len(p) \in Nat
         /\ \A i \in DOMAIN (p \o q) :
              \/ i \in DOMAIN p /\ i <= Len(p) /\ (p \o q)[i] = p[i]
              \/ /\ i \in Nat /\ i > Len(p)
                 /\ i - Len(p) \in DOMAIN q /\ (p \o q)[i] = q[i - Len(p)]
         /\ \A i \in DOMAIN p : i \in Nat /\ i <= Len(p)
  OBVIOUS

\* The messages M: a token for each of the requests T, then a result for each of A, sent
\* to the callbacks kept for them.
Sends(M, T, A) ==
  /\ \A i \in DOMAIN M :
       /\ M[i].data \in Request /\ M[i].of \in Request /\ M[i].of = getRequest(M[i].data)
       /\ \/ M[i].kind = "token" /\ M[i].data \in T
          \/ /\ M[i].kind = "complete" /\ M[i].data \in A
             /\ M[i].how = "cancelled" => M[i].data \in interrupted
  /\ \A i, j \in DOMAIN M :
       /\ M[i].kind = "complete" /\ M[j].kind = "token" => j < i
       /\ M[i].kind = "complete" /\ M[j].kind = "complete" /\ M[i].data = M[j].data => i = j

LEMMA AnswerSends ==
  ASSUME IdsTyped, IdsInv, CallbacksTyped,
         NEW T \in SUBSET Served, NEW A \in SUBSET Served, Answer(T, A)
  PROVE  /\ \E M \in Seq(Message) : callbacks' = callbacks \o M /\ Sends(M, T, A)
         /\ requests' = [i \in Id |-> IF i \in {id[r] : r \in A} THEN NoRequest ELSE requests[i]]
  <1> DEFINE Tokens == {r \in T \ Embedding : getRequest(r) # NoRequest}
             Answered == {r \in A : getRequest(r) # NoRequest}
             t == SetToSeq(Tokens)
             a == SetToSeq(Answered)
             mt == [i \in DOMAIN t |-> TokenOf(t[i])]
             ma == [i \in DOMAIN a |-> ResultOf(a[i])]
  <1>1. \A r \in Served : r \in Request /\ getRequest(r) \in Request \cup {NoRequest}
    BY IdOfServed DEF CallbacksTyped, getRequest
  <1>2. IsFiniteSet(Tokens) /\ IsFiniteSet(Answered)
    <2>1. Tokens \subseteq Request /\ Answered \subseteq Request
      BY <1>1
    <2>2. QED BY <2>1, ParallelRequestsAssumption, FS_Subset
  <1>3. /\ t \in Seq(Tokens) /\ a \in Seq(Answered)
        /\ \A i, j \in DOMAIN a : a[i] = a[j] => i = j
    BY <1>2, SetToSeqProperties
  <1>4. /\ callbacks' = callbacks \o (mt \o ma)
        /\ requests' = [i \in Id |-> IF i \in {id[r] : r \in A} THEN NoRequest ELSE requests[i]]
    BY DEF Answer, InvokeAsync, InOrder, takeRequests
  <1> HIDE DEF t, a
  <1>5. \A i \in DOMAIN t : t[i] \in Tokens
    BY <1>3
  <1>6. \A i \in DOMAIN a : a[i] \in Answered
    BY <1>3
  <1>7. \A r \in Tokens : /\ r \in Request /\ getRequest(r) \in Request /\ r \in T
                          /\ TokenOf(r) \in Message /\ TokenOf(r).kind = "token"
                          /\ TokenOf(r).data = r /\ TokenOf(r).of = getRequest(r)
    BY <1>1 DEF TokenOf, Message, TokenMessage
  <1>8. \A r \in Answered : /\ r \in Request /\ getRequest(r) \in Request /\ r \in A
                            /\ ResultOf(r) \in Message /\ ResultOf(r).kind = "complete"
                            /\ ResultOf(r).data = r /\ ResultOf(r).of = getRequest(r)
                            /\ ResultOf(r).how = "cancelled" => r \in interrupted
    BY <1>1 DEF ResultOf, Message, CompleteMessage
  <1> HIDE DEF Tokens, Answered
  <1>9. /\ mt \in Seq(Message) /\ DOMAIN mt = DOMAIN t
        /\ \A i \in DOMAIN mt : mt[i] = TokenOf(t[i]) /\ t[i] \in Tokens
    BY <1>3, <1>5, <1>7
  <1>10. /\ ma \in Seq(Message) /\ DOMAIN ma = DOMAIN a
         /\ \A i \in DOMAIN ma : ma[i] = ResultOf(a[i]) /\ a[i] \in Answered
    BY <1>3, <1>6, <1>8
  <1> HIDE DEF mt, ma
  <1>11. PICK M : M = mt \o ma
    OBVIOUS
  <1>12. M \in Seq(Message)
    BY <1>9, <1>10, <1>11
  <1>13. \A i \in DOMAIN M :
           \/ i \in DOMAIN mt /\ i <= Len(mt) /\ M[i] = mt[i]
           \/ /\ i \in Nat /\ i > Len(mt) /\ i - Len(mt) \in DOMAIN ma
              /\ M[i] = ma[i - Len(mt)]
    BY <1>9, <1>10, <1>11, Joined
  <1>14. Len(mt) \in Nat /\ \A i \in DOMAIN mt : i \in Nat
    BY <1>9
  <1>15. Sends(M, T, A)
    <2>1. \A i \in DOMAIN M :
            \/ /\ i \in Nat /\ i <= Len(mt) /\ M[i] = TokenOf(t[i]) /\ t[i] \in Tokens
            \/ /\ i \in Nat /\ i > Len(mt) /\ i - Len(mt) \in DOMAIN a
               /\ M[i] = ResultOf(a[i - Len(mt)]) /\ a[i - Len(mt)] \in Answered
      BY <1>9, <1>10, <1>13, <1>14
    <2>2. \A i \in DOMAIN M :
            /\ M[i].data \in Request /\ M[i].of \in Request /\ M[i].of = getRequest(M[i].data)
            /\ \/ M[i].kind = "token" /\ M[i].data \in T
               \/ /\ M[i].kind = "complete" /\ M[i].data \in A
                  /\ M[i].how = "cancelled" => M[i].data \in interrupted
      BY <1>7, <1>8, <2>1
    <2>3. \A i \in DOMAIN M : M[i].kind = "token" <=> i <= Len(mt)
      BY <1>7, <1>8, <1>14, <2>1
    <2>4. \A i \in DOMAIN M : M[i].kind = "complete" =>
            /\ i \in Nat /\ i > Len(mt) /\ i - Len(mt) \in DOMAIN a
            /\ M[i].data = a[i - Len(mt)]
      BY <1>7, <1>8, <1>14, <2>1
    <2>5. \A i, j \in DOMAIN M :
            M[i].kind = "complete" /\ M[j].kind = "token" => j < i
      BY <1>14, <2>1, <2>3, <2>4
    <2>6. \A i, j \in DOMAIN M :
            M[i].kind = "complete" /\ M[j].kind = "complete" /\ M[i].data = M[j].data => i = j
      BY <1>3, <1>14, <2>4
    <2>7. QED BY <2>2, <2>5, <2>6 DEF Sends
  <1>16. QED BY <1>4, <1>11, <1>12, <1>15

\* A step of the engine that answers: its tokens go to running requests, and it answers
\* the requests whose status it changes.
Answering(T, A) ==
  /\ T \subseteq Running \ Embedding
  /\ A = AnsweredNow /\ A \subseteq Served
  /\ Answer(T, A)

AnsweringStep ==
  \/ \E r \in Request : QueueRequest(r)
  \/ BeginUpdate \/ Admit \/ DecodeBatchFails \/ SampleAndRelease

LEMMA Answers ==
  ASSUME EngineInv, Next, AnsweringStep
  PROVE  \/ UNCHANGED <<callbacks, requests>> /\ AnsweredNow = {}
         \/ \E T, A \in SUBSET Request : Answering(T, A)
  <1>1. Running \subseteq Served
    BY DEF Running, Engine!RunningRequests, EngineInv, KnownInv
  <1>2. AnsweredNow \subseteq Served
    <2> SUFFICES ASSUME NEW r \in Request, status[r] # "answered", status'[r] = "answered"
                 PROVE  r \in Served
      BY DEF AnsweredNow
    <2>1. CASE status[r] # "unknown"
      BY <2>1 DEF EngineInv, KnownInv
    <2>2. CASE status[r] = "unknown"
      <3>1. QueueRequest(r)
        BY <2>2, StatusesMove DEF StatusMoves, EngineInv
      <3>2. stage[r] = "registered"
        BY <3>1 DEF QueueRequest
      <3>3. QED BY <3>2 DEF EngineInv, IdsInv, Served
    <2>3. QED BY <2>1, <2>2
  <1>3. AnsweredNow \in SUBSET Request
    BY DEF AnsweredNow
  <1>4. ASSUME NEW r \in Request, QueueRequest(r)
        PROVE  \/ UNCHANGED <<callbacks, requests>> /\ AnsweredNow = {}
               \/ \E T, A \in SUBSET Request : Answering(T, A)
    <2>1. /\ status[r] = "unknown" /\ status'[r] \in {"waiting", "answered"}
          /\ \A q \in Request \ {r} : status'[q] = status[q]
      BY <1>4, SubmitWorks DEF EngineInv
    <2>2. CASE status'[r] = "waiting" /\ UNCHANGED <<callbacks, requests>>
      BY <2>1, <2>2 DEF AnsweredNow
    <2>3. CASE status'[r] = "answered" /\ Answer({}, {r})
      <3>1. AnsweredNow = {r}
        BY <2>1, <2>3 DEF AnsweredNow
      <3>2. Answering({}, {r})
        BY <1>2, <2>3, <3>1 DEF Answering
      <3>3. QED BY <3>2
    <2>4. QED BY <1>4, <2>2, <2>3 DEF QueueRequest
  <1>5. CASE BeginUpdate \/ Admit \/ DecodeBatchFails
    <2>1. Answering({}, AnsweredNow)
      BY <1>2, <1>5 DEF Answering, BeginUpdate, Admit, DecodeBatchFails
    <2>2. QED BY <1>3, <2>1
  <1>6. CASE SampleAndRelease
    <2>1. \E T \in SUBSET (Running \ Embedding) : Answer(T, AnsweredNow)
      BY <1>6 DEF SampleAndRelease
    <2>2. PICK T \in SUBSET (Running \ Embedding) : Answer(T, AnsweredNow)
      BY <2>1
    <2>3. Answering(T, AnsweredNow) /\ T \in SUBSET Request
      BY <1>2, <2>2 DEF Answering, Running, Engine!RunningRequests
    <2>4. QED BY <1>3, <2>3
  <1>7. QED BY <1>4, <1>5, <1>6 DEF AnsweringStep

\* The steps that change the callbacks on their way, or those the RequestManager keeps.
LEMMA CallbackChanges ==
  ASSUME CallbacksTyped, Next
  PROVE  \/ UNCHANGED <<callbacks, requests>>
         \/ \E r \in Request : StartJob(r) /\ UNCHANGED callbacks
         \/ \E r \in Request : \E ok \in BOOLEAN :
              /\ JobFails(r) \/ EndJob(r)
              /\ callbacks' = Append(callbacks, Reply(r, ok)) /\ UNCHANGED requests
         \/ RunCallback /\ UNCHANGED requests
         \/ FinishStop /\ UNCHANGED callbacks
         \/ clearContext /\ UNCHANGED callbacks
         \/ AnsweringStep
  <1> DEFINE goal == \/ UNCHANGED <<callbacks, requests>>
                     \/ \E r \in Request : StartJob(r) /\ UNCHANGED callbacks
                     \/ \E r \in Request : \E ok \in BOOLEAN :
                          /\ JobFails(r) \/ EndJob(r)
                          /\ callbacks' = Append(callbacks, Reply(r, ok)) /\ UNCHANGED requests
                     \/ RunCallback /\ UNCHANGED requests
                     \/ FinishStop /\ UNCHANGED callbacks
                     \/ clearContext /\ UNCHANGED callbacks
                     \/ AnsweringStep
  <1>0. /\ callbacks \o <<>> = callbacks
        /\ \A m : callbacks \o <<m>> = Append(callbacks, m)
    BY DEF CallbacksTyped
  <1>1. CASE UNCHANGED <<callbacks, requests>> \/ AnsweringStep
    BY <1>1
  <1>2. ASSUME NEW r \in Request, StartJob(r)
        PROVE  goal
    <2>1. UNCHANGED callbacks
      BY <1>0, <1>2 DEF StartJob
    <2>2. QED BY <1>2, <2>1
  <1>3. ASSUME NEW r \in Request, JobFails(r)
        PROVE  goal
    <2>1. /\ callbacks' = Append(callbacks, Reply(r, FALSE)) /\ UNCHANGED requests
          /\ FALSE \in BOOLEAN
      BY <1>0, <1>3 DEF JobFails, InvokeAsync
    <2>2. QED BY <1>3, <2>1
  <1>4. ASSUME NEW r \in Request, EndJob(r)
        PROVE  goal
    <2>1. /\ callbacks' = Append(callbacks, Reply(r, TRUE)) /\ UNCHANGED requests
          /\ TRUE \in BOOLEAN
      BY <1>0, <1>4 DEF EndJob, TellStatus, InvokeAsync
    <2>2. QED BY <1>4, <2>1
  <1>5. CASE RunCallback
    <2>1. UNCHANGED requests
      BY <1>0, <1>5 DEF RunCallback
    <2>2. QED BY <1>5, <2>1
  <1>6. CASE FinishStop
    <2>1. UNCHANGED callbacks
      BY <1>0, <1>6 DEF FinishStop, TellStatus, InvokeAsync
    <2>2. QED BY <1>6, <2>1
  <1>7. CASE clearContext
    <2>1. UNCHANGED callbacks
      BY <1>0, <1>7 DEF clearContext
    <2>2. QED BY <1>7, <2>1
  <1>8. CASE EndUpdate
    <2>1. UNCHANGED <<callbacks, requests>>
      BY <1>0, <1>8 DEF EndUpdate, TellStatus, InvokeAsync
    <2>2. QED BY <2>1
  <1>9. QED
    BY <1>1, <1>2, <1>3, <1>4, <1>5, <1>6, <1>7, <1>8 DEF AnsweringStep, Next, Application,
        JsThread, update_slots, ReleaseContext, Job, vars, DeleteManager, TakeStatus,
        subscribeToStatus, Unsubscribe, CallQueue, AnnounceQueued, StopRequest, AnnounceStop,
        Admitted, DecodeBatch, AnnounceUpdate, disableParallelMode, configure,
        enableParallelMode, CallRelease, stop_processing_loop, DeleteContext, engine, slotVars,
        feed, promises, context, stops, jobs, worker

LEMMA CallbacksStep ==
  ASSUME EngineInv, CallbacksTyped, Next
  PROVE  CallbacksTyped'
  <1>1. CASE UNCHANGED <<callbacks, requests>>
    BY <1>1 DEF CallbacksTyped
  <1>2. ASSUME NEW r \in Request, StartJob(r), UNCHANGED callbacks
        PROVE  CallbacksTyped'
    BY <1>2 DEF StartJob, addRequest, CallbacksTyped
  <1>3. ASSUME NEW r \in Request, NEW ok \in BOOLEAN, UNCHANGED requests,
               callbacks' = Append(callbacks, Reply(r, ok))
        PROVE  CallbacksTyped'
    BY <1>3, ReplyFields DEF CallbacksTyped
  <1>4. CASE RunCallback /\ UNCHANGED requests
    BY <1>4, HeadAndTail DEF RunCallback, CallbacksTyped
  <1>5. CASE (FinishStop \/ clearContext) /\ UNCHANGED callbacks
    BY <1>5 DEF FinishStop, clearContext, takeRequests, CallbacksTyped
  <1>6. CASE AnsweringStep
    <2>1. ASSUME NEW T \in SUBSET Request, NEW A \in SUBSET Request, Answering(T, A)
          PROVE  CallbacksTyped'
      <3>1. T \in SUBSET Served /\ A \in SUBSET Served /\ Answer(T, A)
        BY <2>1 DEF Answering, Running, Engine!RunningRequests, EngineInv, KnownInv
      <3>2. PICK M \in Seq(Message) : callbacks' = callbacks \o M
        BY <3>1, AnswerSends DEF EngineInv
      <3>3. requests' \in [Id -> Request \cup {NoRequest}]
        BY <3>1, AnswerSends DEF EngineInv, CallbacksTyped
      <3>4. QED BY <3>2, <3>3 DEF CallbacksTyped
    <2>2. QED BY <1>1, <1>6, <2>1, Answers
  <1>7. QED BY <1>1, <1>2, <1>3, <1>4, <1>5, <1>6, CallbackChanges

-----------------------------------------------------------------------------
(* Types                                                                   *)

LEMMA JsFields ==
  ASSUME NEW m \in JsState
  PROVE  /\ m.at \in {"idle", "cancelled", "told"}
         /\ m.at # "idle" => /\ m.result \in {"ACTIVE", "QUEUED"} /\ m.of \in Request
                             /\ [m EXCEPT !.at = "told"] \in JsState
  BY DEF JsState

LEMMA JsValues ==
  /\ [at |-> "idle"] \in JsState
  /\ \A r \in Request : \A how \in {"ACTIVE", "QUEUED"} :
       [at |-> "cancelled", result |-> how, of |-> r] \in JsState
  BY DEF JsState

LEMMA StatusValues ==
  ASSUME EngineTyped
  PROVE  /\ Current \in ParallelStatus
         /\ \A s \in ParallelStatus : [s EXCEPT !.old = TRUE] \in ParallelStatus
  BY DEF EngineTyped, Current, ParallelStatus, Running, Engine!RunningRequests

LEMMA ResultValues ==
  /\ [data |-> NoRequest, how |-> "answer", calls |-> 0] \in Result
  /\ \A r \in Request : \A how \in {"answer", "cancelled"} : \A n \in 0 .. 2 :
       [data |-> r, how |-> how, calls |-> n] \in Result
  BY DEF Result

LEMMA StopsStep ==
  ASSUME EngineInv, StopsTyped, Next
  PROVE  StopsTyped'
  <1>1. CASE UNCHANGED <<js, asked, stale_stop>>
    BY <1>1 DEF StopsTyped
  <1>2. ASSUME NEW r \in Request, StopRequest(r)
        PROVE  StopsTyped'
    <2>1. asked' \subseteq Request /\ stale_stop' \in BOOLEAN
      BY <1>2 DEF StopRequest, StopsTyped
    <2>2. js' \in JsState
      BY <1>2, StopWorks, JsValues DEF StopsTyped, EngineInv
    <2>3. QED BY <2>1, <2>2 DEF StopsTyped
  <1>3. CASE AnnounceStop
    BY <1>3, JsFields DEF AnnounceStop, StopsTyped
  <1>4. CASE FinishStop
    BY <1>4, JsValues DEF FinishStop, StopsTyped
  <1>5. QED
    BY <1>1, <1>2, <1>3, <1>4 DEF Next, Application, JsThread, update_slots, ReleaseContext,
        Job, vars, subscribeToStatus, Unsubscribe, CallQueue, StartJob, JobFails, QueueRequest,
        AnnounceQueued, EndJob, RunCallback, BeginUpdate, Admit, Admitted, DecodeBatch,
        DecodeBatchFails, SampleAndRelease, AnnounceUpdate, EndUpdate, disableParallelMode,
        configure, enableParallelMode, CallRelease, clearContext, stop_processing_loop,
        DeleteContext, DeleteManager, EndRequests, InvokeAsync, MoveTo, Settle, TakeStatus,
        TellStatus, addRequest, takeRequests, engine, slotVars, feed, promises, context, stops,
        jobs, worker

LEMMA SettleTyped ==
  ASSUME PromisesTyped, NEW r \in Request, NEW q \in Request, NEW how \in {"answer", "cancelled"},
         Settle(r, q, how)
  PROVE  inner' \in [Request -> Result]
  <1>1. (IF inner[r].calls = 0 THEN 1 ELSE 2) \in 0 .. 2
    OBVIOUS
  <1>2. [data |-> q, how |-> how, calls |-> IF inner[r].calls = 0 THEN 1 ELSE 2] \in Result
    BY <1>1, ResultValues
  <1>3. QED BY <1>2 DEF Settle, PromisesTyped

LEMMA PromisesStep ==
  ASSUME CallbacksTyped, StopsTyped, PromisesTyped, Next
  PROVE  PromisesTyped'
  <1>1. CASE UNCHANGED <<outer, inner, late_token>>
    BY <1>1 DEF PromisesTyped
  <1>2. ASSUME NEW r \in Request, CallQueue(r)
        PROVE  PromisesTyped'
    BY <1>2 DEF CallQueue, PromisesTyped
  <1>3. CASE RunCallback
    <2> DEFINE m == Head(callbacks)
    <2>1. m \in Message
      BY <1>3, HeadAndTail DEF RunCallback, CallbacksTyped
    <2>2. /\ m.of \in Request
          /\ m.kind = "complete" => m.data \in Request /\ m.how \in {"answer", "cancelled"}
      BY <2>1, MessageFields
    <2>3. \/ UNCHANGED inner
          \/ m.kind = "complete" /\ Settle(m.of, m.data, m.how)
      BY <1>3 DEF RunCallback
    <2>4. /\ \/ UNCHANGED outer
             \/ \E s \in {"resolved", "rejected"} : outer' = [outer EXCEPT ![m.of] = s]
          /\ \/ UNCHANGED late_token
             \/ late_token' = (late_token \/ (registered /\ inner[m.of].calls > 0))
      BY <1>3 DEF RunCallback
    <2> HIDE DEF m
    <2>5. inner' \in [Request -> Result]
      BY <2>2, <2>3, SettleTyped DEF PromisesTyped
    <2>6. outer' \in [Request -> {"uncalled", "pending", "resolved", "rejected"}]
      BY <2>2, <2>4 DEF PromisesTyped
    <2>7. late_token' \in BOOLEAN
      BY <2>4 DEF PromisesTyped
    <2>8. QED BY <2>5, <2>6, <2>7 DEF PromisesTyped
  <1>4. CASE FinishStop
    <2>1. \/ UNCHANGED inner
          \/ CancelledCallbacks \in Completion /\ Settle(CancelledCallbacks, js.of, "cancelled")
      BY <1>4 DEF FinishStop
    <2>2. js.of \in Request
      BY <1>4, JsFields DEF FinishStop, StopsTyped
    <2>3. inner' \in [Request -> Result]
      BY <2>1, <2>2, SettleTyped DEF PromisesTyped, Completion
    <2>4. QED BY <1>4, <2>3 DEF FinishStop, PromisesTyped
  <1>5. QED
    BY <1>1, <1>2, <1>3, <1>4 DEF Next, Application, JsThread, update_slots, ReleaseContext,
        Job, vars, subscribeToStatus, Unsubscribe, StartJob, JobFails, QueueRequest,
        AnnounceQueued, EndJob, StopRequest, AnnounceStop, BeginUpdate, Admit, Admitted,
        DecodeBatch, DecodeBatchFails, SampleAndRelease, AnnounceUpdate, EndUpdate,
        disableParallelMode, configure, enableParallelMode, CallRelease, clearContext,
        stop_processing_loop, DeleteContext, DeleteManager, EndRequests, InvokeAsync, MoveTo,
        TakeStatus, TellStatus, addRequest, takeRequests, engine, slotVars, feed, promises,
        context, stops, jobs, worker

LEMMA TakeTyped ==
  ASSUME EngineTyped, FeedTyped, NEW t \in Teller, TakeStatus(t)
  PROVE  FeedTyped'
  <1>1. \A u \in Teller : {[s EXCEPT !.old = TRUE] : s \in snapshot[u]} \subseteq ParallelStatus
    BY StatusValues DEF FeedTyped
  <1>2. {Current} \subseteq ParallelStatus
    BY StatusValues
  <1>3. snapshot' \in [Teller -> SUBSET ParallelStatus]
    BY <1>1, <1>2 DEF TakeStatus
  <1>4. QED BY <1>3 DEF TakeStatus, FeedTyped

LEMMA TellTyped ==
  ASSUME FeedTyped, NEW t \in Teller, NEW more, TellStatus(t, more)
  PROVE  FeedTyped'
  <1>1. snapshot' = [snapshot EXCEPT ![t] = {}] /\ UNCHANGED <<subscribed, unannounced>>
        /\ seen' \in {seen, snapshot[t]}
    BY DEF TellStatus
  <1>2. QED BY <1>1 DEF FeedTyped

LEMMA FeedStep ==
  ASSUME EngineInv, FeedTyped, Next
  PROVE  FeedTyped'
  <1>1. CASE UNCHANGED <<subscribed, unannounced, snapshot, seen>>
    BY <1>1 DEF FeedTyped
  <1>2. CASE subscribeToStatus
    BY <1>2 DEF subscribeToStatus, FeedTyped
  <1>3. CASE Unsubscribe
    BY <1>3 DEF Unsubscribe, FeedTyped
  <1>4. ASSUME NEW r \in Request, AnnounceQueued(r)
        PROVE  FeedTyped'
    BY <1>4, TakeTyped, Values DEF AnnounceQueued, EngineInv
  <1>5. ASSUME NEW r \in Request, EndJob(r)
        PROVE  FeedTyped'
    BY <1>5, TellTyped, Values DEF EndJob
  <1>6. CASE AnnounceStop
    BY <1>6, TakeTyped, Values DEF AnnounceStop, EngineInv
  <1>7. CASE FinishStop
    BY <1>7, TellTyped, Values DEF FinishStop
  <1>8. CASE Admit
    BY <1>8 DEF Admit, FeedTyped
  <1>9. CASE DecodeBatchFails
    BY <1>9 DEF DecodeBatchFails, FeedTyped
  <1>10. CASE AnnounceUpdate
    BY <1>10, TakeTyped, Values DEF AnnounceUpdate, EngineInv
  <1>11. CASE EndUpdate
    BY <1>11, TellTyped, Values DEF EndUpdate
  <1>12. CASE disableParallelMode
    BY <1>12 DEF disableParallelMode, DeleteManager, FeedTyped
  <1>13. CASE configure
    BY <1>13 DEF configure, DeleteManager, FeedTyped
  <1>14. QED
    BY <1>1, <1>2, <1>3, <1>4, <1>5, <1>6, <1>7, <1>8, <1>9, <1>10, <1>11, <1>12, <1>13 DEF
        Next, Application, JsThread, update_slots, ReleaseContext, Job, vars, CallQueue,
        StartJob, JobFails, QueueRequest, RunCallback, StopRequest, BeginUpdate, Admitted,
        DecodeBatch, SampleAndRelease, enableParallelMode, CallRelease, clearContext,
        stop_processing_loop, DeleteContext, EndRequests, InvokeAsync, MoveTo, Settle,
        addRequest, takeRequests, engine, slotVars, feed, promises, context, stops, jobs, worker

LEMMA ModesStep ==
  ASSUME ModesTyped, Next
  PROVE  ModesTyped'
  <1>1. CASE UNCHANGED <<app, release, enabled, registered, completed_interrupted, update>>
    BY <1>1 DEF ModesTyped
  <1>2. CASE BeginUpdate
    BY <1>2 DEF BeginUpdate, worker, context, ModesTyped
  <1>3. CASE Admitted
    BY <1>3 DEF Admitted, worker, context, ModesTyped
  <1>4. CASE DecodeBatch
    BY <1>4 DEF DecodeBatch, worker, context, ModesTyped
  <1>5. CASE DecodeBatchFails
    BY <1>5 DEF DecodeBatchFails, worker, context, ModesTyped
  <1>6. CASE SampleAndRelease
    BY <1>6 DEF SampleAndRelease, worker, context, ModesTyped
  <1>7. CASE AnnounceUpdate
    BY <1>7 DEF AnnounceUpdate, worker, context, ModesTyped
  <1>8. CASE EndUpdate
    BY <1>8 DEF EndUpdate, worker, context, ModesTyped
  <1>9. CASE disableParallelMode
    BY <1>9 DEF disableParallelMode, DeleteManager, worker, ModesTyped
  <1>10. CASE configure
    BY <1>10 DEF configure, DeleteManager, worker, ModesTyped
  <1>11. CASE enableParallelMode
    BY <1>11 DEF enableParallelMode, worker, context, ModesTyped
  <1>12. CASE CallRelease
    BY <1>12 DEF CallRelease, worker, context, ModesTyped
  <1>13. CASE clearContext
    BY <1>13 DEF clearContext, worker, context, ModesTyped
  <1>14. CASE stop_processing_loop
    BY <1>14 DEF stop_processing_loop, worker, context, ModesTyped
  <1>15. CASE DeleteContext
    BY <1>15 DEF DeleteContext, worker, context, ModesTyped
  <1>16. QED
    BY <1>1, <1>2, <1>3, <1>4, <1>5, <1>6, <1>7, <1>8, <1>9, <1>10, <1>11, <1>12, <1>13, <1>14,
        <1>15 DEF Next, Application, JsThread, update_slots, ReleaseContext, Job, vars,
        subscribeToStatus, Unsubscribe, CallQueue, StartJob, JobFails, QueueRequest,
        AnnounceQueued, EndJob, RunCallback, StopRequest, AnnounceStop, FinishStop, Admit,
        InvokeAsync, MoveTo, Settle, TakeStatus, TellStatus, addRequest, takeRequests, engine,
        slotVars, feed, promises, context, stops, jobs, worker

LEMMA TypeInvInit == Init => TypeInv
  <1> SUFFICES ASSUME Init
               PROVE  TypeInv
    OBVIOUS
  <1>1. EngineInv
    BY EngineInvInit
  <1>2. CallbacksTyped
    BY DEF Init, CallbacksTyped
  <1>3. StopsTyped
    BY JsValues DEF Init, StopsTyped
  <1>4. PromisesTyped
    BY ResultValues DEF Init, PromisesTyped
  <1>5. FeedTyped
    BY DEF Init, FeedTyped
  <1>6. ModesTyped
    BY DEF Init, ModesTyped
  <1>7. QED BY <1>1, <1>2, <1>3, <1>4, <1>5, <1>6 DEF TypeInv

LEMMA TypeInvStep ==
  ASSUME TypeInv, Next
  PROVE  TypeInv'
  BY EngineInvStep, CallbacksStep, StopsStep, PromisesStep, FeedStep, ModesStep DEF TypeInv

LEMMA TypeInvImplies == TypeInv => TypeOK
  <1> SUFFICES ASSUME TypeInv
               PROVE  TypeOK
    OBVIOUS
  <1>1. next_request_id \in 1 .. Cardinality(Request) + 1
    BY NextIdIsFree DEF TypeInv, EngineInv
  <1>2. \A i \in DOMAIN callbacks : callbacks[i].kind \in {"token", "complete", "queued"}
    BY MessageFields DEF TypeInv, CallbacksTyped
  <1>3. js.at \in {"idle", "cancelled", "told"}
    BY JsFields DEF TypeInv, StopsTyped
  <1>4. QED
    BY <1>1, <1>2, <1>3
    DEF TypeInv, TypeOK, EngineInv, IdsTyped, EngineTyped, CallbacksTyped, StopsTyped,
        PromisesTyped, FeedTyped, ModesTyped

LEMMA TypeStutters ==
  ASSUME TypeInv, UNCHANGED vars
  PROVE  TypeInv'
  BY DEF vars, TypeInv, EngineInv, IdsTyped, IdsInv, Served, Started, EngineTyped, WaitingInv,
         Distinct, Occurs, KnownInv, CallbacksTyped, StopsTyped, PromisesTyped, FeedTyped,
         ModesTyped

-----------------------------------------------------------------------------
(* Release                                                                 *)

\* Only a job that still finds the context begins to work.
LEMMA JobsBegin ==
  ASSUME IdsTyped, Next, NEW r \in Request,
         stage'[r] \in {"registered", "queued", "announced"}
  PROVE  stage[r] \in {"registered", "queued", "announced"} \/ registered
  <1> DEFINE goal == stage[r] \in {"registered", "queued", "announced"} \/ registered
  <1>1. CASE UNCHANGED stage
    BY <1>1
  <1>2. ASSUME NEW q \in Request, CallQueue(q)
        PROVE  goal
    BY <1>2 DEF CallQueue, MoveTo, IdsTyped
  <1>3. ASSUME NEW q \in Request, StartJob(q)
        PROVE  goal
    BY <1>3 DEF StartJob, MoveTo, IdsTyped
  <1>4. ASSUME NEW q \in Request, JobFails(q)
        PROVE  goal
    BY <1>4 DEF JobFails, MoveTo, IdsTyped
  <1>5. ASSUME NEW q \in Request, QueueRequest(q)
        PROVE  goal
    BY <1>5 DEF QueueRequest, MoveTo, IdsTyped
  <1>6. ASSUME NEW q \in Request, AnnounceQueued(q)
        PROVE  goal
    BY <1>6 DEF AnnounceQueued, MoveTo, IdsTyped
  <1>7. ASSUME NEW q \in Request, EndJob(q)
        PROVE  goal
    BY <1>7 DEF EndJob, MoveTo, IdsTyped
  <1>8. CASE RunCallback
    BY <1>8 DEF RunCallback, MoveTo, IdsTyped
  <1>9. QED
    BY <1>1, <1>2, <1>3, <1>4, <1>5, <1>6, <1>7, <1>8 DEF Next, Application, JsThread,
        update_slots, ReleaseContext, Job, vars, DeleteManager, subscribeToStatus, Unsubscribe,
        StopRequest, AnnounceStop, FinishStop, BeginUpdate, Admit, Admitted, DecodeBatch,
        DecodeBatchFails, SampleAndRelease, AnnounceUpdate, EndUpdate, disableParallelMode,
        configure, enableParallelMode, CallRelease, clearContext, stop_processing_loop,
        DeleteContext, engine, slotVars, feed, promises, context, stops, jobs, worker

LEMMA ReleaseWorkerStep ==
  ASSUME ReleaseInv, Next
  PROVE  /\ release' \in {"joined", "done"} <=> update' = "stopped"
         /\ release = "done" => release' = "done" /\ UNCHANGED registered
         /\ release' = "done" => release = "done" \/ DeleteContext
  <1> DEFINE goal == /\ release' \in {"joined", "done"} <=> update' = "stopped"
                     /\ release = "done" => release' = "done" /\ UNCHANGED registered
                     /\ release' = "done" => release = "done" \/ DeleteContext
  <1>1. CASE UNCHANGED <<release, update, registered>>
    BY <1>1 DEF ReleaseInv
  <1>2. CASE BeginUpdate
    BY <1>2 DEF BeginUpdate, ReleaseInv, context, worker
  <1>3. CASE Admitted
    BY <1>3 DEF Admitted, ReleaseInv, context, worker
  <1>4. CASE DecodeBatch
    BY <1>4 DEF DecodeBatch, ReleaseInv, context, worker
  <1>5. CASE DecodeBatchFails
    BY <1>5 DEF DecodeBatchFails, ReleaseInv, context, worker
  <1>6. CASE SampleAndRelease
    BY <1>6 DEF SampleAndRelease, ReleaseInv, context, worker
  <1>7. CASE AnnounceUpdate
    BY <1>7 DEF AnnounceUpdate, ReleaseInv, context, worker
  <1>8. CASE EndUpdate
    BY <1>8 DEF EndUpdate, ReleaseInv, context, worker
  <1>9. CASE CallRelease
    BY <1>9 DEF CallRelease, ReleaseInv, context, worker
  <1>10. CASE clearContext
    BY <1>10 DEF clearContext, ReleaseInv, context, worker
  <1>11. CASE stop_processing_loop
    BY <1>11 DEF stop_processing_loop, ReleaseInv, context, worker
  <1>12. CASE DeleteContext
    BY <1>12 DEF DeleteContext, ReleaseInv, context, worker
  <1>13. QED
    BY <1>1, <1>2, <1>3, <1>4, <1>5, <1>6, <1>7, <1>8, <1>9, <1>10, <1>11, <1>12 DEF Next,
        Application, JsThread, update_slots, ReleaseContext, Job, vars, DeleteManager,
        subscribeToStatus, Unsubscribe, CallQueue, StartJob, JobFails, QueueRequest,
        AnnounceQueued, EndJob, RunCallback, StopRequest, AnnounceStop, FinishStop, Admit,
        disableParallelMode, configure, enableParallelMode, engine, slotVars, feed, promises,
        context, stops, jobs, worker

LEMMA NothingIsSent ==
  ASSUME TypeInv, ReleaseInv, Next, release = "done"
  PROVE  \A i \in DOMAIN callbacks' : callbacks'[i].kind \notin {"token", "complete"}
  <1>1. /\ callbacks \in Seq(Message) /\ update = "stopped" /\ ~registered
        /\ \A i \in DOMAIN callbacks : callbacks[i].kind \notin {"token", "complete"}
        /\ \A r \in Request : stage[r] \notin {"registered", "queued", "announced"}
    BY DEF TypeInv, CallbacksTyped, ReleaseInv, ReleaseWaitsForCallbacks
  <1>2. CASE UNCHANGED callbacks
    BY <1>1, <1>2
  <1>3. ASSUME NEW r \in Request, NEW ok \in BOOLEAN, callbacks' = Append(callbacks, Reply(r, ok))
        PROVE  \A i \in DOMAIN callbacks' : callbacks'[i].kind \notin {"token", "complete"}
    <2>1. \A i \in DOMAIN callbacks' :
            \/ i \in DOMAIN callbacks /\ callbacks'[i] = callbacks[i]
            \/ callbacks'[i] = Reply(r, ok)
      BY <1>1, <1>3, ReplyFields
    <2>2. QED BY <1>1, <2>1, ReplyFields
  <1>4. CASE RunCallback
    BY <1>1, <1>4, HeadAndTail DEF RunCallback
  <1>5. ~AnsweringStep
    BY <1>1 DEF AnsweringStep, QueueRequest, BeginUpdate, Admit, DecodeBatchFails, SampleAndRelease
  <1>6. QED BY <1>2, <1>3, <1>4, <1>5, CallbackChanges DEF TypeInv

LEMMA ReleaseStep ==
  ASSUME TypeInv, ReleaseInv, Next
  PROVE  ReleaseInv'
  <1>1. CASE release = "done"
    <2>1. ~registered /\ \A r \in Request : stage[r] \notin {"registered", "queued", "announced"}
      BY <1>1 DEF ReleaseInv, ReleaseWaitsForCallbacks
    <2>2. \A r \in Request : stage'[r] \notin {"registered", "queued", "announced"}
      BY <2>1, JobsBegin DEF TypeInv, EngineInv
    <2>3. \A i \in DOMAIN callbacks' : callbacks'[i].kind \notin {"token", "complete"}
      BY <1>1, NothingIsSent
    <2>4. QED BY <1>1, <2>1, <2>2, <2>3, ReleaseWorkerStep DEF ReleaseInv, ReleaseWaitsForCallbacks
  <1>2. CASE DeleteContext
    <2>1. /\ UNCHANGED <<callbacks, stage>> /\ StartedJobs = {} /\ TrackedCallbacks = {}
          /\ registered' = FALSE
      BY <1>2 DEF DeleteContext, jobs
    <2>2. ReleaseWaitsForCallbacks'
      BY <2>1 DEF ReleaseWaitsForCallbacks, StartedJobs, TrackedCallbacks
    <2>3. QED BY <2>1, <2>2, ReleaseWorkerStep DEF ReleaseInv
  <1>3. CASE release # "done" /\ ~DeleteContext
    BY <1>3, ReleaseWorkerStep DEF ReleaseInv, ReleaseWaitsForCallbacks
  <1>4. QED BY <1>1, <1>2, <1>3

-----------------------------------------------------------------------------
(* The callbacks the RequestManager keeps, and stop()                      *)

LEMMA JsMoves ==
  ASSUME StopsTyped, Next
  PROVE  \/ UNCHANGED <<js, asked, stale_stop>>
         \/ \E r \in Request : StopRequest(r)
         \/ /\ AnnounceStop /\ js.at = "cancelled" /\ js'.at = "told"
            /\ js'.result = js.result /\ js'.of = js.of /\ UNCHANGED <<asked, stale_stop>>
         \/ FinishStop /\ js.at # "idle" /\ js'.at = "idle" /\ UNCHANGED <<asked, stale_stop>>
  <1> DEFINE goal == \/ UNCHANGED <<js, asked, stale_stop>>
                     \/ \E r \in Request : StopRequest(r)
                     \/ /\ AnnounceStop /\ js.at = "cancelled" /\ js'.at = "told"
                        /\ js'.result = js.result /\ js'.of = js.of
                        /\ UNCHANGED <<asked, stale_stop>>
                     \/ /\ FinishStop /\ js.at # "idle" /\ js'.at = "idle"
                        /\ UNCHANGED <<asked, stale_stop>>
  <1>1. CASE UNCHANGED <<js, asked, stale_stop>> \/ \E r \in Request : StopRequest(r)
    BY <1>1
  <1>2. CASE AnnounceStop
    <2>1. js.at = "cancelled" /\ js' = [js EXCEPT !.at = "told"] /\ UNCHANGED <<asked, stale_stop>>
      BY <1>2 DEF AnnounceStop
    <2>2. js \in [at : {"cancelled", "told"}, result : {"ACTIVE", "QUEUED"}, of : Request]
      BY <2>1 DEF StopsTyped, JsState
    <2>3. js'.at = "told" /\ js'.result = js.result /\ js'.of = js.of
      BY <2>1, <2>2
    <2>4. QED BY <1>2, <2>1, <2>3
  <1>3. CASE FinishStop
    BY <1>3 DEF FinishStop
  <1>4. QED
    BY <1>1, <1>2, <1>3 DEF Next, Application, JsThread, update_slots, ReleaseContext, Job,
        vars, DeleteManager, subscribeToStatus, Unsubscribe, CallQueue, StartJob, JobFails,
        QueueRequest, AnnounceQueued, EndJob, RunCallback, BeginUpdate, Admit, Admitted,
        DecodeBatch, DecodeBatchFails, SampleAndRelease, AnnounceUpdate, EndUpdate,
        disableParallelMode, configure, enableParallelMode, CallRelease, clearContext,
        stop_processing_loop, DeleteContext, engine, slotVars, feed, promises, context, stops,
        jobs, worker

\* Whom stop() finds under the id: the request itself, unless the id is of an earlier manager.
LEMMA StopFinds ==
  ASSUME EngineInv, StopsTyped, NEW r \in Request, NEW q \in Request, StopRequest(r),
         id[q] = id[r], status[q] \in {"waiting", "running"}
  PROVE  Stopped(q)'
  <1>1. q \in Served
    BY DEF EngineInv, KnownInv
  <1>2. r \in former \/ r = q
    BY <1>1 DEF EngineInv, IdsInv, Served, Started
  <1>3. QED BY <1>2 DEF StopRequest, Stopped

LEMMA StopsRemain ==
  ASSUME StopsTyped, Next, NEW r, Stopped(r)
  PROVE  Stopped(r)'
  <1>1. CASE \E q \in Request : StopRequest(q)
    BY <1>1 DEF Stopped, StopRequest
  <1>2. QED BY <1>1, JsMoves DEF Stopped

LEMMA StopStep ==
  ASSUME TypeInv, StopInv, Next
  PROVE  StopInv'
  <1>1. EngineInv /\ StopsTyped /\ EngineTyped /\ WaitingInv /\ IdsTyped
    BY DEF TypeInv, EngineInv
  <1>2. \A r \in Request : status[r] = "withdrawn" /\ js.at # "idle" => status'[r] = "withdrawn"
    BY <1>1, StatusesMove DEF StatusMoves, DeleteManager
  <1>3. ASSUME NEW r \in Request, StopRequest(r)
        PROVE  StopInv'
    <2>1. js.at = "idle"
      BY <1>3 DEF StopRequest
    <2>2. CASE UNCHANGED <<js, interrupted, engine>>
      BY <1>1, <2>1, <2>2, StopsRemain DEF StopInv, Withdrawing
    <2>3. ASSUME NEW q \in Request, id[q] = id[r], status[q] = "running",
                 interrupted' = interrupted \cup {q}, UNCHANGED engine,
                 js' = [at |-> "cancelled", result |-> "ACTIVE", of |-> q]
          PROVE  StopInv'
      <3>1. Stopped(q)'
        BY <1>1, <1>3, <2>3, StopFinds
      <3>2. js'.at # "idle" /\ js'.of = q /\ js'.result # "QUEUED"
        BY <2>3
      <3>3. \A p \in interrupted' : Stopped(p)'
        BY <1>1, <2>3, <3>1, StopsRemain DEF StopInv
      <3>4. \A p \in Request : ~Withdrawing(p)'
        BY <3>2 DEF Withdrawing
      <3>5. QED BY <3>1, <3>2, <3>3, <3>4 DEF StopInv
    <2>4. ASSUME NEW q \in Request, id[q] = id[r], Engine!Withdraw(q), UNCHANGED interrupted,
                 js' = [at |-> "cancelled", result |-> "QUEUED", of |-> q]
          PROVE  StopInv'
      <3>1. status[q] = "waiting" /\ status'[q] = "withdrawn"
        BY <1>1, <2>4, WithdrawWorks
      <3>2. Stopped(q)'
        BY <1>1, <1>3, <2>4, <3>1, StopFinds
      <3>3. js'.at # "idle" /\ js'.of = q
        BY <2>4
      <3>4. \A p \in interrupted' : Stopped(p)'
        BY <1>1, <2>4, StopsRemain DEF StopInv
      <3>5. \A p \in Request : Withdrawing(p)' => p = q
        BY <3>3 DEF Withdrawing
      <3>6. QED BY <3>1, <3>2, <3>3, <3>4, <3>5 DEF StopInv
    <2>5. QED BY <1>1, <1>3, <2>2, <2>3, <2>4, StopWorks
  <1>4. CASE ~\E r \in Request : StopRequest(r)
    <2>1. interrupted' \subseteq interrupted
      <3>1. CASE UNCHANGED interrupted
        BY <3>1
      <3>2. CASE BeginUpdate \/ DecodeBatchFails \/ SampleAndRelease
        BY <1>1, <3>2, UpdateEnds, EndsWork
      <3>3. CASE DeleteManager
        BY <3>3 DEF DeleteManager
      <3>4. QED BY <1>4, <3>1, <3>2, <3>3, EngineChanges
            DEF EngineSteps, QueueRequest, Admit, slotVars
    <2>2. \A r \in interrupted' : Stopped(r)'
      BY <1>1, <2>1, StopsRemain DEF StopInv
    <2>3. js'.at # "idle" => /\ js.at # "idle" /\ js'.result = js.result /\ js'.of = js.of
      BY <1>1, <1>4, JsMoves
    <2>4. js'.at # "idle" => Stopped(js.of)'
      BY <1>1, <2>3, StopsRemain DEF StopInv
    <2>5. \A r \in Request : Withdrawing(r)' => status'[r] = "withdrawn"
      BY <1>2, <2>3 DEF StopInv, Withdrawing
    <2>6. QED BY <2>2, <2>4, <2>5 DEF StopInv
  <1>5. QED BY <1>3, <1>4

LEMMA IdsMove ==
  ASSUME Next
  PROVE  /\ UNCHANGED id \/ \E r \in Request : StartJob(r)
         /\ UNCHANGED former \/ DeleteManager
         /\ UNCHANGED release \/ release' \notin {"no", "posted"} \/ release = "no"
  <1> DEFINE goal == /\ UNCHANGED id \/ \E r \in Request : StartJob(r)
                     /\ UNCHANGED former \/ DeleteManager
                     /\ UNCHANGED release \/ release' \notin {"no", "posted"} \/ release = "no"
  <1>1. CASE UNCHANGED <<id, former, release>>
    BY <1>1
  <1>2. ASSUME NEW r \in Request, StartJob(r)
        PROVE  goal
    BY <1>2 DEF StartJob, context
  <1>3. CASE DeleteManager
    BY <1>3 DEF DeleteManager
  <1>4. CASE CallRelease \/ ReleaseContext
    BY <1>4 DEF CallRelease, ReleaseContext, clearContext, stop_processing_loop, DeleteContext, jobs
  <1>5. QED
    BY <1>1, <1>2, <1>3, <1>4 DEF Next, Application, JsThread, update_slots, Job, vars,
        subscribeToStatus, Unsubscribe, CallQueue, JobFails, QueueRequest, AnnounceQueued,
        EndJob, RunCallback, StopRequest, AnnounceStop, FinishStop, BeginUpdate, Admit,
        Admitted, DecodeBatch, DecodeBatchFails, SampleAndRelease, AnnounceUpdate, EndUpdate,
        disableParallelMode, configure, enableParallelMode, engine, slotVars, feed, promises,
        context, stops, jobs, worker

\* The callbacks of the requests A are taken.
Takes(A) ==
  requests' = [i \in Id |-> IF i \in {id[r] : r \in A} THEN NoRequest ELSE requests[i]]

LEMMA TakesOwn ==
  ASSUME EngineInv, NEW A \in SUBSET Served, Takes(A)
  PROVE  /\ \A i \in Id : requests'[i] \in {NoRequest, requests[i]}
         /\ \A r \in Served : id[r] \in Id
              /\ requests'[id[r]] = IF r \in A THEN NoRequest ELSE requests[id[r]]
  BY IdOfServed DEF Takes, EngineInv

\* What FinishStop takes: the callbacks of the request it withdraws, if they are still kept.
LEMMA StopTakes ==
  ASSUME TypeInv, HeldInv, StopInv, FinishStop
  PROVE  \E A \in SUBSET Served :
           /\ Takes(A)
           /\ \A r \in A : Withdrawing(r)
           /\ \A r \in Request : Withdrawing(r) /\ Held(r) => r \in A
  <1> DEFINE c == CancelledCallbacks
             A == {c} \ {NoRequest}
  <1>1. Takes(A)
    BY DEF FinishStop, takeRequests, Takes
  <1>2. js.at # "idle" /\ js.of \in Request
    BY JsFields DEF FinishStop, TypeInv, StopsTyped
  <1>3. CASE js.result = "QUEUED"
    <2>1. Withdrawing(js.of) /\ c = getRequest(js.of)
      BY <1>2, <1>3 DEF Withdrawing, CancelledCallbacks
    <2>2. js.of \in Served
      BY <1>2, <2>1 DEF StopInv, TypeInv, EngineInv, KnownInv
    <2>3. c \in {js.of, NoRequest} /\ NoRequest \notin Request
      BY <2>1, <2>2, ParallelRequestsAssumption DEF HeldInv
    <2>4. \A r \in Request : Withdrawing(r) => r = js.of
      BY DEF Withdrawing
    <2>5. A \in SUBSET Served /\ \A r \in A : Withdrawing(r)
      BY <2>1, <2>2, <2>3
    <2>6. \A r \in Request : Withdrawing(r) /\ Held(r) => r \in A
      BY <1>2, <2>1, <2>3, <2>4 DEF Held
    <2>7. QED BY <1>1, <2>5, <2>6
  <1>4. CASE js.result # "QUEUED"
    <2>1. c = NoRequest /\ \A r \in Request : ~Withdrawing(r)
      BY <1>4 DEF CancelledCallbacks, Withdrawing
    <2>2. QED BY <1>1, <2>1
  <1>5. QED BY <1>3, <1>4

\* How the kept callbacks change.
LEMMA RequestsMove ==
  ASSUME TypeInv, HeldInv, StopInv, Next
  PROVE  \/ UNCHANGED requests /\ ~AnsweringStep /\ ~FinishStop
         \/ UNCHANGED requests /\ AnsweringStep /\ AnsweredNow = {}
         \/ \E r \in Request : StartJob(r)
         \/ clearContext /\ \A i \in Id : requests'[i] = NoRequest
         \/ AnsweringStep /\ AnsweredNow \subseteq Served /\ Takes(AnsweredNow)
         \/ /\ FinishStop
            /\ \E A \in SUBSET Served :
                 /\ Takes(A)
                 /\ \A r \in A : Withdrawing(r)
                 /\ \A r \in Request : Withdrawing(r) /\ Held(r) => r \in A
  <1>1. CASE AnsweringStep
    <2>1. ASSUME NEW T \in SUBSET Request, NEW A \in SUBSET Request, Answering(T, A)
          PROVE  AnsweredNow \subseteq Served /\ Takes(AnsweredNow)
      <3>1. /\ T \in SUBSET Served /\ A \in SUBSET Served /\ Answer(T, A)
            /\ A = AnsweredNow
        BY <2>1 DEF Answering, Running, Engine!RunningRequests, TypeInv, EngineInv, KnownInv
      <3>2. QED BY <3>1, AnswerSends DEF TypeInv, EngineInv, Takes
    <2>2. QED BY <1>1, <2>1, Answers DEF TypeInv
  <1>2. CASE FinishStop
    BY <1>2, StopTakes
  <1>3. CASE clearContext
    BY <1>3 DEF clearContext, takeRequests
  <1>4. CASE ~AnsweringStep /\ ~FinishStop /\ ~clearContext
    BY <1>4, CallbackChanges DEF TypeInv
  <1>5. QED BY <1>1, <1>2, <1>3, <1>4

\* Starting a job puts its callbacks under an id nobody else has.
LEMMA StartWorksOn ==
  ASSUME TypeInv, HeldInv, NEW r \in Request, StartJob(r)
  PROVE  /\ Held(r)' /\ r \notin former /\ ~Started(r) /\ id'[r] \in Id
         /\ \A q \in Request \ {r} : id'[q] = id[q]
         /\ \A i \in Id : requests'[i] = IF i = id'[r] THEN r ELSE requests[i]
         /\ \A q \in Served : q # r /\ id[q] # id'[r] /\ id[q] \in Id
         /\ stage'[r] = "registered"
         /\ UNCHANGED <<status, former, js, release, inner, asked, stale_stop, late_token>>
  <1>1. /\ id' = [id EXCEPT ![r] = next_request_id]
        /\ requests' = [requests EXCEPT ![next_request_id] = r]
        /\ stage' = [stage EXCEPT ![r] = "registered"] /\ stage[r] = "posted"
        /\ UNCHANGED <<status, former, js, release, inner, asked, stale_stop, late_token>>
    BY DEF StartJob, addRequest, MoveTo, engine, context, stops, promises
  <1>2. r \notin former /\ ~Started(r) /\ next_request_id \in Id
    <2>1. r \notin former /\ ~Started(r)
      BY <1>1 DEF TypeInv, EngineInv, IdsInv
    <2>2. QED BY <2>1, NextIdIsFree DEF TypeInv, EngineInv
  <1>3. /\ id'[r] = next_request_id /\ stage'[r] = "registered"
        /\ \A q \in Request \ {r} : id'[q] = id[q]
        /\ \A i \in Id : requests'[i] = IF i = next_request_id THEN r ELSE requests[i]
    BY <1>1, <1>2 DEF TypeInv, EngineInv, IdsTyped, CallbacksTyped
  <1>4. \A q \in Served : q # r /\ id[q] # next_request_id /\ id[q] \in Id
    <2>1. \A q \in Served : id[q] < next_request_id /\ id[q] \in Id /\ next_request_id \in Nat
      BY <1>2, IdOfServed DEF TypeInv, EngineInv, IdsInv, IdsTyped, Served
    <2>2. QED BY <1>2, <2>1, RequestsCounted DEF Served, Id
  <1>5. next_request_id # 0
    BY <1>2, RequestsCounted DEF Id
  <1>6. QED BY <1>1, <1>2, <1>3, <1>4, <1>5 DEF Held, Started, getRequest

LEMMA HeldMoves ==
  ASSUME TypeInv, HeldInv, StopInv, Next, NEW r \in Request, Held(r)'
  PROVE  Held(r) \/ StartJob(r)
  <1>1. ASSUME NEW q \in Request, StartJob(q), q # r
        PROVE  Held(r)
    <2>1. id'[r] = id[r] /\ id'[q] \in Id
      BY <1>1, StartWorksOn
    <2>2. id[r] \in Id /\ requests'[id[r]] = r
      BY <2>1 DEF Held, Started, getRequest, TypeInv, EngineInv, IdsTyped
    <2>3. requests[id[r]] = r
      BY <1>1, <2>2, StartWorksOn
    <2>4. QED BY <2>1, <2>3 DEF Held, Started, getRequest
  <1>2. CASE ~\E q \in Request : StartJob(q)
    <2>1. id' = id
      BY <1>2, IdsMove
    <2>2. id[r] \in Id /\ requests'[id[r]] = r /\ r # NoRequest
      BY <2>1, ParallelRequestsAssumption
      DEF Held, Started, getRequest, TypeInv, EngineInv, IdsTyped
    <2>3. \A i \in Id : requests'[i] \in {NoRequest, requests[i]}
      BY <1>2, RequestsMove, TakesOwn DEF TypeInv
    <2>4. QED BY <2>1, <2>2, <2>3 DEF Held, Started, getRequest
  <1>3. QED BY <1>1, <1>2

LEMMA TakenNotHeld ==
  ASSUME TypeInv, HeldInv, StopInv, Next, NEW r \in Served,
         r \in AnsweredNow \/ (FinishStop /\ Withdrawing(r))
  PROVE  ~Held(r)'
  <1>1. r \in Request /\ r # NoRequest
    BY ParallelRequestsAssumption DEF Served
  <1>2. ~Held(r) \/ \E A \in SUBSET Served : r \in A /\ Takes(A)
    <2>1. CASE FinishStop /\ Withdrawing(r)
      BY <1>1, <2>1, StopTakes
    <2>2. CASE r \in AnsweredNow
      <3>1. AnsweringStep
        <4>1. status'[r] = "answered" /\ status[r] # "answered" /\ ~DeleteManager
          BY <2>2 DEF AnsweredNow, DeleteManager
        <4>2. ~\E q \in Request : StopRequest(q)
          BY <1>1, <4>1, StopWorks, WithdrawWorks DEF TypeInv, EngineInv, engine
        <4>3. QED BY <4>1, <4>2, EngineChanges DEF EngineSteps, AnsweringStep
      <3>2. ASSUME NEW T \in SUBSET Request, NEW A \in SUBSET Request, Answering(T, A)
            PROVE  AnsweredNow \subseteq Served /\ Takes(AnsweredNow)
        <4>1. /\ T \in SUBSET Served /\ A \in SUBSET Served /\ Answer(T, A)
              /\ A = AnsweredNow
          BY <3>2 DEF Answering, Running, Engine!RunningRequests, TypeInv, EngineInv, KnownInv
        <4>2. QED BY <4>1, AnswerSends DEF TypeInv, EngineInv, Takes
      <3>3. QED BY <2>2, <3>1, <3>2, Answers DEF TypeInv
    <2>3. QED BY <2>1, <2>2
  <1>3. ~StartJob(r)
    <2>1. Started(r)
      BY DEF Served
    <2>2. QED BY <1>1, <2>1, StartWorksOn
  <1>4. CASE ~Held(r)
    BY <1>1, <1>3, <1>4, HeldMoves
  <1>5. ASSUME NEW A \in SUBSET Served, r \in A, Takes(A)
        PROVE  ~Held(r)'
    <2>1. CASE UNCHANGED id
      BY <1>1, <1>5, <2>1, TakesOwn DEF Held, getRequest, TypeInv
    <2>2. ASSUME NEW q \in Request, StartJob(q)
          PROVE  ~Held(r)'
      <3>1. status' = status /\ js' = js
        BY <2>2, StartWorksOn
      <3>2. ~FinishStop /\ r \notin AnsweredNow
        BY <3>1, JsFields DEF FinishStop, AnsweredNow, TypeInv, StopsTyped
      <3>3. QED BY <3>2
    <2>3. QED BY <2>1, <2>2, IdsMove
  <1>6. QED BY <1>2, <1>4, <1>5

\* The reply to the job of r is called.
Replied(r) ==
  RunCallback /\ Head(callbacks).kind = "queued" /\ Head(callbacks).of = r

LEMMA RegisteredMoves ==
  ASSUME IdsTyped, Next, NEW r \in Request, ~StartJob(r)
  PROVE  /\ stage'[r] = "registered" => stage[r] = "registered"
         /\ stage[r] = "registered" => stage'[r] = "registered" \/ QueueRequest(r) \/ Replied(r)
         /\ stage[r] = "returned" => stage'[r] = "returned" \/ Replied(r)
  <1> DEFINE goal == /\ stage'[r] = "registered" => stage[r] = "registered"
                     /\ stage[r] = "registered" =>
                          stage'[r] = "registered" \/ QueueRequest(r) \/ Replied(r)
                     /\ stage[r] = "returned" => stage'[r] = "returned" \/ Replied(r)
  <1>1. CASE UNCHANGED stage
    BY <1>1
  <1>2. ASSUME NEW q \in Request, CallQueue(q)
        PROVE  goal
    BY <1>2 DEF CallQueue, MoveTo, IdsTyped
  <1>3. ASSUME NEW q \in Request, StartJob(q)
        PROVE  goal
    BY <1>3 DEF StartJob, MoveTo, IdsTyped
  <1>4. ASSUME NEW q \in Request, JobFails(q)
        PROVE  goal
    BY <1>4 DEF JobFails, MoveTo, IdsTyped
  <1>5. ASSUME NEW q \in Request, QueueRequest(q)
        PROVE  goal
    BY <1>5 DEF QueueRequest, MoveTo, IdsTyped
  <1>6. ASSUME NEW q \in Request, AnnounceQueued(q)
        PROVE  goal
    BY <1>6 DEF AnnounceQueued, MoveTo, IdsTyped
  <1>7. ASSUME NEW q \in Request, EndJob(q)
        PROVE  goal
    BY <1>7 DEF EndJob, MoveTo, IdsTyped
  <1>8. CASE RunCallback
    BY <1>8 DEF RunCallback, MoveTo, IdsTyped, Replied
  <1>9. QED
    BY <1>1, <1>2, <1>3, <1>4, <1>5, <1>6, <1>7, <1>8 DEF Next, Application, JsThread,
        update_slots, ReleaseContext, Job, vars, DeleteManager, subscribeToStatus, Unsubscribe,
        StopRequest, AnnounceStop, FinishStop, BeginUpdate, Admit, Admitted, DecodeBatch,
        DecodeBatchFails, SampleAndRelease, AnnounceUpdate, EndUpdate, disableParallelMode,
        configure, enableParallelMode, CallRelease, clearContext, stop_processing_loop,
        DeleteContext, engine, slotVars, feed, promises, context, stops, jobs, worker

LEMMA HeldFirst ==
  ASSUME TypeInv, HeldInv, StopInv, Next
  PROVE  /\ \A i \in Id : requests'[i] # NoRequest => id'[requests'[i]] = i
         /\ \A r \in Served' : getRequest(r)' \in {r, NoRequest}
  <1>1. ASSUME NEW r \in Request, StartJob(r)
        PROVE  /\ \A i \in Id : requests'[i] # NoRequest => id'[requests'[i]] = i
               /\ \A q \in Served' : getRequest(q)' \in {q, NoRequest}
    <2>1. /\ \A q \in Request \ {r} : id'[q] = id[q]
          /\ \A i \in Id : requests'[i] = IF i = id'[r] THEN r ELSE requests[i]
          /\ \A q \in Served : q # r /\ id[q] # id'[r] /\ id[q] \in Id
          /\ id'[r] \in Id /\ UNCHANGED former /\ id[r] = 0
      BY <1>1, StartWorksOn DEF Started
    <2>2. ASSUME NEW i \in Id, requests'[i] # NoRequest, i # id'[r]
          PROVE  id'[requests'[i]] = i
      <3>1. requests'[i] = requests[i] /\ id[requests[i]] = i /\ requests[i] \in Request
        BY <2>1, <2>2 DEF HeldInv, TypeInv, CallbacksTyped
      <3>2. requests[i] # r
        BY <2>1, <3>1 DEF Id
      <3>3. QED BY <2>1, <3>1, <3>2
    <2>3. \A i \in Id : requests'[i] # NoRequest => id'[requests'[i]] = i
      BY <2>1, <2>2
    <2>4. \A q \in Served' : q = r \/ (q \in Served /\ id'[q] = id[q])
      BY <2>1 DEF Served, Started
    <2>5. \A q \in Served' : requests'[id'[q]] \in {q, NoRequest}
      BY <2>1, <2>4 DEF HeldInv, getRequest
    <2>6. QED BY <2>3, <2>5 DEF getRequest
  <1>2. CASE ~\E r \in Request : StartJob(r)
    <2>1. UNCHANGED id /\ \A i \in Id : requests'[i] \in {NoRequest, requests[i]}
      BY <1>2, IdsMove, RequestsMove, TakesOwn DEF TypeInv
    <2>2. \A r \in Served' : r \in Served
      BY <2>1, IdsMove, ManagerDeleted DEF Served, Started, TypeInv, EngineInv
    <2>3. \A r \in Served : id[r] \in Id
      BY IdOfServed DEF TypeInv, EngineInv
    <2>4. \A r \in Served' : requests'[id'[r]] \in {r, NoRequest}
      BY <2>1, <2>2, <2>3 DEF HeldInv, getRequest
    <2>5. QED BY <2>1, <2>4 DEF HeldInv, getRequest
  <1>3. QED BY <1>1, <1>2

LEMMA HeldSecond ==
  ASSUME TypeInv, HeldInv, StopInv, Next, release' \in {"no", "posted"}, NEW r \in Request,
         Owed(r)' \/ stage'[r] = "registered"
  PROVE  Held(r)'
  <1>1. CASE StartJob(r)
    BY <1>1, StartWorksOn
  <1>2. CASE ~StartJob(r)
    <2>1. release \in {"no", "posted"}
      BY IdsMove
    <2>2. Owed(r) \/ stage[r] = "registered"
      <3>1. CASE stage'[r] = "registered"
        BY <1>2, <3>1, RegisteredMoves DEF TypeInv, EngineInv
      <3>2. CASE Owed(r)'
        BY <3>2, StatusesMove DEF StatusMoves, Owed, QueueRequest, TypeInv, EngineInv
      <3>3. QED BY <3>1, <3>2
    <2>3. Held(r) /\ r \in Served
      BY <2>1, <2>2 DEF HeldInv, Owed, TypeInv, EngineInv, KnownInv, IdsInv, Served
    <2>4. status'[r] \notin {"answered", "withdrawn"}
      <3>1. EngineInv'
        BY EngineInvStep DEF TypeInv
      <3>2. QED BY <3>1 DEF Owed, EngineInv, KnownInv
    <2>5. ~clearContext
      BY DEF clearContext
    <2>6. ASSUME NEW A \in SUBSET Served, Takes(A), r \notin A, UNCHANGED id
          PROVE  Held(r)'
      BY <2>3, <2>6, TakesOwn DEF Held, Started, getRequest, TypeInv
    <2>7. ASSUME NEW q \in Request, StartJob(q)
          PROVE  Held(r)'
      <3>1. /\ id'[r] = id[r] /\ id[r] # id'[q] /\ id[r] \in Id
            /\ requests'[id[r]] = requests[id[r]]
        BY <1>2, <2>3, <2>7, StartWorksOn
      <3>2. QED BY <2>3, <3>1 DEF Held, Started, getRequest
    <2>8. CASE AnsweringStep /\ AnsweredNow \subseteq Served /\ Takes(AnsweredNow)
      <3>1. r \notin AnsweredNow
        BY <2>4 DEF AnsweredNow
      <3>2. QED BY <2>6, <2>7, <2>8, <3>1, IdsMove
    <2>9. ASSUME FinishStop, NEW A \in SUBSET Served, Takes(A), \A q \in A : Withdrawing(q)
          PROVE  Held(r)'
      <3>1. UNCHANGED <<status, id>>
        BY <2>9 DEF FinishStop, engine, jobs
      <3>2. r \notin A
        BY <2>4, <2>9, <3>1 DEF StopInv
      <3>3. QED BY <2>6, <2>9, <3>1, <3>2
    <2>10. CASE UNCHANGED requests
      BY <2>3, <2>7, <2>10, IdsMove DEF Held, Started, getRequest
    <2>11. QED BY <2>5, <2>7, <2>8, <2>9, <2>10, RequestsMove
  <1>3. QED BY <1>1, <1>2

LEMMA HeldThird ==
  ASSUME TypeInv, HeldInv, StopInv, RepliesInv, Next, NEW r \in Request, Held(r)'
  PROVE  \/ stage'[r] = "registered" \/ Owed(r)' \/ status'[r] = "dropped" \/ r \in former'
         \/ status'[r] = "withdrawn" /\ Withdrawing(r)'
  <1>0. EngineInv /\ IdsTyped /\ IdsInv /\ EngineTyped /\ WaitingInv /\ StopsTyped
    BY DEF TypeInv, EngineInv
  <1>1. CASE StartJob(r)
    BY <1>1, StartWorksOn
  <1>2. CASE r \in former
    BY <1>0, <1>2, IdsMove, ManagerDeleted
  <1>3. CASE ~StartJob(r) /\ r \notin former
    <2>1. Held(r)
      BY <1>3, HeldMoves
    <2>2. r \in Served
      BY <1>3, <2>1 DEF Held, Served
    <2>3. status'[r] = "answered" => status[r] = "answered"
      BY <2>2, TakenNotHeld DEF AnsweredNow
    <2>4. StatusMoves(r)
      BY <1>0, StatusesMove
    <2>5. CASE DeleteManager
      BY <1>0, <2>2, <2>5, ManagerDeleted DEF DeleteManager, IdsInv, Served
    <2>6. CASE ~DeleteManager /\ stage[r] = "registered"
      <3>1. CASE stage'[r] # "registered"
        <4>1. ~Replied(r)
          BY <2>6, HeadAndTail
          DEF Replied, RunCallback, RepliesInv, TypeInv, CallbacksTyped, IsQueued
        <4>2. QueueRequest(r)
          BY <1>0, <1>3, <2>6, <3>1, <4>1, RegisteredMoves
        <4>3. QED BY <1>0, <2>3, <4>2, SubmitWorks DEF Owed
      <3>2. QED BY <3>1
    <2>7. CASE ~DeleteManager /\ Owed(r)
      <3>1. CASE status[r] = "waiting" /\ status'[r] = "withdrawn"
        <4>1. /\ status' # status /\ ~\E q \in Request : QueueRequest(q) /\ q = r
              /\ \E q \in Request : StopRequest(q)
          <5>1. ~AnsweringStep
            <6> SUFFICES ASSUME AnsweringStep
                         PROVE  FALSE
              OBVIOUS
            <6>1. ASSUME NEW q \in Request, QueueRequest(q)
                  PROVE  FALSE
              BY <1>0, <3>1, <6>1, SubmitWorks
            <6>2. CASE Admit
              BY <1>0, <3>1, <6>2, StartWorks
            <6>3. CASE BeginUpdate \/ DecodeBatchFails \/ SampleAndRelease
              BY <1>0, <3>1, <6>3, UpdateEnds, EndsWork
            <6>4. QED BY <6>1, <6>2, <6>3 DEF AnsweringStep
          <5>2. QED BY <2>7, <3>1, <5>1, EngineChanges DEF EngineSteps, AnsweringStep, QueueRequest
        <4>2. PICK q \in Request : StopRequest(q)
          BY <4>1
        <4>3. PICK p \in Request :
                     /\ Engine!Withdraw(p)
                     /\ js' = [at |-> "cancelled", result |-> "QUEUED", of |-> p]
          BY <1>0, <4>1, <4>2, StopWorks DEF engine
        <4>4. p = r
          BY <1>0, <3>1, <4>3, WithdrawWorks
        <4>5. QED BY <3>1, <4>3, <4>4 DEF Withdrawing
      <3>2. QED BY <2>3, <2>4, <2>7, <3>1 DEF StatusMoves, Owed
    <2>8. CASE ~DeleteManager /\ status[r] = "dropped"
      BY <2>4, <2>8 DEF StatusMoves
    <2>9. CASE ~DeleteManager /\ status[r] = "withdrawn" /\ Withdrawing(r)
      <3>1. ~FinishStop
        BY <2>2, <2>9, TakenNotHeld
      <3>2. js.at # "idle" /\ ~\E q \in Request : StopRequest(q)
        BY <2>9 DEF Withdrawing, StopRequest
      <3>3. Withdrawing(r)'
        BY <1>0, <2>9, <3>1, <3>2, JsMoves DEF Withdrawing
      <3>4. QED BY <2>4, <2>9, <3>3 DEF StatusMoves
    <2>10. QED BY <1>3, <2>1, <2>5, <2>6, <2>7, <2>8, <2>9 DEF HeldInv
  <1>4. QED BY <1>1, <1>2, <1>3

LEMMA HeldStep ==
  ASSUME TypeInv, HeldInv, StopInv, RepliesInv, Next
  PROVE  HeldInv'
  BY HeldFirst, HeldSecond, HeldThird DEF HeldInv

-----------------------------------------------------------------------------
(* The callbacks on their way                                              *)

LEMMA Appended ==
  ASSUME NEW S, NEW q \in Seq(S), NEW m \in S
  PROVE  /\ Len(q) + 1 \in DOMAIN Append(q, m) /\ Append(q, m)[Len(q) + 1] = m
         /\ Len(q) + 1 \notin DOMAIN q
         /\ \A i \in DOMAIN Append(q, m) :
              \/ i \in DOMAIN q /\ Append(q, m)[i] = q[i]
              \/ i = Len(q) + 1
  OBVIOUS

LEMMA RepliesStep ==
  ASSUME TypeInv, RepliesInv, Next
  PROVE  RepliesInv'
  <1>0. EngineInv /\ IdsTyped /\ CallbacksTyped /\ callbacks \in Seq(Message)
    BY DEF TypeInv, EngineInv, CallbacksTyped
  <1>1. \A r \in Request : stage[r] = "returned" /\ ~Replied(r) => stage'[r] = "returned"
    BY <1>0, RegisteredMoves DEF StartJob
  <1>2. \A i \in DOMAIN callbacks : callbacks[i].of \in Request
    BY <1>0, MessageFields
  <1>3. CASE RunCallback
    <2>1. /\ callbacks' = Tail(callbacks) /\ 1 \in DOMAIN callbacks
          /\ Head(callbacks) = callbacks[1]
          /\ \A i \in DOMAIN callbacks' : /\ i \in Nat \ {0} /\ i + 1 \in DOMAIN callbacks
                                          /\ callbacks'[i] = callbacks[i + 1]
      BY <1>0, <1>3, HeadAndTail DEF RunCallback
    <2>2. ASSUME NEW i \in DOMAIN callbacks', callbacks'[i].kind = "queued"
          PROVE  stage'[callbacks'[i].of] = "returned"
      <3>1. /\ i + 1 \in DOMAIN callbacks /\ callbacks'[i] = callbacks[i + 1] /\ i + 1 # 1
            /\ callbacks[i + 1].kind = "queued"
        BY <2>1, <2>2
      <3>2. ~Replied(callbacks[i + 1].of)
        BY <2>1, <3>1 DEF RepliesInv, IsQueued, Replied
      <3>3. QED BY <1>1, <1>2, <3>1, <3>2 DEF RepliesInv, IsQueued
    <2>3. ASSUME NEW i \in DOMAIN callbacks', NEW j \in DOMAIN callbacks',
                 callbacks'[i].kind = "queued", callbacks'[j].kind = "queued",
                 callbacks'[i].of = callbacks'[j].of
          PROVE  i = j
      <3>1. i + 1 = j + 1
        BY <2>1, <2>3 DEF RepliesInv, IsQueued
      <3>2. QED BY <2>1, <3>1
    <2>4. QED BY <2>2, <2>3 DEF RepliesInv, IsQueued
  <1>4. CASE ~RunCallback
    <2>0. \A r \in Request : stage[r] = "returned" => stage'[r] = "returned"
      BY <1>1, <1>4 DEF Replied
    <2>1. CASE UNCHANGED callbacks
      BY <1>2, <2>0, <2>1 DEF RepliesInv, IsQueued
    <2>2. ASSUME NEW r \in Request, NEW ok \in BOOLEAN, JobFails(r) \/ EndJob(r),
                 callbacks' = Append(callbacks, Reply(r, ok))
          PROVE  RepliesInv'
      <3>1. stage[r] # "returned" /\ stage'[r] = "returned"
        BY <1>0, <2>2 DEF JobFails, EndJob, MoveTo, IdsTyped
      <3>2. Reply(r, ok) \in Message /\ Reply(r, ok).of = r
        BY ReplyFields
      <3>3. /\ callbacks'[Len(callbacks) + 1] = Reply(r, ok)
            /\ \A i \in DOMAIN callbacks' :
                 \/ i \in DOMAIN callbacks /\ callbacks'[i] = callbacks[i]
                 \/ i = Len(callbacks) + 1
        BY <1>0, <2>2, <3>2, Appended
      <3>4. \A i \in DOMAIN callbacks : IsQueued(i) => callbacks[i].of # r
        BY <3>1 DEF RepliesInv
      <3>5. \A i \in DOMAIN callbacks' : callbacks'[i].kind = "queued" =>
              stage'[callbacks'[i].of] = "returned"
        BY <1>2, <2>0, <3>1, <3>2, <3>3 DEF RepliesInv, IsQueued
      <3>6. ASSUME NEW i \in DOMAIN callbacks', NEW j \in DOMAIN callbacks',
                   callbacks'[i].kind = "queued", callbacks'[j].kind = "queued",
                   callbacks'[i].of = callbacks'[j].of
            PROVE  i = j
        BY <3>2, <3>3, <3>4, <3>6 DEF RepliesInv, IsQueued
      <3>7. QED BY <3>5, <3>6 DEF RepliesInv, IsQueued
    <2>3. ASSUME NEW T \in SUBSET Request, NEW A \in SUBSET Request, Answering(T, A)
          PROVE  RepliesInv'
      <3>1. T \in SUBSET Served /\ A \in SUBSET Served /\ Answer(T, A)
        BY <2>3 DEF Answering, Running, Engine!RunningRequests, TypeInv, EngineInv, KnownInv
      <3>2. PICK M \in Seq(Message) : callbacks' = callbacks \o M /\ Sends(M, T, A)
        BY <1>0, <3>1, AnswerSends DEF EngineInv
      <3>3. \A i \in DOMAIN M : M[i].kind # "queued"
        BY <3>2 DEF Sends
      <3>4. \A i \in DOMAIN callbacks' : callbacks'[i].kind = "queued" =>
              i \in DOMAIN callbacks /\ callbacks'[i] = callbacks[i]
        BY <1>0, <3>2, <3>3, Joined
      <3>5. QED BY <1>2, <2>0, <3>4 DEF RepliesInv, IsQueued
    <2>4. QED BY <1>0, <1>4, <2>1, <2>2, <2>3, CallbackChanges, Answers
  <1>5. QED BY <1>3, <1>4

\* When the results are delivered: by the JS thread, from the queue or in stop().
LEMMA InnerMoves ==
  ASSUME Next
  PROVE  \/ UNCHANGED <<inner, late_token>>
         \/ RunCallback
         \/ FinishStop /\ CancelledCallbacks \in Completion /\ UNCHANGED late_token
              /\ Settle(CancelledCallbacks, js.of, "cancelled")
  <1>1. CASE RunCallback
    BY <1>1
  <1>2. CASE FinishStop
    BY <1>2 DEF FinishStop
  <1>3. CASE ~RunCallback /\ ~FinishStop
    BY <1>3 DEF Next, Application, JsThread, update_slots, ReleaseContext, Job, vars,
        DeleteManager, subscribeToStatus, Unsubscribe, CallQueue, StartJob, JobFails,
        QueueRequest, AnnounceQueued, EndJob, StopRequest, AnnounceStop, BeginUpdate, Admit,
        Admitted, DecodeBatch, DecodeBatchFails, SampleAndRelease, AnnounceUpdate, EndUpdate,
        disableParallelMode, configure, enableParallelMode, CallRelease, clearContext,
        stop_processing_loop, DeleteContext, engine, slotVars, feed, promises, context, stops,
        jobs, worker
  <1>4. QED BY <1>1, <1>2, <1>3

\* Whom stop() settles: the request it has taken out of the queue, whose callbacks it takes.
LEMMA StopSettles ==
  ASSUME TypeInv, HeldInv, StopInv, FinishStop, CancelledCallbacks \in Completion
  PROVE  /\ js.of = CancelledCallbacks /\ Held(js.of) /\ Withdrawing(js.of) /\ js.of \in Served
         /\ status[js.of] = "withdrawn"
  <1>1. js.at # "idle" /\ js.of \in Request
    BY JsFields DEF FinishStop, TypeInv, StopsTyped
  <1>2. CancelledCallbacks \in Request /\ CancelledCallbacks # NoRequest
    BY ParallelRequestsAssumption DEF Completion
  <1>3. js.result = "QUEUED" /\ CancelledCallbacks = getRequest(js.of)
    BY <1>2 DEF CancelledCallbacks
  <1>4. Withdrawing(js.of)
    BY <1>1, <1>3 DEF Withdrawing
  <1>5. status[js.of] = "withdrawn" /\ js.of \in Served
    BY <1>1, <1>4 DEF StopInv, TypeInv, EngineInv, KnownInv
  <1>6. js.of = CancelledCallbacks
    BY <1>2, <1>3, <1>5 DEF HeldInv
  <1>7. QED BY <1>3, <1>4, <1>5, <1>6 DEF Held, Served

\* A message keeps its meaning while it waits for its turn.
LEMMA MessageKept ==
  ASSUME TypeInv, HeldInv, StopInv, Next, NEW m \in Message, MessageInv(m),
         m.kind \in {"token", "complete"}, RunCallback => inner'[m.of] = inner[m.of]
  PROVE  MessageInv(m)'
  <1> DEFINE r == m.of
  <1>0. /\ r \in Request /\ Started(r) /\ m.data = r /\ inner[r].calls = 0
        /\ EngineInv /\ IdsTyped /\ IdsInv /\ EngineTyped /\ WaitingInv /\ StopsTyped
    BY MessageFields DEF MessageInv, TypeInv, EngineInv
  <1> HIDE DEF r
  <1>1. ~StartJob(r)
    BY <1>0, StartWorksOn
  <1>2. Started(r)' /\ id'[r] = id[r]
    BY <1>0, <1>1, IdsMove, StartWorksOn DEF Started
  <1>3. r \notin former => status[r] \in {"running", "answered", "dropped"}
    BY DEF MessageInv, r
  <1>4. inner'[r].calls = 0
    <2>1. CASE RunCallback
      BY <1>0, <2>1 DEF r
    <2>2. CASE FinishStop /\ CancelledCallbacks \in Completion
               /\ Settle(CancelledCallbacks, js.of, "cancelled")
      <3>1. CancelledCallbacks \in Served /\ status[CancelledCallbacks] = "withdrawn"
        BY <2>2, StopSettles
      <3>2. r # CancelledCallbacks
        BY <1>3, <3>1 DEF Served
      <3>3. QED BY <1>0, <2>2, <3>2 DEF Settle, TypeInv, PromisesTyped
    <2>3. QED BY <1>0, <2>1, <2>2, InnerMoves
  <1>5. ~Held(r) => ~Held(r)'
    BY <1>0, <1>1, HeldMoves
  <1>6. Stopped(r) => Stopped(r)'
    BY <1>0, StopsRemain
  <1>7. CASE DeleteManager
    <2>1. r \in former'
      BY <1>0, <1>2, <1>7, ManagerDeleted DEF Served, Started
    <2>2. QED BY <1>0, <1>2, <1>4, <1>5, <1>6, <2>1 DEF MessageInv, r
  <1>8. CASE ~DeleteManager
    <2>1. former' = former
      BY <1>8, IdsMove
    <2>2. StatusMoves(r)
      BY <1>0, StatusesMove
    <2>3. /\ status[r] \in {"running", "answered", "dropped"} =>
               status'[r] \in {"running", "answered", "dropped"}
          /\ status[r] = "answered" => status'[r] = "answered"
      BY <1>8, <2>2 DEF StatusMoves
    <2>4. QED BY <1>0, <1>2, <1>4, <1>5, <1>6, <2>1, <2>3 DEF MessageInv, r
  <1>9. QED BY <1>7, <1>8

LEMMA AnsweringKeeps ==
  ASSUME AnsweringStep
  PROVE  UNCHANGED <<id, inner, late_token, former, js, asked, stale_stop>>
  BY DEF AnsweringStep, QueueRequest, BeginUpdate, Admit, DecodeBatchFails, SampleAndRelease,
         promises, context, stops, jobs

\* What an answering step sends is about requests whose callbacks are still kept.
LEMMA MessageSent ==
  ASSUME TypeInv, HeldInv, StopInv, SettledInv, Next, AnsweringStep, NEW T \in SUBSET Request,
         NEW A \in SUBSET Request, Answering(T, A), NEW M \in Seq(Message), Sends(M, T, A),
         NEW i \in DOMAIN M
  PROVE  /\ M[i].of \in Request /\ Held(M[i].of) /\ MessageInv(M[i])'
         /\ M[i].kind \in {"token", "complete"} /\ M[i].data = M[i].of
  <1>0. /\ EngineInv /\ IdsTyped /\ IdsInv /\ EngineTyped /\ WaitingInv /\ StopsTyped
        /\ T \subseteq Running /\ A = AnsweredNow /\ A \subseteq Served
    BY DEF Answering, TypeInv, EngineInv
  <1>1. PICK m \in Message : m = M[i]
    OBVIOUS
  <1>2. PICK r \in Request :
               /\ m.data = r /\ m.of \in Request /\ m.of = getRequest(r)
               /\ \/ m.kind = "token" /\ r \in T
                  \/ /\ m.kind = "complete" /\ r \in A
                     /\ m.how = "cancelled" => r \in interrupted
    BY <1>1 DEF Sends
  <1>3. r \in T => r \in Served /\ status[r] = "running"
    BY <1>0 DEF Running, Engine!RunningRequests, EngineInv, KnownInv
  <1>4. r \in Served
    BY <1>0, <1>2, <1>3
  <1>5. m.of = r /\ Held(r) /\ inner[r].calls = 0 /\ Started(r)
    BY <1>2, <1>4, ParallelRequestsAssumption DEF HeldInv, Held, Served, SettledInv
  <1>6. inner'[r].calls = 0 /\ Started(r)'
    BY <1>5, AnsweringKeeps DEF Started
  <1>7. r \in T => status'[r] \in {"running", "answered", "dropped"}
    <2>1. ~DeleteManager
      BY AnsweringKeeps, <1>0, <1>2, ManagerDeleted DEF DeleteManager, AnsweringStep, QueueRequest,
        BeginUpdate, Admit, DecodeBatchFails, SampleAndRelease
    <2>2. QED BY <1>0, <1>3, <2>1, StatusesMove DEF StatusMoves
  <1>8. r \in A => status'[r] = "answered" /\ ~Held(r)'
    BY <1>0, <1>4, TakenNotHeld DEF AnsweredNow
  <1>9. r \in interrupted => Stopped(r)'
    BY <1>0, StopsRemain DEF StopInv
  <1>10. MessageInv(m)'
    BY <1>2, <1>5, <1>6, <1>7, <1>8, <1>9 DEF MessageInv
  <1>11. QED BY <1>1, <1>2, <1>5, <1>10

LEMMA MessagesAre ==
  ASSUME \A i \in DOMAIN callbacks' : \E m \in Message : m = callbacks'[i] /\ MessageInv(m)'
  PROVE  MessagesInv'
  BY DEF MessagesInv, MessageInv

LEMMA MessagesAndOrderStep ==
  ASSUME TypeInv, HeldInv, StopInv, RepliesInv, CallbackInv, Next
  PROVE  MessagesInv' /\ OrderInv'
  <1>0. /\ callbacks \in Seq(Message) /\ MessagesInv /\ OrderInv /\ SettledInv /\ CallbacksTyped
        /\ \A i \in DOMAIN callbacks : callbacks[i] \in Message
    BY DEF TypeInv, CallbacksTyped, CallbackInv
  <1>1. ASSUME NEW m \in Message, MessageInv(m),
               m.kind = "queued" \/ ~RunCallback \/ inner'[m.of] = inner[m.of]
        PROVE  MessageInv(m)'
    <2>1. CASE m.kind = "queued"
      BY <2>1 DEF MessageInv
    <2>2. QED BY <1>1, <2>1, MessageKept, MessageFields
  <1>2. CASE RunCallback
    <2>1. /\ callbacks' = Tail(callbacks) /\ 1 \in DOMAIN callbacks
          /\ Head(callbacks) = callbacks[1]
          /\ \A i \in DOMAIN callbacks' : /\ i \in Nat \ {0} /\ i + 1 \in DOMAIN callbacks
                                          /\ callbacks'[i] = callbacks[i + 1]
      BY <1>0, <1>2, HeadAndTail DEF RunCallback
    <2>2. \/ UNCHANGED inner
          \/ IsComplete(1) /\ \A r \in Request \ {callbacks[1].of} : inner'[r] = inner[r]
      BY <1>2, <2>1 DEF RunCallback, IsComplete, Settle, TypeInv, PromisesTyped
    <2>3. OrderInv'
      <3> SUFFICES ASSUME NEW i \in DOMAIN callbacks', NEW j \in DOMAIN callbacks',
                          callbacks'[i].of = callbacks'[j].of, callbacks'[i].kind = "complete"
                   PROVE  /\ callbacks'[j].kind = "token" => j < i
                          /\ callbacks'[j].kind = "complete" => i = j
        BY DEF OrderInv, IsComplete, IsToken
      <3>1. /\ i + 1 \in DOMAIN callbacks /\ j + 1 \in DOMAIN callbacks
            /\ IsComplete(i + 1) /\ callbacks[i + 1].of = callbacks[j + 1].of
            /\ callbacks'[j] = callbacks[j + 1] /\ i \in Nat /\ j \in Nat
        BY <2>1 DEF IsComplete
      <3>2. /\ IsToken(j + 1) => j + 1 < i + 1
            /\ IsComplete(j + 1) => i + 1 = j + 1
        BY <1>0, <3>1 DEF OrderInv
      <3>3. QED BY <3>1, <3>2 DEF IsToken, IsComplete
    <2>4. ASSUME NEW i \in DOMAIN callbacks'
          PROVE  \E m \in Message : m = callbacks'[i] /\ MessageInv(m)'
      <3>1. PICK k \in DOMAIN callbacks : k > 1 /\ callbacks'[i] = callbacks[k]
        BY <2>1
      <3>2. PICK m \in Message : m = callbacks[k]
        BY <1>0
      <3>3. m.of \in Request /\ m.kind \in {"token", "complete", "queued"}
        BY MessageFields
      <3>4. m.kind = "queued" \/ inner'[m.of] = inner[m.of]
        BY <1>0, <2>1, <2>2, <3>1, <3>2, <3>3 DEF OrderInv, IsToken, IsComplete
      <3>5. MessageInv(m)
        BY <1>0, <3>2 DEF MessagesInv
      <3>6. QED BY <1>1, <3>1, <3>2, <3>4, <3>5
    <2>5. QED BY <2>3, <2>4, MessagesAre
  <1>3. CASE ~RunCallback
    <2>1. \A m \in Message : MessageInv(m) => MessageInv(m)'
      BY <1>1, <1>3
    <2>2. CASE UNCHANGED callbacks
      <3>1. MessagesInv'
        BY <1>0, <2>1, <2>2, MessagesAre DEF MessagesInv
      <3>2. QED BY <1>0, <2>2, <3>1 DEF OrderInv, IsToken, IsComplete
    <2>3. ASSUME NEW r \in Request, NEW ok \in BOOLEAN,
                 callbacks' = Append(callbacks, Reply(r, ok))
          PROVE  MessagesInv' /\ OrderInv'
      <3>1. PICK m \in Message : m = Reply(r, ok) /\ m.kind = "queued"
        BY ReplyFields
      <3>2. \A i \in DOMAIN callbacks' :
              \/ i \in DOMAIN callbacks /\ callbacks'[i] = callbacks[i]
              \/ callbacks'[i] = m
        BY <1>0, <2>3, <3>1, Appended
      <3>3. MessageInv(m)'
        BY <3>1 DEF MessageInv
      <3>4. \A i \in DOMAIN callbacks' : \E n \in Message : n = callbacks'[i] /\ MessageInv(n)'
        BY <1>0, <2>1, <3>2, <3>3 DEF MessagesInv
      <3>5. OrderInv'
        BY <1>0, <3>1, <3>2 DEF OrderInv, IsToken, IsComplete
      <3>6. QED BY <3>4, <3>5, MessagesAre
    <2>4. ASSUME AnsweringStep, NEW T \in SUBSET Request, NEW A \in SUBSET Request,
                 Answering(T, A)
          PROVE  MessagesInv' /\ OrderInv'
      <3>1. T \in SUBSET Served /\ A \in SUBSET Served /\ Answer(T, A)
        BY <2>4 DEF Answering, Running, Engine!RunningRequests, TypeInv, EngineInv, KnownInv
      <3>2. PICK M \in Seq(Message) : callbacks' = callbacks \o M /\ Sends(M, T, A)
        BY <1>0, <3>1, AnswerSends DEF TypeInv, EngineInv
      <3>3. /\ Len(callbacks) \in Nat
            /\ \A i \in DOMAIN callbacks' :
                 \/ /\ i \in DOMAIN callbacks /\ i \in Nat /\ i <= Len(callbacks)
                    /\ callbacks'[i] = callbacks[i]
                 \/ /\ i \in Nat /\ i > Len(callbacks) /\ i - Len(callbacks) \in DOMAIN M
                    /\ callbacks'[i] = M[i - Len(callbacks)]
        BY <1>0, <3>2, Joined
      <3>4. \A i \in DOMAIN M :
              /\ M[i].of \in Request /\ Held(M[i].of) /\ MessageInv(M[i])'
              /\ M[i].kind \in {"token", "complete"} /\ M[i].data = M[i].of /\ M[i] \in Message
        BY <1>0, <2>4, <3>2, MessageSent
      <3>5. \A i \in DOMAIN callbacks' : \E n \in Message : n = callbacks'[i] /\ MessageInv(n)'
        <4>1. ASSUME NEW i \in DOMAIN M
              PROVE  \E n \in Message : n = M[i] /\ MessageInv(n)'
          BY <3>4
        <4>2. ASSUME NEW i \in DOMAIN callbacks
              PROVE  \E n \in Message : n = callbacks[i] /\ MessageInv(n)'
          BY <1>0, <2>1 DEF MessagesInv
        <4>3. QED BY <3>3, <4>1, <4>2
      <3>6. \A i \in DOMAIN callbacks : IsComplete(i) => ~Held(callbacks[i].of)
        BY <1>0 DEF MessagesInv, MessageInv, IsComplete
      <3>7. OrderInv'
        <4> SUFFICES ASSUME NEW i \in DOMAIN callbacks', NEW j \in DOMAIN callbacks',
                            callbacks'[i].of = callbacks'[j].of, callbacks'[i].kind = "complete"
                     PROVE  /\ callbacks'[j].kind = "token" => j < i
                            /\ callbacks'[j].kind = "complete" => i = j
          BY DEF OrderInv, IsComplete, IsToken
        <4>1. CASE i <= Len(callbacks) /\ j <= Len(callbacks)
          <5>1. /\ i \in DOMAIN callbacks /\ j \in DOMAIN callbacks
                /\ callbacks'[i] = callbacks[i] /\ callbacks'[j] = callbacks[j]
            BY <3>3, <4>1
          <5>2. QED BY <1>0, <5>1 DEF OrderInv, IsToken, IsComplete
        <4>2. CASE i <= Len(callbacks) /\ j > Len(callbacks)
          <5>1. /\ i \in DOMAIN callbacks /\ j - Len(callbacks) \in DOMAIN M
                /\ callbacks'[i] = callbacks[i] /\ callbacks'[j] = M[j - Len(callbacks)]
            BY <3>3, <4>2
          <5>2. QED BY <3>4, <3>6, <5>1 DEF IsComplete
        <4>3. CASE i > Len(callbacks) /\ j <= Len(callbacks)
          <5>1. /\ j \in DOMAIN callbacks /\ i - Len(callbacks) \in DOMAIN M
                /\ callbacks'[j] = callbacks[j] /\ callbacks'[i] = M[i - Len(callbacks)]
                /\ i \in Nat /\ j \in Nat
            BY <3>3, <4>3
          <5>2. callbacks'[j].kind # "complete"
            BY <3>4, <3>6, <5>1 DEF IsComplete
          <5>3. QED BY <3>3, <4>3, <5>1, <5>2
        <4>4. CASE i > Len(callbacks) /\ j > Len(callbacks)
          <5>1. PICK a \in DOMAIN M, b \in DOMAIN M :
                       /\ a = i - Len(callbacks) /\ b = j - Len(callbacks)
                       /\ callbacks'[i] = M[a] /\ callbacks'[j] = M[b]
            BY <3>3, <4>4
          <5>2. /\ M[b].kind = "token" => b < a
                /\ M[b].kind = "complete" => a = b
            BY <3>2, <3>4, <5>1 DEF Sends
          <5>3. i \in Nat /\ j \in Nat /\ Len(callbacks) \in Nat
            BY <3>3
          <5>4. QED BY <5>1, <5>2, <5>3
        <4>5. QED BY <3>3, <4>1, <4>2, <4>3, <4>4
      <3>8. QED BY <3>5, <3>7, MessagesAre
    <2>5. QED BY <1>0, <1>3, <2>2, <2>3, <2>4, CallbackChanges, Answers DEF TypeInv
  <1>4. QED BY <1>2, <1>3

\* What RunCallback delivers, when it delivers a result.
LEMMA CallbackSettles ==
  ASSUME TypeInv, CallbackInv, RunCallback
  PROVE  /\ UNCHANGED <<id, requests, asked, stale_stop>> /\ ~late_token'
         /\ \/ UNCHANGED inner
            \/ \E m \in Message :
                 /\ m.kind = "complete" /\ MessageInv(m) /\ m.of \in Request
                 /\ inner' = [inner EXCEPT ![m.of] = [data |-> m.of, how |-> m.how, calls |-> 1]]
  <1>1. PICK m \in Message : m = Head(callbacks) /\ MessageInv(m)
    BY HeadAndTail DEF RunCallback, TypeInv, CallbacksTyped, CallbackInv, MessagesInv
  <1>2. m.of \in Request
    BY MessageFields
  <1>3. UNCHANGED <<id, requests, asked, stale_stop>>
    BY DEF RunCallback, stops
  <1>4. ~late_token'
    <2>1. ~late_token
      BY DEF CallbackInv, SettledInv
    <2>2. CASE m.kind = "token"
      <3>1. inner[m.of].calls = 0
        BY <1>1, <2>2 DEF MessageInv
      <3>2. late_token' = (late_token \/ (registered /\ inner[m.of].calls > 0))
        BY <1>1, <2>2 DEF RunCallback
      <3>3. ~(registered /\ inner[m.of].calls > 0)
        BY <3>1
      <3>4. QED BY <2>1, <3>2, <3>3, Zenon
    <2>3. CASE m.kind # "token"
      BY <1>1, <2>1, <2>3 DEF RunCallback
    <2>4. QED BY <2>2, <2>3
  <1>5. CASE m.kind = "complete" /\ Settle(m.of, m.data, m.how)
    <2>1. inner[m.of].calls = 0 /\ m.data = m.of
      BY <1>1, <1>5 DEF MessageInv
    <2>2. inner' = [inner EXCEPT ![m.of] = [data |-> m.of, how |-> m.how, calls |-> 1]]
      BY <1>2, <1>5, <2>1 DEF Settle, TypeInv, PromisesTyped
    <2>3. QED BY <1>1, <1>2, <1>3, <1>4, <1>5, <2>2
  <1>6. CASE UNCHANGED inner
    BY <1>3, <1>4, <1>6
  <1>7. QED BY <1>1, <1>5, <1>6 DEF RunCallback

LEMMA SettledStep ==
  ASSUME TypeInv, HeldInv, StopInv, CallbackInv, Next
  PROVE  SettledInv'
  <1>0. /\ SettledInv /\ StopsTyped /\ inner \in [Request -> Result]
        /\ \A r \in Request : inner[r].calls = 0 \/ inner[r].calls > 0
    BY DEF CallbackInv, TypeInv, PromisesTyped, Result
  <1>1. \A r \in Request : Held(r)' \/ ~Started(r)' => Held(r) \/ ~Started(r)
    <2>1. \A r \in Request : ~Started(r)' => ~Started(r)
      BY IdsMove, StartWorksOn DEF Started, Held
    <2>2. \A r \in Request : Held(r)' => Held(r) \/ ~Started(r)
      BY HeldMoves, StartWorksOn
    <2>3. QED BY <2>1, <2>2
  <1>2. CASE UNCHANGED <<inner, late_token>>
    BY <1>0, <1>1, <1>2, StopsRemain DEF SettledInv
  <1>3. ASSUME NEW r \in Request, NEW how, UNCHANGED late_token \/ ~late_token',
               inner' = [inner EXCEPT ![r] = [data |-> r, how |-> how, calls |-> 1]],
               how = "cancelled" => Stopped(r), ~Held(r)', Started(r)
        PROVE  SettledInv'
    <2>1. /\ inner'[r] = [data |-> r, how |-> how, calls |-> 1]
          /\ \A q \in Request \ {r} : inner'[q] = inner[q]
      BY <1>0, <1>3
    <2>2. Started(r)'
      BY <1>3, IdsMove, StartWorksOn DEF Started
    <2>3. \A q \in Request : Held(q)' \/ ~Started(q)' => inner'[q].calls = 0
      BY <1>0, <1>1, <1>3, <2>1, <2>2 DEF SettledInv
    <2>4. /\ inner'[r].calls = 1 /\ inner'[r].data = r
          /\ inner'[r].how = "cancelled" => Stopped(r)'
      BY <1>0, <1>3, <2>1, StopsRemain
    <2>5. ASSUME NEW q \in Request \ {r}, inner'[q].calls > 0
          PROVE  /\ inner'[q].calls = 1 /\ inner'[q].data = q
                 /\ inner'[q].how = "cancelled" => Stopped(q)'
      BY <1>0, <2>1, <2>5, StopsRemain DEF SettledInv
    <2>6. ~late_token'
      BY <1>0, <1>3 DEF SettledInv
    <2>7. QED BY <2>3, <2>4, <2>5, <2>6 DEF SettledInv
  <1>4. CASE RunCallback
    <2>1. ASSUME NEW m \in Message, m.kind = "complete", MessageInv(m), m.of \in Request,
                 inner' = [inner EXCEPT ![m.of] = [data |-> m.of, how |-> m.how, calls |-> 1]]
          PROVE  SettledInv'
      <3>1. Started(m.of) /\ ~Held(m.of) /\ (m.how = "cancelled" => Stopped(m.of))
        BY <2>1 DEF MessageInv
      <3>2. ~Held(m.of)'
        BY <2>1, <3>1, HeldMoves, StartWorksOn
      <3>3. QED BY <1>3, <1>4, <2>1, <3>1, <3>2, CallbackSettles
    <2>2. CASE UNCHANGED inner
      BY <1>0, <1>1, <1>4, <2>2, CallbackSettles, StopsRemain DEF SettledInv
    <2>3. QED BY <1>4, <2>1, <2>2, CallbackSettles
  <1>5. CASE FinishStop /\ CancelledCallbacks \in Completion /\ UNCHANGED late_token
               /\ Settle(CancelledCallbacks, js.of, "cancelled")
    <2>1. PICK r \in Served : r = js.of
      BY <1>5, StopSettles
    <2>2. /\ r = CancelledCallbacks /\ Held(r) /\ Withdrawing(r) /\ r \in Request /\ Started(r)
      BY <1>5, <2>1, StopSettles DEF Served
    <2>3. inner[r].calls = 0
      BY <1>0, <2>2 DEF SettledInv
    <2>4. inner' = [inner EXCEPT ![r] = [data |-> r, how |-> "cancelled", calls |-> 1]]
      BY <1>0, <1>5, <2>1, <2>2, <2>3 DEF Settle
    <2>5. Stopped(r)
      BY <1>5, <2>1, JsFields DEF StopInv, FinishStop, TypeInv, StopsTyped
    <2>6. ~Held(r)'
      BY <1>5, <2>1, <2>2, TakenNotHeld
    <2>7. QED BY <1>3, <1>5, <2>2, <2>4, <2>5, <2>6
  <1>6. QED BY <1>2, <1>4, <1>5, InnerMoves

-----------------------------------------------------------------------------
(* The status feed                                                         *)

\* A step in which nobody takes or tells a status, and after which either a status that
\* shows the engine is still to come, or nothing that a status says has changed.
FeedQuiet ==
  /\ UNCHANGED <<subscribed, snapshot, seen>>
  /\ \A t \in Teller : Telling(t) => Telling(t)'
  /\ subscribed => \/ unannounced' \/ Owing'
                   \/ UNCHANGED unannounced /\ ~Owing /\ Current' = Current

LEMMA QuietKeepsFeed ==
  ASSUME FeedInv, FeedQuiet
  PROVE  FeedInv'
  <1>1. \A s : subscribed /\ Shown(s) => Shown(s)'
    BY DEF Shown, FeedQuiet
  <1>2. subscribed' = subscribed /\ snapshot' = snapshot /\ seen' = seen
    BY DEF FeedQuiet
  <1>3. \A t \in Teller : snapshot'[t] # {} => Telling(t)'
    BY <1>2 DEF FeedInv, FeedQuiet
  <1>4. ~subscribed' /\ seen' = {} => \A t \in Teller : snapshot'[t] = {}
    BY <1>2 DEF FeedInv
  <1>5. subscribed' => \A t \in Teller : \A s \in snapshot'[t] : Shown(s)'
    BY <1>1, <1>2 DEF FeedInv
  <1>6. subscribed' =>
          \A s \in seen' : Shown(s)' \/ \E t \in Teller : \E u \in snapshot'[t] : ~u.old
    BY <1>1, <1>2 DEF FeedInv
  <1>7. QED BY <1>3, <1>4, <1>5, <1>6 DEF FeedInv

LEMMA TakeKeepsFeed ==
  ASSUME FeedInv, FeedTyped, NEW t \in Teller, TakeStatus(t), subscribed, Telling(t)',
         \A u \in Teller : Telling(u) => Telling(u)', Current' = Current
  PROVE  FeedInv'
  <1>1. /\ UNCHANGED <<subscribed, seen>> /\ snapshot'[t] = {Current}
        /\ \A u \in Teller \ {t} : snapshot'[u] = {[s EXCEPT !.old = TRUE] : s \in snapshot[u]}
    BY DEF TakeStatus
  <1>2. \A u \in Teller \ {t} : \A s \in snapshot'[u] : s.old
    <2>1. \A s \in ParallelStatus : [s EXCEPT !.old = TRUE].old
      BY DEF ParallelStatus
    <2>2. \A u \in Teller : snapshot[u] \subseteq ParallelStatus
      BY DEF FeedTyped
    <2>3. ASSUME NEW u \in Teller \ {t}, NEW s \in snapshot'[u]
          PROVE  s.old
      <3>1. PICK w \in snapshot[u] : s = [w EXCEPT !.old = TRUE]
        BY <1>1, <2>3
      <3>2. w \in ParallelStatus
        BY <2>2
      <3>3. QED BY <2>1, <3>1, <3>2
    <2>4. QED BY <2>3
  <1>3. \A u \in Teller : snapshot'[u] # {} => Telling(u)'
    BY <1>1 DEF FeedInv
  <1>4. \A u \in Teller : \A s \in snapshot'[u] : Shown(s)'
    BY <1>1, <1>2 DEF Shown
  <1>5. \E u \in Teller : \E s \in snapshot'[u] : ~s.old
    BY <1>1 DEF Current
  <1>6. QED BY <1>1, <1>3, <1>4, <1>5 DEF FeedInv

LEMMA TellKeepsFeed ==
  ASSUME FeedInv, FeedTyped, NEW t \in Teller, NEW more, TellStatus(t, more),
         \A u \in Teller \ {t} : Telling(u) => Telling(u)', Current' = Current,
         subscribed /\ Owing => Owing'
  PROVE  FeedInv'
  <1>1. /\ UNCHANGED <<subscribed, unannounced>> /\ snapshot'[t] = {}
        /\ \A u \in Teller \ {t} : snapshot'[u] = snapshot[u]
        /\ seen' = IF subscribed /\ snapshot[t] # {} THEN snapshot[t] ELSE seen
    <2>1. snapshot' = [snapshot EXCEPT ![t] = {}] /\ UNCHANGED <<subscribed, unannounced>>
      BY DEF TellStatus
    <2>2. seen' = IF subscribed /\ snapshot[t] # {} THEN snapshot[t] ELSE seen
      BY DEF TellStatus
    <2>3. QED BY <2>1, <2>2 DEF FeedTyped
  <1>2. \A s : subscribed /\ Shown(s) => Shown(s)'
    BY <1>1 DEF Shown
  <1>3. \A u \in Teller : snapshot'[u] # {} => Telling(u)'
    BY <1>1 DEF FeedInv
  <1>4. ~subscribed' /\ seen' = {} => \A u \in Teller : snapshot'[u] = {}
    BY <1>1 DEF FeedInv
  <1>5. subscribed' => \A u \in Teller : \A s \in snapshot'[u] : Shown(s)'
    BY <1>1, <1>2 DEF FeedInv
  <1>6. subscribed' =>
          \A s \in seen' : Shown(s)' \/ \E u \in Teller : \E v \in snapshot'[u] : ~v.old
    <2>1. CASE subscribed /\ snapshot[t] # {}
      BY <1>1, <1>2, <2>1 DEF FeedInv
    <2>2. CASE subscribed /\ snapshot[t] = {}
      <3>1. \A u \in Teller : snapshot'[u] = snapshot[u] /\ seen' = seen
        BY <1>1, <2>2
      <3>2. QED BY <1>2, <2>2, <3>1 DEF FeedInv
    <2>3. QED BY <1>1, <2>1, <2>2
  <1>7. QED BY <1>3, <1>4, <1>5, <1>6 DEF FeedInv

LEMMA CurrentKept ==
  ASSUME UNCHANGED queue_requests,
         \A r \in Request : status'[r] = "running" <=> status[r] = "running"
  PROVE  Current' = Current /\ Running' = Running
  <1>1. Running' = Running
    BY DEF Running, Engine!RunningRequests
  <1>2. QED BY <1>1 DEF Current

\* Steps that move only jobs which have nothing to tell.
LEMMA JobsQuiet ==
  ASSUME UNCHANGED <<subscribed, snapshot, seen, unannounced, update, completed_interrupted, js,
                     queue_requests, status>>,
         \A r \in Request : /\ stage'[r] = "queued" <=> stage[r] = "queued"
                            /\ stage'[r] = "announced" <=> stage[r] = "announced"
  PROVE  FeedQuiet
  <1>1. Current' = Current /\ Running' = Running
    BY CurrentKept
  <1>2. Owing' <=> Owing
    BY <1>1 DEF Owing
  <1>3. \A t \in Teller : Telling(t) => Telling(t)'
    BY DEF Telling
  <1>4. QED BY <1>1, <1>2, <1>3 DEF FeedQuiet

LEMMA FeedInvStep ==
  ASSUME TypeInv, HeldInv, StopInv, RepliesInv, FeedInv, Next
  PROVE  FeedInv'
  <1>0. /\ EngineInv /\ IdsTyped /\ EngineTyped /\ WaitingInv /\ FeedTyped /\ StopsTyped
        /\ "worker" \in Teller /\ "js" \in Teller /\ Request \subseteq Teller
        /\ "worker" \notin Request /\ "js" \notin Request
    BY Values DEF TypeInv, EngineInv
  <1>1. CASE UNCHANGED <<subscribed, snapshot, seen, unannounced, update, completed_interrupted,
                         js, stage, queue_requests, status>>
    <2>1. FeedQuiet
      BY <1>1, JobsQuiet
    <2>2. QED BY <2>1, QuietKeepsFeed
  <1>2. ASSUME NEW r \in Request, CallQueue(r)
        PROVE  FeedInv'
    <2>1. UNCHANGED <<subscribed, snapshot, seen, unannounced, update, completed_interrupted, js,
                       queue_requests, status>>
      BY <1>2 DEF CallQueue, feed, worker, stops, engine
    <2>2. \A q \in Request : /\ stage'[q] = "queued" <=> stage[q] = "queued"
                             /\ stage'[q] = "announced" <=> stage[q] = "announced"
      BY <1>0, <1>2 DEF CallQueue, MoveTo, IdsTyped
    <2>3. FeedQuiet
      BY <2>1, <2>2, JobsQuiet
    <2>4. QED BY <2>3, QuietKeepsFeed
  <1>3. ASSUME NEW r \in Request, StartJob(r)
        PROVE  FeedInv'
    <2>1. UNCHANGED <<subscribed, snapshot, seen, unannounced, update, completed_interrupted, js,
                       queue_requests, status>>
      BY <1>3 DEF StartJob, feed, worker, stops, engine
    <2>2. \A q \in Request : /\ stage'[q] = "queued" <=> stage[q] = "queued"
                             /\ stage'[q] = "announced" <=> stage[q] = "announced"
      BY <1>0, <1>3 DEF StartJob, MoveTo, IdsTyped
    <2>3. FeedQuiet
      BY <2>1, <2>2, JobsQuiet
    <2>4. QED BY <2>3, QuietKeepsFeed
  <1>4. ASSUME NEW r \in Request, JobFails(r)
        PROVE  FeedInv'
    <2>1. UNCHANGED <<subscribed, snapshot, seen, unannounced, update, completed_interrupted, js,
                       queue_requests, status>>
      BY <1>4 DEF JobFails, feed, worker, stops, engine
    <2>2. \A q \in Request : /\ stage'[q] = "queued" <=> stage[q] = "queued"
                             /\ stage'[q] = "announced" <=> stage[q] = "announced"
      BY <1>0, <1>4 DEF JobFails, MoveTo, IdsTyped
    <2>3. FeedQuiet
      BY <2>1, <2>2, JobsQuiet
    <2>4. QED BY <2>3, QuietKeepsFeed
  <1>5. CASE RunCallback
    <2>1. UNCHANGED <<subscribed, snapshot, seen, unannounced, update, completed_interrupted, js,
                       queue_requests, status>>
      BY <1>5 DEF RunCallback, feed, worker, stops, engine
    <2>2. /\ callbacks # <<>> /\ Head(callbacks) = callbacks[1] /\ 1 \in DOMAIN callbacks
          /\ UNCHANGED stage \/ (IsQueued(1) /\ stage' = [stage EXCEPT ![callbacks[1].of] = "over"])
      BY <1>5, HeadAndTail DEF RunCallback, MoveTo, IsQueued, TypeInv, CallbacksTyped
    <2>3. IsQueued(1) => stage[callbacks[1].of] = "returned"
      BY <2>2 DEF RepliesInv
    <2>4. \A q \in Request : /\ stage'[q] = "queued" <=> stage[q] = "queued"
                             /\ stage'[q] = "announced" <=> stage[q] = "announced"
      BY <1>0, <2>2, <2>3 DEF IdsTyped
    <2>5. FeedQuiet
      BY <2>1, <2>4, JobsQuiet
    <2>6. QED BY <2>5, QuietKeepsFeed
  <1>6. ASSUME NEW r \in Request, QueueRequest(r)
        PROVE  FeedInv'
    <2>1. /\ UNCHANGED <<subscribed, snapshot, seen, unannounced, update, completed_interrupted>>
          /\ UNCHANGED js
          /\ stage[r] = "registered"
      BY <1>6 DEF QueueRequest, feed, worker, stops
    <2>2. CASE stage' = [stage EXCEPT ![r] = "queued"]
      <3>1. Owing'
        BY <1>0, <2>2 DEF Owing, IdsTyped
      <3>2. \A t \in Teller : Telling(t) => Telling(t)'
        BY <1>0, <2>1, <2>2 DEF Telling, IdsTyped
      <3>3. FeedQuiet
        BY <2>1, <3>1, <3>2 DEF FeedQuiet
      <3>4. QED BY <3>3, QuietKeepsFeed
    <2>3. CASE stage' = [stage EXCEPT ![r] = "announced"] /\ status'[r] = "answered"
      <3>1. UNCHANGED queue_requests
        BY <1>0, <1>6, <2>3 DEF QueueRequest, Engine!Submit, EngineTyped
      <3>2. \A q \in Request : status'[q] = "running" <=> status[q] = "running"
        BY <1>0, <1>6, <2>3, SubmitWorks
      <3>3. Current' = Current /\ Running' = Running
        BY <3>1, <3>2, CurrentKept
      <3>4. Owing' <=> Owing
        BY <1>0, <2>1, <2>3, <3>1, <3>3 DEF Owing, IdsTyped
      <3>5. \A t \in Teller : Telling(t) => Telling(t)'
        BY <1>0, <2>1, <2>3 DEF Telling, IdsTyped
      <3>6. FeedQuiet
        BY <2>1, <3>3, <3>4, <3>5 DEF FeedQuiet
      <3>7. QED BY <3>6, QuietKeepsFeed
    <2>4. QED BY <1>6, <2>2, <2>3 DEF QueueRequest, MoveTo
  <1>7. ASSUME NEW r \in Request, StopRequest(r)
        PROVE  FeedInv'
    <2>1. /\ UNCHANGED <<subscribed, snapshot, seen, unannounced, update, completed_interrupted>>
          /\ UNCHANGED stage
          /\ js.at = "idle"
      BY <1>7 DEF StopRequest, feed, worker, jobs
    <2>2. CASE UNCHANGED <<js, engine>>
      BY <1>1, <2>1, <2>2 DEF engine
    <2>3. CASE js'.at = "cancelled"
      <3>1. FeedQuiet
        BY <2>1, <2>3 DEF FeedQuiet, Owing, Telling
      <3>2. QED BY <3>1, QuietKeepsFeed
    <2>4. QED BY <1>0, <1>7, <2>2, <2>3, StopWorks DEF engine
  <1>8. CASE BeginUpdate
    <2>1. /\ UNCHANGED <<subscribed, snapshot, seen, js, stage>> /\ UNCHANGED unannounced
          /\ update = "turn" /\ update' = "admit"
          /\ queue_requests # <<>> \/ Running # {}
      BY <1>8 DEF BeginUpdate, feed, stops, jobs
    <2>2. completed_interrupted' = (interrupted \cap Running # {})
      BY <1>8 DEF BeginUpdate
    <2>3. Owing'
      <3>1. CASE interrupted \cap Running # {}
        BY <2>1, <2>2, <3>1 DEF Owing
      <3>2. CASE interrupted \cap Running = {}
        <4>1. UNCHANGED queue_requests /\ status' = [q \in Request |-> status[q]]
          BY <1>8, <3>2 DEF BeginUpdate, EndRequests
        <4>2. \A q \in Request : status'[q] = status[q]
          BY <4>1
        <4>3. Running' = Running
          BY <4>1, <4>2, CurrentKept
        <4>4. QED BY <2>1, <4>1, <4>3 DEF Owing
      <3>3. QED BY <3>1, <3>2
    <2>4. FeedQuiet
      BY <2>1, <2>3 DEF FeedQuiet, Telling
    <2>5. QED BY <2>4, QuietKeepsFeed
  <1>9. CASE Admit
    <2>1. /\ UNCHANGED <<subscribed, snapshot, seen, js, stage>>
          /\ UNCHANGED <<update, completed_interrupted>>
          /\ unannounced' = (unannounced \/ AnsweredNow # {}) /\ update \in {"admit", "refill"}
      BY <1>9 DEF Admit, stops, jobs, worker
    <2>2. PICK q \in Request : status[q] = "waiting" /\ status'[q] \in {"running", "answered"}
      BY <1>0, <1>9, StartWorks
    <2>3. unannounced' \/ Owing'
      <3>1. CASE status'[q] = "running"
        BY <3>1 DEF Owing, Running, Engine!RunningRequests
      <3>2. CASE status'[q] = "answered"
        <4>1. AnsweredNow # {}
          BY <2>2, <3>2 DEF AnsweredNow
        <4>2. QED BY <2>1, <4>1
      <3>3. QED BY <2>2, <3>1, <3>2
    <2>4. FeedQuiet
      BY <2>1, <2>3 DEF FeedQuiet, Telling
    <2>5. QED BY <2>4, QuietKeepsFeed
  <1>10. CASE Admitted
    <2>1. /\ UNCHANGED <<subscribed, snapshot, seen, js, stage>>
          /\ UNCHANGED <<completed_interrupted, unannounced, queue_requests, status>>
          /\ update \in {"admit", "refill"}
          /\ update' = IF update = "refill" THEN "announce"
                       ELSE IF Running # {} THEN "batch"
                       ELSE IF completed_interrupted THEN "announce" ELSE "turn"
      BY <1>10 DEF Admitted, feed, stops, jobs, engine
    <2>2. Current' = Current /\ Running' = Running
      BY <2>1, CurrentKept
    <2>3. CASE update' \in {"announce", "batch"}
      BY <2>1, <2>3, QuietKeepsFeed DEF FeedQuiet, Telling, Owing
    <2>4. CASE update' = "turn"
      <3>1. update = "admit" /\ Running = {} /\ ~completed_interrupted
        BY <2>1, <2>4
      <3>2. Owing => Owing'
        BY <2>1, <2>2, <2>4, <3>1 DEF Owing
      <3>3. QED BY <2>1, <2>2, <3>2, QuietKeepsFeed DEF FeedQuiet, Telling
    <2>5. QED BY <2>1, <2>3, <2>4
  <1>11. CASE DecodeBatch
    <2>1. UNCHANGED <<subscribed, snapshot, seen, js, stage>> /\ update \in {"batch", "sample"}
      BY <1>11 DEF DecodeBatch, feed, stops, jobs
    <2>2. unannounced' \/ Owing'
      BY <1>11 DEF DecodeBatch, Owing
    <2>3. QED BY <2>1, <2>2, QuietKeepsFeed DEF FeedQuiet, Telling
  <1>12. CASE DecodeBatchFails
    <2>1. UNCHANGED <<subscribed, snapshot, seen, js, stage>> /\ update \in {"batch", "sample"}
      BY <1>12 DEF DecodeBatchFails, feed, stops, jobs
    <2>2. unannounced' \/ Owing'
      BY <1>12 DEF DecodeBatchFails, Owing
    <2>3. QED BY <2>1, <2>2, QuietKeepsFeed DEF FeedQuiet, Telling
  <1>13. CASE SampleAndRelease
    <2>1. UNCHANGED <<subscribed, snapshot, seen, js, stage>> /\ update \in {"batch", "sample"}
      BY <1>13 DEF SampleAndRelease, feed, stops, jobs
    <2>2. unannounced' \/ Owing'
      BY <1>13 DEF SampleAndRelease, Owing
    <2>3. QED BY <2>1, <2>2, QuietKeepsFeed DEF FeedQuiet, Telling
  <1>14. CASE stop_processing_loop
    <2>1. /\ UNCHANGED <<subscribed, snapshot, seen, js, stage>>
          /\ UNCHANGED <<completed_interrupted, unannounced, queue_requests, status>>
          /\ update = "turn" /\ update' = "stopped"
      BY <1>14 DEF stop_processing_loop, feed, stops, jobs, engine
    <2>2. Current' = Current /\ Running' = Running
      BY <2>1, CurrentKept
    <2>3. Owing' <=> Owing
      BY <2>1, <2>2 DEF Owing
    <2>4. QED BY <2>1, <2>2, <2>3, QuietKeepsFeed DEF FeedQuiet, Telling
  <1>15. ASSUME NEW r \in Request, AnnounceQueued(r)
        PROVE  FeedInv'
    <2>1. TakeStatus(r) /\ subscribed /\ UNCHANGED <<queue_requests, status>>
      BY <1>15 DEF AnnounceQueued, engine
    <2>2. Current' = Current
      BY <2>1, CurrentKept
    <2>3. Telling(r)' /\ \A u \in Teller : Telling(u) => Telling(u)'
      BY <1>0, <1>15 DEF AnnounceQueued, Telling, MoveTo, IdsTyped, worker, stops
    <2>4. QED BY <1>0, <2>1, <2>2, <2>3, TakeKeepsFeed
  <1>16. CASE AnnounceStop
    <2>1. TakeStatus("js") /\ subscribed /\ UNCHANGED <<queue_requests, status>>
      BY <1>16 DEF AnnounceStop, engine
    <2>2. Current' = Current
      BY <2>1, CurrentKept
    <2>3. Telling("js")' /\ \A u \in Teller : Telling(u) => Telling(u)'
      BY <1>0, <1>16, JsMoves DEF AnnounceStop, Telling, jobs, worker
    <2>4. QED BY <1>0, <2>1, <2>2, <2>3, TakeKeepsFeed
  <1>17. CASE AnnounceUpdate
    <2>1. TakeStatus("worker") /\ subscribed /\ UNCHANGED <<queue_requests, status>>
      BY <1>17 DEF AnnounceUpdate, engine
    <2>2. Current' = Current
      BY <2>1, CurrentKept
    <2>3. Telling("worker")' /\ \A u \in Teller : Telling(u) => Telling(u)'
      BY <1>0, <1>17 DEF AnnounceUpdate, Telling, jobs, stops
    <2>4. QED BY <1>0, <2>1, <2>2, <2>3, TakeKeepsFeed
  <1>18. ASSUME NEW r \in Request, EndJob(r)
        PROVE  FeedInv'
    <2>1. TellStatus(r, <<Reply(r, TRUE)>>) /\ UNCHANGED <<queue_requests, status>>
      BY <1>18 DEF EndJob, engine
    <2>2. Current' = Current /\ Running' = Running
      BY <2>1, CurrentKept
    <2>3. \A u \in Teller \ {r} : Telling(u) => Telling(u)'
      BY <1>0, <1>18 DEF EndJob, Telling, MoveTo, IdsTyped, worker, stops
    <2>4. subscribed /\ Owing => Owing'
      BY <1>0, <1>18, <2>1, <2>2 DEF EndJob, Owing, MoveTo, IdsTyped, worker, stops
    <2>5. QED BY <1>0, <2>1, <2>2, <2>3, <2>4, TellKeepsFeed
  <1>19. CASE FinishStop
    <2>1. TellStatus("js", <<>>) /\ UNCHANGED <<queue_requests, status>>
      BY <1>19 DEF FinishStop, engine
    <2>2. Current' = Current /\ Running' = Running
      BY <2>1, CurrentKept
    <2>3. \A u \in Teller \ {"js"} : Telling(u) => Telling(u)'
      BY <1>0, <1>19 DEF FinishStop, Telling, jobs, worker
    <2>4. subscribed /\ Owing => Owing'
      BY <1>0, <1>19, <2>1, <2>2 DEF FinishStop, Owing, jobs, worker
    <2>5. QED BY <1>0, <2>1, <2>2, <2>3, <2>4, TellKeepsFeed
  <1>20. CASE EndUpdate
    <2>1. TellStatus("worker", <<>>) /\ UNCHANGED <<queue_requests, status>>
      BY <1>20 DEF EndUpdate, engine
    <2>2. Current' = Current /\ Running' = Running
      BY <2>1, CurrentKept
    <2>3. \A u \in Teller \ {"worker"} : Telling(u) => Telling(u)'
      BY <1>0, <1>20 DEF EndUpdate, Telling, jobs, stops
    <2>4. subscribed /\ Owing => Owing'
      BY <1>0, <1>20, <2>1, <2>2 DEF EndUpdate, Owing, jobs, stops
    <2>5. QED BY <1>0, <2>1, <2>2, <2>3, <2>4, TellKeepsFeed
  <1>21. CASE subscribeToStatus
    <2>1. /\ ~subscribed /\ seen = {} /\ subscribed' = TRUE
          /\ UNCHANGED <<snapshot, seen, update, js, stage>>
      BY <1>21 DEF subscribeToStatus, worker, stops, jobs
    <2>2. \A t \in Teller : snapshot[t] = {}
      BY <2>1 DEF FeedInv
    <2>3. QED BY <2>1, <2>2 DEF FeedInv
  <1>22. CASE Unsubscribe
    <2>1. /\ seen # {} /\ subscribed' = FALSE
          /\ UNCHANGED <<snapshot, seen, update, js, stage>>
      BY <1>22 DEF Unsubscribe, worker, stops, jobs
    <2>2. \A t \in Teller : Telling(t)' <=> Telling(t)
      BY <2>1 DEF Telling
    <2>3. QED BY <2>1, <2>2 DEF FeedInv
  <1>23. CASE DeleteManager
    <2>1. /\ subscribed' = FALSE /\ UNCHANGED <<snapshot, seen, update, js, stage>>
          /\ js.at = "idle" /\ update = "turn"
          /\ \A r \in Request : stage[r] \in {"uncalled", "over"}
      BY <1>23 DEF DeleteManager, worker, stops
    <2>2. \A t \in Teller : ~Telling(t)
      BY <2>1 DEF Telling
    <2>3. QED BY <2>1, <2>2 DEF FeedInv
  <1>24. QED
    BY <1>1, <1>2, <1>3, <1>4, <1>5, <1>6, <1>7, <1>8, <1>9, <1>10, <1>11, <1>12, <1>13, <1>14,
        <1>15, <1>16, <1>17, <1>18, <1>19, <1>20, <1>21, <1>22, <1>23 DEF Next, Application,
        JsThread, update_slots, ReleaseContext, Job, vars, disableParallelMode, configure,
        enableParallelMode, CallRelease, clearContext, DeleteContext, engine, slotVars, feed,
        promises, context, stops, jobs, worker

-----------------------------------------------------------------------------
(* The theorems                                                            *)

LEMMA BridgeInvInit == Init => BridgeInv
  <1> SUFFICES ASSUME Init
               PROVE  BridgeInv
    OBVIOUS
  <1>1. TypeInv
    BY TypeInvInit
  <1>2. ReleaseInv
    BY DEF Init, ReleaseInv
  <1>3. /\ \A r \in Request : ~Started(r) /\ ~Owed(r) /\ stage[r] = "uncalled"
        /\ Served = {}
    BY DEF Init, Engine!Init, Started, Owed, Served
  <1>4. HeldInv
    BY <1>3 DEF Init, HeldInv, Held
  <1>5. StopInv
    BY DEF Init, StopInv, Withdrawing
  <1>6. RepliesInv /\ MessagesInv /\ OrderInv
    BY DEF Init, RepliesInv, MessagesInv, OrderInv
  <1>7. SettledInv
    BY DEF Init, SettledInv
  <1>8. FeedInv
    BY DEF Init, FeedInv
  <1>9. QED BY <1>1, <1>2, <1>4, <1>5, <1>6, <1>7, <1>8 DEF BridgeInv, CallbackInv

LEMMA BridgeInvStep ==
  ASSUME BridgeInv, [Next]_vars
  PROVE  BridgeInv'
  <1>1. CASE Next
    BY <1>1, TypeInvStep, ReleaseStep, HeldStep, StopStep, RepliesStep, MessagesAndOrderStep,
       SettledStep, FeedInvStep DEF BridgeInv, CallbackInv
  <1>2. CASE UNCHANGED vars
    <2>1. TypeInv'
      BY <1>2, TypeStutters DEF BridgeInv
    <2>2. ReleaseInv'
      BY <1>2 DEF vars, BridgeInv, ReleaseInv, ReleaseWaitsForCallbacks
    <2>3. HeldInv'
      BY <1>2 DEF vars, BridgeInv, HeldInv, Held, Started, getRequest, Served, Owed, Withdrawing
    <2>4. StopInv'
      BY <1>2 DEF vars, BridgeInv, StopInv, Stopped, Withdrawing
    <2>5. RepliesInv' /\ OrderInv'
      BY <1>2 DEF vars, BridgeInv, CallbackInv, RepliesInv, OrderInv, IsToken, IsComplete, IsQueued
    <2>6. MessagesInv'
      BY <1>2 DEF vars, BridgeInv, CallbackInv, MessagesInv, MessageInv, Started, Held, getRequest,
        Stopped
    <2>7. SettledInv'
      BY <1>2 DEF vars, BridgeInv, CallbackInv, SettledInv, Held, Started, getRequest, Stopped
    <2>8. FeedInv'
      <3>1. FeedQuiet
        BY <1>2, JobsQuiet DEF vars
      <3>2. QED BY <3>1, QuietKeepsFeed DEF BridgeInv
    <2>9. QED BY <2>1, <2>2, <2>3, <2>4, <2>5, <2>6, <2>7, <2>8 DEF BridgeInv, CallbackInv
  <1>3. QED BY <1>1, <1>2

\* The invariant: where a request's callbacks are, what is on its way to the JS thread and
\* what the subscriber is still to be told, in every reachable state.
THEOREM BridgeInvariant == Spec => []BridgeInv
  BY BridgeInvInit, BridgeInvStep, PTL DEF Spec

\* Every variable keeps its type: in particular an id is always one of Id, so addRequest()
\* and takeRequest() always have an entry to work on.
THEOREM TypeCorrect == Spec => []TypeOK
  <1>1. BridgeInv => TypeOK
    BY TypeInvImplies DEF BridgeInv
  <1>2. QED BY <1>1, BridgeInvariant, PTL

\* A request's promise is settled once, with its own result, and is cancelled only by its own
\* stop() or one kept from an earlier manager (onComplete and onResult of RNLlamaJSI.cpp).
THEOREM ResultsAreOwn == Spec => []OwnResultOnce
  <1>1. BridgeInv => OwnResultOnce
    BY DEF BridgeInv, CallbackInv, SettledInv, OwnResultOnce, Stopped
  <1>2. QED BY <1>1, BridgeInvariant, PTL

\* No onToken call of a completion comes after its onComplete call.
THEOREM TokensComeFirst == Spec => []NoTokenAfterResult
  <1>1. BridgeInv => NoTokenAfterResult
    BY DEF BridgeInv, CallbackInv, SettledInv, NoTokenAfterResult
  <1>2. QED BY <1>1, BridgeInvariant, PTL

\* The RequestManager keeps the callbacks of the requests that still need them, each under
\* its request's id, and no others.
THEOREM CallbacksKept == Spec => []CallbacksMatchRequests
  <1>1. BridgeInv => CallbacksMatchRequests
    <2> SUFFICES ASSUME BridgeInv, release \in {"no", "posted"}
                 PROVE  CallbacksMatchRequests
      BY DEF CallbacksMatchRequests
    <2>1. \A r \in Request : Owed(r) => getRequest(r) = r
      BY DEF BridgeInv, HeldInv, Held
    <2>2. ASSUME NEW i \in Id, NEW r, r = requests[i], r # NoRequest
          PROVE  \/ stage[r] = "registered" \/ Owed(r) \/ status[r] = "dropped" \/ r \in former
                 \/ status[r] = "withdrawn" /\ js.at # "idle"
                 \/ release = "posted"
      <3>1. r \in Request /\ id[r] = i
        BY <2>2 DEF BridgeInv, TypeInv, CallbacksTyped, HeldInv
      <3>2. i # 0
        BY DEF Id
      <3>3. Held(r)
        BY <2>2, <3>1, <3>2 DEF Held, Started, getRequest
      <3>4. QED BY <3>1, <3>3 DEF BridgeInv, HeldInv, Withdrawing
    <2>3. QED BY <2>1, <2>2 DEF CallbacksMatchRequests
  <1>2. QED BY <1>1, BridgeInvariant, PTL

\* When the context is deleted no callback and no job that uses it is left (waitForContext()).
THEOREM ReleaseWaits == Spec => []ReleaseWaitsForCallbacks
  <1>1. BridgeInv => ReleaseWaitsForCallbacks
    BY DEF BridgeInv, ReleaseInv, ReleaseWaitsForCallbacks
  <1>2. QED BY <1>1, BridgeInvariant, PTL

\* When the engine has come to rest the subscriber has seen its last status, but for the two
\* cases FeedIsCurrent names.
THEOREM FeedCurrent == Spec => []FeedIsCurrent
  <1>1. BridgeInv => FeedIsCurrent
    <2> SUFFICES ASSUME BridgeInv, AtRest, subscribed, NEW s \in seen
                 PROVE  s.old \/ unannounced \/ s = Current
      BY DEF FeedIsCurrent
    <2>1. Running = {}
      BY DEF AtRest, Owed, Running, Engine!RunningRequests
    <2>2. queue_requests = <<>>
      <3>1. \A i \in DOMAIN queue_requests : FALSE
        BY DEF AtRest, Owed, BridgeInv, TypeInv, EngineInv, EngineTyped, WaitingInv, Occurs
      <3>2. QED BY <3>1, HeadAndTail DEF BridgeInv, TypeInv, EngineInv, EngineTyped
    <2>3. ~Owing
      BY <2>1, <2>2 DEF Owing, AtRest
    <2>4. \A t \in Teller : ~Telling(t)
      BY DEF Telling, AtRest
    <2>5. QED BY <2>3, <2>4 DEF BridgeInv, FeedInv, Shown
  <1>2. QED BY <1>1, BridgeInvariant, PTL

=============================================================================
