------------------------- MODULE ContextTasksProofs -------------------------
(***************************************************************************)
(* Theorems about ContextTasks for every number of calls, workers and      *)
(* tokens: its type invariant and each safety property of its run.         *)
(*                                                                         *)
(* What the calls' stages say about the pool's queue, the callbacks and    *)
(* the JS thread (StageInv) is what the other parts rest on: the count of  *)
(* tasks, the order of a call's callbacks, who may still use the context,  *)
(* whose text it holds, and which interrupt is still to be obeyed.         *)
(***************************************************************************)
EXTENDS ContextTasks, FiniteSetTheorems, TLAPS

-----------------------------------------------------------------------------
(* The inductive invariant                                                 *)

Callback == [kind : {"token"}, of : Completion] \cup [kind : {"result"}, of : Call]
JsTask == {Idle} \cup [kind : {"call", "token", "result"}, of : Completion]

CallsTyped ==
  /\ stage \in [Call -> Stage] /\ reply \in [Call -> Reply] /\ outcome \in [Call -> Outcome]
  /\ \A c \in Call : reply[c] = "result" => c \in Completion

CountsTyped ==
  /\ shouldTrack \in [Call -> BOOLEAN] /\ activeTasks \in Nat /\ deletions \in Nat

TokensTyped ==
  /\ decoded \in [Completion -> 0 .. MaxTokens]
  /\ \A t \in Completion : stage[t] = "decoding" => decoded[t] < MaxTokens
  /\ interrupted_at \in [Completion -> 0 .. MaxTokens]

QueuesTyped == tasks \in Seq(Call) /\ callbacks \in Seq(Callback) /\ js \in JsTask

FlagsTyped ==
  /\ stop \in BOOLEAN /\ shuttingDown \in BOOLEAN /\ registered \in BOOLEAN
  /\ is_predicting \in BOOLEAN /\ is_interrupted \in BOOLEAN
  /\ timed_out \in BOOLEAN /\ called_late \in BOOLEAN
  /\ cleanup \in {"no", "flagged", "holding", "joining", "joined", "done", "left"}
  /\ generated_by \subseteq Completion /\ covered \subseteq Completion

TypeInv == CallsTyped /\ CountsTyped /\ TokensTyped /\ QueuesTyped /\ FlagsTyped

Result(i, c) == callbacks[i] = [kind |-> "result", of |-> c]

\* A call that is queued is queued once ...
QueueInv ==
  /\ \A i \in DOMAIN tasks : stage[tasks[i]] = "queued"
  /\ \A i, j \in DOMAIN tasks : tasks[i] = tasks[j] => i = j

\* ... and one whose callback settles it has one callback, queued or running.
ResultInv ==
  /\ \A i \in DOMAIN callbacks : \A c \in Call : Result(i, c) =>
       /\ stage[c] = "scheduled" /\ js # [kind |-> "result", of |-> c]
       /\ \A j \in DOMAIN callbacks : Result(j, c) => i = j
  /\ \A t \in Completion :
       /\ js = [kind |-> "call", of |-> t] => stage[t] = "calling"
       /\ js = [kind |-> "result", of |-> t] => stage[t] = "scheduled"

StageInv == QueueInv /\ ResultInv

\* The tasks TaskManager counts.  Only jobs of completions are among them.
Counted == {c \in Call : shouldTrack[c] /\ stage[c] \in Working}

CountInv ==
  /\ IsFiniteSet(Counted) /\ activeTasks = Cardinality(Counted)
  /\ \A r \in Release : ~shouldTrack[r]
  /\ \A t \in Completion : stage[t] \in Working => shouldTrack[t]

Token(i, t) == callbacks[i] = [kind |-> "token", of |-> t]

\* A call's tokens come before its result, and its result comes last: until a shutdown
\* begins, a callback on its way belongs to a call that is not over.
TokensInv ==
  /\ shuttingDown <=> cleanup # "no"
  /\ cleanup = "no" => \A t \in Completion :
       /\ js = [kind |-> "token", of |-> t] => stage[t] # "over"
       /\ \A i \in DOMAIN callbacks : Token(i, t) =>
            /\ stage[t] \in {"testing", "decoding", "ended", "scheduled"}
            /\ js # [kind |-> "result", of |-> t]
            /\ \A j \in DOMAIN callbacks : Result(j, t) => i < j

\* A worker that has passed the test of the shutdown flag.
Busy == {"started", "holding", "checked", "testing", "decoding", "waiting", "removing",
         "deleting"}

\* What a release has waited for stays over, and the shutdown's join leaves no busy worker.
WaitInv ==
  /\ ~timed_out => \A t \in covered : stage[t] = "over"
  /\ cleanup \in {"joined", "done"} => \A c \in Call : stage[c] \notin Busy

\* The application releases the context once.  (Two releases that overlap both find it.)
OneRelease == \A r, q \in Release : r = q

\* The release that has found the context is the one that deletes it, unless the shutdown does.
DeletionInv ==
  /\ registered => deletions = 0
  /\ deletions <= 1
  /\ \A r \in Release :
       /\ stage[r] \in {"holding", "removing"} => registered
       /\ stage[r] = "waiting" /\ reply[r] = "released" => registered
       /\ stage[r] = "deleting" => ~registered /\ deletions = 0

\* Stages in which a completion has not generated anything yet.
Fresh == {"uncalled", "calling", "queued", "taken", "started", "holding", "checked"}

\* An awaited completion is the only one on its way, so the shared text is its own.
OneActive ==
  \A t, u \in Completion :
    stage[t] \notin {"uncalled", "over"} /\ stage[u] \notin {"uncalled", "over"} => t = u

OwnInv ==
  \A t \in Completion :
    /\ stage[t] \in Fresh => decoded[t] = 0
    /\ stage[t] \notin {"uncalled", "calling", "over"} => IsOwnText(t)
    /\ outcome[t] # "foreign"

\* An interrupt meant for a completion stands until the completion has obeyed it.
InterruptInv ==
  \A t \in Completion :
    /\ stage[t] \in {"uncalled", "calling"} => interrupted_at[t] = MaxTokens
    /\ t \in Outstanding /\ interrupted_at[t] < MaxTokens => is_interrupted
    /\ stage[t] = "decoding" => decoded[t] <= interrupted_at[t]
    /\ decoded[t] <= interrupted_at[t] + 1

AwaitInv == Awaits => OneActive /\ OwnInv /\ InterruptInv

-----------------------------------------------------------------------------
(* Types                                                                   *)

LEMMA Values ==
  /\ {"uncalled", "calling", "queued", "taken", "started", "holding", "checked", "testing",
      "decoding", "waiting", "removing", "deleting", "ended", "scheduled", "over"} = Stage
  /\ {"none", "result", "released", "nothing_to_release", "not_found", "busy", "failed"} = Reply
  /\ Reply \cup {"own", "foreign", "context_released", "dropped"} = Outcome
  /\ Completion \subseteq Call /\ Release \subseteq Call
  BY DEF Stage, OnPool, Working, Reply, Outcome, Call

LEMMA CallbackValues ==
  /\ \A t \in Completion : /\ [kind |-> "token", of |-> t] \in Callback
                          /\ [kind |-> "call", of |-> t] \in JsTask
  /\ \A c \in Call : [kind |-> "result", of |-> c] \in Callback
  /\ Idle \in JsTask
  BY DEF Callback, JsTask, Idle, Call

LEMMA CallbackFields ==
  ASSUME NEW m \in Callback
  PROVE  /\ m.kind \in {"token", "result"} /\ m.of \in Call
         /\ m.kind = "token" => m.of \in Completion
         /\ m = [kind |-> m.kind, of |-> m.of]
         /\ m.of \in Completion => m \in JsTask
  BY DEF Callback, JsTask, Call

LEMMA JsFields ==
  ASSUME NEW m \in JsTask
  PROVE  /\ m.kind \in {"idle", "call", "token", "result"}
         /\ m.kind = "idle" <=> m = Idle
         /\ m # Idle => m.of \in Completion /\ m = [kind |-> m.kind, of |-> m.of]
  BY DEF JsTask, Idle

LEMMA HeadAndTail ==
  ASSUME NEW S, NEW q \in Seq(S), q # <<>>
  PROVE  /\ Head(q) \in S /\ Tail(q) \in Seq(S) /\ Len(Tail(q)) = Len(q) - 1
         /\ 1 \in DOMAIN q /\ Head(q) = q[1]
         /\ \A i \in DOMAIN Tail(q) : i \in Nat \ {0} /\ i + 1 \in DOMAIN q /\ Tail(q)[i] = q[i + 1]
  OBVIOUS

LEMMA TypeInvImplies == TypeInv => TypeOK
  <1> SUFFICES ASSUME TypeInv
               PROVE  TypeOK
    OBVIOUS
  <1>1. js.kind \in {"idle", "call", "token", "result"}
    BY JsFields DEF TypeInv, QueuesTyped
  <1>2. \A i \in DOMAIN callbacks : callbacks[i].kind \in {"token", "result"}
    BY CallbackFields DEF TypeInv, QueuesTyped
  <1>3. QED
    BY <1>1, <1>2
    DEF TypeInv, TypeOK, CallsTyped, CountsTyped, TokensTyped, QueuesTyped, FlagsTyped

LEMMA InitTyped == Init => TypeInv
  <1> SUFFICES ASSUME Init
               PROVE  TypeInv
    OBVIOUS
  <1>1. CallsTyped /\ CountsTyped
    BY Values DEF Init, CallsTyped, CountsTyped
  <1>2. TokensTyped
    BY ContextTasksAssumption, Values DEF Init, TokensTyped
  <1>3. callbacks \in Seq(Callback) /\ tasks \in Seq(Call)
    BY DEF Init
  <1>4. js \in JsTask
    BY CallbackValues DEF Init
  <1>5. FlagsTyped
    BY DEF Init, FlagsTyped
  <1>6. QED BY <1>1, <1>2, <1>3, <1>4, <1>5 DEF TypeInv, QueuesTyped

LEMMA CallsStep ==
  ASSUME CallsTyped, QueuesTyped, Next
  PROVE  CallsTyped'
  <1>1. CASE UNCHANGED <<stage, reply, outcome>>
    BY <1>1, Values DEF CallsTyped
  <1>2. ASSUME NEW t \in Completion, CallCompletion(t)
        PROVE  CallsTyped'
    BY <1>2, Values DEF CallsTyped, CallCompletion, MoveTo, Settle, taskCount, pool, context,
        flags, history, unchangedByCleanup
  <1>3. ASSUME NEW r \in Release, CallRelease(r)
        PROVE  CallsTyped'
    BY <1>3, Values DEF CallsTyped, CallRelease, MoveTo, Enqueue, taskCount, pool, context,
        flags, history, unchangedByCleanup
  <1>4. ASSUME NEW t \in Completion, PostCompletion(t)
        PROVE  CallsTyped'
    <2>1. CASE is_predicting
      BY <1>4, <2>1, Values DEF CallsTyped, PostCompletion, MoveTo, Settle
    <2>2. CASE ~is_predicting
      BY <1>4, <2>2, Values DEF CallsTyped, PostCompletion, MoveTo
    <2>3. QED BY <2>1, <2>2
  <1>5. ASSUME NEW t \in Completion, DeliverResult(t)
        PROVE  CallsTyped'
    BY <1>5, Values DEF CallsTyped, DeliverResult, MoveTo, Settle, FinishTask, taskCount, pool,
        context, flags, history, unchangedByCleanup
  <1>6. CASE RunResultCallback
    <2> DEFINE c == Head(callbacks).of
    <2>1. c \in Call
      BY <1>6, HeadAndTail, CallbackFields DEF RunResultCallback, QueuesTyped
    <2>2. \/ UNCHANGED <<stage, outcome>>
          \/ \E how \in Outcome : Settle(c, how)
      BY <1>6, <2>1, Values DEF RunResultCallback, CallsTyped
    <2>3. CASE \E how \in Outcome : Settle(c, how)
      <3> HIDE DEF c
      <3>1. QED BY <1>6, <2>1, <2>3, Values DEF RunResultCallback, CallsTyped, Settle, MoveTo
    <2>4. QED BY <1>6, <2>2, <2>3 DEF RunResultCallback, CallsTyped
  <1>7. CASE Take
    <2>1. Head(tasks) \in Call
      BY <1>7, HeadAndTail DEF Take, QueuesTyped
    <2>2. QED BY <1>7, <2>1, Values DEF CallsTyped, Take, MoveTo
  <1>8. ASSUME NEW t \in Completion, StartTask(t)
        PROVE  CallsTyped'
    BY <1>8, Values DEF CallsTyped, StartTask, MoveTo, Settle, taskCount, pool, context, flags,
        history, unchangedByCleanup
  <1>9. ASSUME NEW t \in Completion, LookUp(t)
        PROVE  CallsTyped'
    BY <1>9, Values DEF CallsTyped, LookUp, MoveTo, Settle, FinishTask, EndJob, taskCount, pool,
        context, flags, history, unchangedByCleanup
  <1>10. ASSUME NEW t \in Completion, CheckBusy(t)
        PROVE  CallsTyped'
    BY <1>10, Values DEF CallsTyped, CheckBusy, MoveTo, EndJob, taskCount, pool, context, flags,
        history, unchangedByCleanup
  <1>11. ASSUME NEW t \in Completion, BeginCompletion(t)
        PROVE  CallsTyped'
    BY <1>11, Values DEF CallsTyped, BeginCompletion, MoveTo, taskCount, pool, context, flags,
        history, unchangedByCleanup
  <1>12. ASSUME NEW t \in Completion, LoadPromptFails(t)
        PROVE  CallsTyped'
    BY <1>12, Values DEF CallsTyped, LoadPromptFails, MoveTo, EndJob, taskCount, pool, context,
        flags, history, unchangedByCleanup
  <1>13. ASSUME NEW t \in Completion, ContinueGeneration(t)
        PROVE  CallsTyped'
    BY <1>13, Values DEF CallsTyped, ContinueGeneration, MoveTo, taskCount, pool, context,
        flags, history, unchangedByCleanup
  <1>14. ASSUME NEW t \in Completion, DecodeToken(t)
        PROVE  CallsTyped'
    BY <1>14, Values DEF CallsTyped, DecodeToken, MoveTo, taskCount, pool, context, flags,
        history, unchangedByCleanup
  <1>15. ASSUME NEW t \in Completion, DecodeThrows(t)
        PROVE  CallsTyped'
    BY <1>15, Values DEF CallsTyped, DecodeThrows, MoveTo, EndJob, taskCount, pool, context,
        flags, history, unchangedByCleanup
  <1>16. ASSUME NEW t \in Completion, EndCompletion(t)
        PROVE  CallsTyped'
    BY <1>16, Values DEF CallsTyped, EndCompletion, MoveTo, EndJob, taskCount, pool, context,
        flags, history, unchangedByCleanup
  <1>17. ASSUME NEW r \in Release, ReleaseLookUp(r)
        PROVE  CallsTyped'
    BY <1>17, Values DEF CallsTyped, ReleaseLookUp, MoveTo, Settle, taskCount, pool, context,
        flags, history, unchangedByCleanup
  <1>18. ASSUME NEW r \in Release, ReleaseInterrupts(r)
        PROVE  CallsTyped'
    BY <1>18, Values DEF CallsTyped, ReleaseInterrupts, MoveTo, Interrupt, taskCount, pool,
        context, flags, history, unchangedByCleanup
  <1>19. ASSUME NEW r \in Release, ReleaseStopsWaiting(r)
        PROVE  CallsTyped'
    BY <1>19, Values DEF CallsTyped, ReleaseStopsWaiting, MoveTo, taskCount, pool, context,
        flags, history, unchangedByCleanup
  <1>20. ASSUME NEW r \in Release, RemoveContext(r)
        PROVE  CallsTyped'
    BY <1>20, Values DEF CallsTyped, RemoveContext, MoveTo, taskCount, pool, context, flags,
        history, unchangedByCleanup
  <1>21. ASSUME NEW r \in Release, DeleteContext(r)
        PROVE  CallsTyped'
    BY <1>21, Values DEF CallsTyped, DeleteContext, MoveTo, taskCount, pool, context, flags,
        history, unchangedByCleanup
  <1>22. ASSUME NEW c \in Call, Schedule(c)
        PROVE  CallsTyped'
    BY <1>22, Values DEF CallsTyped, Schedule, MoveTo, Settle, FinishTask, taskCount, pool,
        context, flags, history, unchangedByCleanup
  <1>23. QED
    BY <1>1, <1>2, <1>3, <1>4, <1>5, <1>6, <1>7, <1>8, <1>9, <1>10, <1>11, <1>12, <1>13, <1>14,
        <1>15, <1>16, <1>17, <1>18, <1>19, <1>20, <1>21, <1>22 DEF Next, Calls, JsThread, Job,
        ReleaseJob, CleanupThread, vars, StopCompletion, RunTokenCallback, TokenCallbackReturns,
        CleanupBegins, CleanupSnapshot, CleanupStopsPool, CleanupJoins, CleanupDeletes,
        Interrupt, taskCount, pool, context, flags, history, unchangedByCleanup

LEMMA CountsStep ==
  ASSUME CountsTyped, QueuesTyped, Next
  PROVE  CountsTyped'
  <1>1. CASE UNCHANGED <<shouldTrack, activeTasks, deletions>>
    BY <1>1, Values DEF CountsTyped
  <1>2. ASSUME NEW t \in Completion, DeliverResult(t)
        PROVE  CountsTyped'
    BY <1>2, Values DEF CountsTyped, DeliverResult, MoveTo, Settle, FinishTask, taskCount, pool,
        context, flags, history, unchangedByCleanup
  <1>3. CASE RunResultCallback
    BY <1>3, Values DEF CountsTyped, RunResultCallback, MoveTo, Settle, FinishTask, taskCount,
        pool, context, flags, history, unchangedByCleanup
  <1>4. ASSUME NEW t \in Completion, StartTask(t)
        PROVE  CountsTyped'
    <2>1. CASE shuttingDown
      BY <1>4, <2>1 DEF CountsTyped, StartTask, taskCount, context
    <2>2. CASE ~shuttingDown
      <3>1. /\ shouldTrack' = [shouldTrack EXCEPT ![t] = TRUE]
            /\ activeTasks' = activeTasks + 1 /\ UNCHANGED deletions
        BY <1>4, <2>2 DEF StartTask, context
      <3>2. shouldTrack' \in [Call -> BOOLEAN]
        BY <3>1, Values DEF CountsTyped
      <3>3. QED BY <3>1, <3>2 DEF CountsTyped
    <2>3. QED BY <2>1, <2>2
  <1>5. ASSUME NEW t \in Completion, LookUp(t)
        PROVE  CountsTyped'
    BY <1>5, Values DEF CountsTyped, LookUp, MoveTo, Settle, FinishTask, EndJob, taskCount,
        pool, context, flags, history, unchangedByCleanup
  <1>6. ASSUME NEW r \in Release, DeleteContext(r)
        PROVE  CountsTyped'
    BY <1>6, Values DEF CountsTyped, DeleteContext, MoveTo, taskCount, pool, context, flags,
        history, unchangedByCleanup
  <1>7. ASSUME NEW c \in Call, Schedule(c)
        PROVE  CountsTyped'
    BY <1>7, Values DEF CountsTyped, Schedule, MoveTo, Settle, FinishTask, taskCount, pool,
        context, flags, history, unchangedByCleanup
  <1>8. CASE CleanupDeletes
    BY <1>8, Values DEF CountsTyped, CleanupDeletes, taskCount, pool, context, flags, history,
        unchangedByCleanup
  <1>9. QED
    BY <1>1, <1>2, <1>3, <1>4, <1>5, <1>6, <1>7, <1>8 DEF Next, Calls, JsThread, Job,
        ReleaseJob, CleanupThread, vars, CallCompletion, CallRelease, StopCompletion,
        PostCompletion, RunTokenCallback, TokenCallbackReturns, Take, CheckBusy,
        BeginCompletion, LoadPromptFails, ContinueGeneration, DecodeToken, DecodeThrows,
        EndCompletion, ReleaseLookUp, ReleaseInterrupts, ReleaseStopsWaiting, RemoveContext,
        CleanupBegins, CleanupSnapshot, CleanupStopsPool, CleanupJoins, EndJob, Enqueue,
        Interrupt, MoveTo, Settle, taskCount, pool, context, flags, history, unchangedByCleanup

LEMMA DecodedStep ==
  ASSUME TokensTyped, CallsTyped, QueuesTyped, Next
  PROVE  TokensTyped'
  <1>1. CASE UNCHANGED <<stage, decoded, interrupted_at>>
    BY <1>1, Values DEF TokensTyped, CallsTyped
  <1>2. ASSUME NEW t \in Completion, CallCompletion(t)
        PROVE  TokensTyped'
    BY <1>2, Values DEF TokensTyped, CallsTyped, CallCompletion, MoveTo, Settle, taskCount,
        pool, context, flags, history, unchangedByCleanup
  <1>3. ASSUME NEW r \in Release, CallRelease(r)
        PROVE  TokensTyped'
    BY <1>3, Values DEF TokensTyped, CallsTyped, CallRelease, MoveTo, Enqueue, taskCount, pool,
        context, flags, history, unchangedByCleanup
  <1>4. ASSUME NEW t \in Completion, PostCompletion(t)
        PROVE  TokensTyped'
    <2>1. CASE is_predicting
      BY <1>4, <2>1, Values DEF TokensTyped, CallsTyped, PostCompletion, MoveTo, Settle, history
    <2>2. CASE ~is_predicting
      BY <1>4, <2>2, Values DEF TokensTyped, CallsTyped, PostCompletion, MoveTo, Enqueue
    <2>3. QED BY <2>1, <2>2
  <1>5. ASSUME NEW t \in Completion, DeliverResult(t)
        PROVE  TokensTyped'
    BY <1>5, Values DEF TokensTyped, CallsTyped, DeliverResult, MoveTo, Settle, FinishTask,
        taskCount, pool, context, flags, history, unchangedByCleanup
  <1>6. CASE RunResultCallback
    <2> DEFINE c == Head(callbacks).of
    <2>1. c \in Call
      BY <1>6, HeadAndTail, CallbackFields DEF RunResultCallback, QueuesTyped
    <2>2. UNCHANGED stage \/ MoveTo(c, "over")
      BY <1>6 DEF RunResultCallback, Settle
    <2>3. UNCHANGED <<decoded, interrupted_at>>
      BY <1>6 DEF RunResultCallback, history
    <2> HIDE DEF c
    <2>4. \A t \in Completion : stage'[t] = "decoding" => stage[t] = "decoding"
      BY <2>1, <2>2, Values DEF CallsTyped, MoveTo
    <2>5. QED BY <2>3, <2>4 DEF TokensTyped
  <1>7. CASE Take
    <2>1. Head(tasks) \in Call
      BY <1>7, HeadAndTail DEF Take, QueuesTyped
    <2>2. QED BY <1>7, <2>1 DEF TokensTyped, CallsTyped, Take, MoveTo, history
  <1>8. ASSUME NEW t \in Completion, StartTask(t)
        PROVE  TokensTyped'
    BY <1>8, Values DEF TokensTyped, CallsTyped, StartTask, MoveTo, Settle, taskCount, pool,
        context, flags, history, unchangedByCleanup
  <1>9. ASSUME NEW t \in Completion, LookUp(t)
        PROVE  TokensTyped'
    BY <1>9, Values DEF TokensTyped, CallsTyped, LookUp, MoveTo, Settle, FinishTask, EndJob,
        taskCount, pool, context, flags, history, unchangedByCleanup
  <1>10. ASSUME NEW t \in Completion, CheckBusy(t)
        PROVE  TokensTyped'
    BY <1>10, Values DEF TokensTyped, CallsTyped, CheckBusy, MoveTo, EndJob, taskCount, pool,
        context, flags, history, unchangedByCleanup
  <1>11. ASSUME NEW t \in Completion, BeginCompletion(t)
        PROVE  TokensTyped'
    BY <1>11, Values DEF TokensTyped, CallsTyped, BeginCompletion, MoveTo, taskCount, pool,
        context, flags, history, unchangedByCleanup
  <1>12. ASSUME NEW t \in Completion, LoadPromptFails(t)
        PROVE  TokensTyped'
    BY <1>12, Values DEF TokensTyped, CallsTyped, LoadPromptFails, MoveTo, EndJob, taskCount,
        pool, context, flags, history, unchangedByCleanup
  <1>13. ASSUME NEW t \in Completion, ContinueGeneration(t)
        PROVE  TokensTyped'
    BY <1>13, Values DEF TokensTyped, CallsTyped, ContinueGeneration, MoveTo, taskCount, pool,
        context, flags, history, unchangedByCleanup
  <1>14. ASSUME NEW t \in Completion, DecodeToken(t)
        PROVE  TokensTyped'
    <2>1. decoded' \in [Completion -> 0 .. MaxTokens]
      BY <1>14, ContextTasksAssumption DEF TokensTyped, DecodeToken
    <2>2. QED BY <1>14, <2>1, Values DEF TokensTyped, CallsTyped, DecodeToken, MoveTo, history
  <1>15. ASSUME NEW t \in Completion, DecodeThrows(t)
        PROVE  TokensTyped'
    BY <1>15, Values DEF TokensTyped, CallsTyped, DecodeThrows, MoveTo, EndJob, taskCount, pool,
        context, flags, history, unchangedByCleanup
  <1>16. ASSUME NEW t \in Completion, EndCompletion(t)
        PROVE  TokensTyped'
    BY <1>16, Values DEF TokensTyped, CallsTyped, EndCompletion, MoveTo, EndJob, taskCount,
        pool, context, flags, history, unchangedByCleanup
  <1>17. ASSUME NEW r \in Release, ReleaseLookUp(r)
        PROVE  TokensTyped'
    BY <1>17, Values DEF TokensTyped, CallsTyped, ReleaseLookUp, MoveTo, Settle, taskCount,
        pool, context, flags, history, unchangedByCleanup
  <1>18. ASSUME NEW r \in Release, ReleaseInterrupts(r)
        PROVE  TokensTyped'
    <2>1. interrupted_at' \in [Completion -> 0 .. MaxTokens]
      BY <1>18, ContextTasksAssumption DEF TokensTyped, ReleaseInterrupts, Interrupt
    <2>2. QED BY <1>18, <2>1, Values DEF TokensTyped, CallsTyped, ReleaseInterrupts, MoveTo
  <1>19. ASSUME NEW r \in Release, ReleaseStopsWaiting(r)
        PROVE  TokensTyped'
    BY <1>19, Values DEF TokensTyped, CallsTyped, ReleaseStopsWaiting, MoveTo, taskCount, pool,
        context, flags, history, unchangedByCleanup
  <1>20. ASSUME NEW r \in Release, RemoveContext(r)
        PROVE  TokensTyped'
    BY <1>20, Values DEF TokensTyped, CallsTyped, RemoveContext, MoveTo, taskCount, pool,
        context, flags, history, unchangedByCleanup
  <1>21. ASSUME NEW r \in Release, DeleteContext(r)
        PROVE  TokensTyped'
    BY <1>21, Values DEF TokensTyped, CallsTyped, DeleteContext, MoveTo, taskCount, pool,
        context, flags, history, unchangedByCleanup
  <1>22. ASSUME NEW c \in Call, Schedule(c)
        PROVE  TokensTyped'
    BY <1>22, Values DEF TokensTyped, CallsTyped, Schedule, MoveTo, Settle, FinishTask,
        taskCount, pool, context, flags, history, unchangedByCleanup
  <1>23. CASE StopCompletion
    BY <1>23, ContextTasksAssumption DEF TokensTyped, StopCompletion, Interrupt
  <1>24. CASE CleanupStopsPool
    BY <1>24, ContextTasksAssumption
    DEF TokensTyped, CleanupStopsPool, Interrupt, unchangedByCleanup
  <1>25. QED
    BY <1>1, <1>2, <1>3, <1>4, <1>5, <1>6, <1>7, <1>8, <1>9, <1>10, <1>11, <1>12, <1>13, <1>14,
        <1>15, <1>16, <1>17, <1>18, <1>19, <1>20, <1>21, <1>22, <1>23, <1>24 DEF Next, Calls,
        JsThread, Job, ReleaseJob, CleanupThread, vars, RunTokenCallback, TokenCallbackReturns,
        CleanupBegins, CleanupSnapshot, CleanupJoins, CleanupDeletes, taskCount, pool, context,
        flags, history, unchangedByCleanup

LEMMA QueuesStep ==
  ASSUME QueuesTyped, CallsTyped, Next
  PROVE  QueuesTyped'
  <1>1. CASE UNCHANGED <<tasks, callbacks, js>>
    BY <1>1, Values, CallbackValues DEF QueuesTyped
  <1>2. ASSUME NEW t \in Completion, CallCompletion(t)
        PROVE  QueuesTyped'
    BY <1>2, Values, CallbackValues DEF QueuesTyped, CallCompletion, MoveTo, Settle, taskCount,
        pool, context, flags, history, unchangedByCleanup
  <1>3. ASSUME NEW r \in Release, CallRelease(r)
        PROVE  QueuesTyped'
    <2>1. tasks' \in Seq(Call)
      BY <1>3, Values DEF CallRelease, Enqueue, QueuesTyped
    <2>2. QED BY <1>3, <2>1 DEF CallRelease, QueuesTyped
  <1>4. ASSUME NEW t \in Completion, PostCompletion(t)
        PROVE  QueuesTyped'
    <2>1. CASE is_predicting
      BY <1>4, <2>1, CallbackValues DEF QueuesTyped, PostCompletion, pool
    <2>2. CASE ~is_predicting
      BY <1>4, <2>2, CallbackValues, Values DEF QueuesTyped, PostCompletion, Enqueue
    <2>3. QED BY <2>1, <2>2
  <1>5. ASSUME NEW t \in Completion, DeliverResult(t)
        PROVE  QueuesTyped'
    BY <1>5, Values, CallbackValues DEF QueuesTyped, DeliverResult, MoveTo, Settle, FinishTask,
        taskCount, pool, context, flags, history, unchangedByCleanup
  <1>6. CASE RunTokenCallback
    <2> DEFINE m == Head(callbacks)
    <2>1. m \in Callback /\ m.kind = "token" /\ callbacks' \in Seq(Callback)
      BY <1>6, HeadAndTail DEF RunTokenCallback, QueuesTyped
    <2>2. m \in JsTask
      BY <2>1, CallbackFields
    <2>3. QED BY <1>6, <2>1, <2>2, CallbackValues DEF RunTokenCallback, QueuesTyped, pool
  <1>7. CASE TokenCallbackReturns
    BY <1>7, Values, CallbackValues DEF QueuesTyped, TokenCallbackReturns, taskCount, pool,
        context, flags, history, unchangedByCleanup
  <1>8. CASE RunResultCallback
    <2> DEFINE m == Head(callbacks)
    <2>1. m \in Callback /\ m.kind = "result" /\ callbacks' \in Seq(Callback)
      BY <1>8, HeadAndTail DEF RunResultCallback, QueuesTyped
    <2>2. reply[m.of] = "result" => m \in JsTask
      BY <2>1, CallbackFields DEF CallsTyped
    <2>3. UNCHANGED js \/ (reply[m.of] = "result" /\ js' = m)
      BY <1>8 DEF RunResultCallback
    <2>4. QED BY <1>8, <2>1, <2>2, <2>3 DEF RunResultCallback, QueuesTyped, pool
  <1>9. CASE Take
    <2>1. Tail(tasks) \in Seq(Call)
      BY <1>9, HeadAndTail DEF Take, QueuesTyped
    <2>2. QED BY <1>9, <2>1 DEF QueuesTyped, Take
  <1>10. ASSUME NEW t \in Completion, DecodeToken(t)
        PROVE  QueuesTyped'
    <2>1. [kind |-> "token", of |-> t] \in Callback
      BY CallbackValues
    <2>2. callbacks \in Seq(Callback)
      BY DEF QueuesTyped
    <2>3. \/ callbacks' = Append(callbacks, [kind |-> "token", of |-> t])
          \/ callbacks' = callbacks
      BY <1>10 DEF DecodeToken
    <2>4. Append(callbacks, [kind |-> "token", of |-> t]) \in Seq(Callback)
      BY <2>1, <2>2
    <2>5. callbacks' \in Seq(Callback)
      BY <2>2, <2>3, <2>4
    <2>6. QED BY <1>10, <2>5 DEF DecodeToken, QueuesTyped, pool
  <1>11. ASSUME NEW c \in Call, Schedule(c)
        PROVE  QueuesTyped'
    <2>1. callbacks' \in Seq(Callback)
      BY <1>11, CallbackValues DEF Schedule, QueuesTyped
    <2>2. QED BY <1>11, <2>1 DEF Schedule, QueuesTyped, pool
  <1>12. QED
    BY <1>1, <1>2, <1>3, <1>4, <1>5, <1>6, <1>7, <1>8, <1>9, <1>10, <1>11 DEF Next, Calls,
        JsThread, Job, ReleaseJob, CleanupThread, vars, StopCompletion, StartTask, LookUp,
        CheckBusy, BeginCompletion, LoadPromptFails, ContinueGeneration, DecodeThrows,
        EndCompletion, ReleaseLookUp, ReleaseInterrupts, ReleaseStopsWaiting, RemoveContext,
        DeleteContext, CleanupBegins, CleanupSnapshot, CleanupStopsPool, CleanupJoins,
        CleanupDeletes, EndJob, FinishTask, Interrupt, MoveTo, Settle, taskCount, pool, context,
        flags, history, unchangedByCleanup

LEMMA FlagsStep ==
  ASSUME FlagsTyped, Next
  PROVE  FlagsTyped'
  <1>1. CASE UNCHANGED <<stop, shuttingDown, registered, flags, timed_out, called_late, cleanup,
                      covered>>
    BY <1>1 DEF FlagsTyped, flags
  <1>2. ASSUME NEW r \in Release, CallRelease(r)
        PROVE  FlagsTyped'
    BY <1>2 DEF FlagsTyped, flags, CallRelease, MoveTo, Enqueue, taskCount, pool, context,
        flags, history, unchangedByCleanup
  <1>3. CASE StopCompletion
    BY <1>3 DEF FlagsTyped, flags, StopCompletion, Interrupt, taskCount, pool, context, flags,
        history, unchangedByCleanup
  <1>4. ASSUME NEW t \in Completion, PostCompletion(t)
        PROVE  FlagsTyped'
    <2>1. CASE is_predicting
      BY <1>4, <2>1 DEF FlagsTyped, PostCompletion, flags, pool, history, context
    <2>2. CASE ~is_predicting
      BY <1>4, <2>2 DEF FlagsTyped, PostCompletion, Enqueue, context
    <2>3. QED BY <2>1, <2>2
  <1>5. ASSUME NEW t \in Completion, BeginCompletion(t)
        PROVE  FlagsTyped'
    BY <1>5 DEF FlagsTyped, flags, BeginCompletion, MoveTo, taskCount, pool, context, flags,
        history, unchangedByCleanup
  <1>6. ASSUME NEW t \in Completion, LoadPromptFails(t)
        PROVE  FlagsTyped'
    BY <1>6 DEF FlagsTyped, flags, LoadPromptFails, MoveTo, EndJob, taskCount, pool, context,
        flags, history, unchangedByCleanup
  <1>7. ASSUME NEW t \in Completion, DecodeToken(t)
        PROVE  FlagsTyped'
    BY <1>7 DEF FlagsTyped, flags, DecodeToken, MoveTo, taskCount, pool, context, flags,
        history, unchangedByCleanup
  <1>8. ASSUME NEW t \in Completion, EndCompletion(t)
        PROVE  FlagsTyped'
    BY <1>8 DEF FlagsTyped, flags, EndCompletion, MoveTo, EndJob, taskCount, pool, context,
        flags, history, unchangedByCleanup
  <1>9. ASSUME NEW r \in Release, ReleaseInterrupts(r)
        PROVE  FlagsTyped'
    BY <1>9 DEF FlagsTyped, flags, ReleaseInterrupts, MoveTo, Interrupt, taskCount, pool,
        context, flags, history, unchangedByCleanup
  <1>10. ASSUME NEW r \in Release, ReleaseStopsWaiting(r)
        PROVE  FlagsTyped'
    BY <1>10 DEF FlagsTyped, flags, ReleaseStopsWaiting, MoveTo, taskCount, pool, context,
        flags, history, unchangedByCleanup
  <1>11. ASSUME NEW r \in Release, RemoveContext(r)
        PROVE  FlagsTyped'
    BY <1>11 DEF FlagsTyped, flags, RemoveContext, MoveTo, taskCount, pool, context, flags,
        history, unchangedByCleanup
  <1>12. CASE CleanupBegins
    BY <1>12 DEF FlagsTyped, flags, CleanupBegins, taskCount, pool, context, flags, history,
        unchangedByCleanup
  <1>13. CASE CleanupSnapshot
    BY <1>13 DEF FlagsTyped, flags, CleanupSnapshot, taskCount, pool, context, flags, history,
        unchangedByCleanup
  <1>14. CASE CleanupStopsPool
    BY <1>14 DEF FlagsTyped, flags, CleanupStopsPool, Interrupt, taskCount, pool, context,
        flags, history, unchangedByCleanup
  <1>15. CASE CleanupJoins
    BY <1>15 DEF FlagsTyped, flags, CleanupJoins, taskCount, pool, context, flags, history,
        unchangedByCleanup
  <1>16. CASE CleanupDeletes
    BY <1>16 DEF FlagsTyped, flags, CleanupDeletes, taskCount, pool, context, flags, history,
        unchangedByCleanup
  <1>17. QED
    BY <1>1, <1>2, <1>3, <1>4, <1>5, <1>6, <1>7, <1>8, <1>9, <1>10, <1>11, <1>12, <1>13, <1>14,
        <1>15, <1>16 DEF Next, Calls, JsThread, Job, ReleaseJob, CleanupThread, vars,
        CallCompletion, DeliverResult, RunTokenCallback, TokenCallbackReturns,
        RunResultCallback, Take, StartTask, LookUp, CheckBusy, ContinueGeneration, DecodeThrows,
        ReleaseLookUp, DeleteContext, Schedule, EndJob, FinishTask, MoveTo, Settle, taskCount,
        pool, context, flags, history, unchangedByCleanup

LEMMA TypeStep ==
  ASSUME TypeInv, [Next]_vars
  PROVE  TypeInv'
  <1>1. CASE UNCHANGED vars
    BY <1>1 DEF vars, taskCount, pool, context, flags, history, TypeInv, CallsTyped, CountsTyped,
       TokensTyped, QueuesTyped, FlagsTyped
  <1>2. CASE Next
    BY <1>2, CallsStep, CountsStep, DecodedStep, QueuesStep, FlagsStep DEF TypeInv
  <1>3. QED BY <1>1, <1>2

\* Every variable has its type, in every reachable state of every instance.
THEOREM TypeCorrect == Spec => []TypeOK
  <1>1. Spec => []TypeInv
    BY InitTyped, TypeStep, PTL DEF Spec
  <1>2. QED BY <1>1, TypeInvImplies, PTL

-----------------------------------------------------------------------------
(* Stages, the pool's queue and the callbacks                              *)

\* What most steps do: nothing to these variables, or one call moves on while it is
\* on a worker.  Once it has begun to generate, only the shutdown ends it without a callback.
Moves ==
  \/ UNCHANGED <<stage, tasks, callbacks, js>>
  \/ \E c \in Call, s \in Stage :
       /\ stage[c] \notin {"uncalled", "calling", "queued", "scheduled", "over"}
       /\ s \notin {"uncalled", "calling", "queued"}
       /\ s = "over" => shuttingDown
       /\ s \in Fresh => stage[c] \in Fresh
       /\ s \in Busy /\ shuttingDown => stage[c] \in Busy
       /\ stage[c] \in {"testing", "decoding", "ended"} /\ ~shuttingDown =>
            s \in {"testing", "decoding", "ended"}
       /\ MoveTo(c, s) /\ UNCHANGED <<tasks, callbacks, js>>

\* The other steps.
Handover ==
  \/ \E t \in Completion : CallCompletion(t) \/ PostCompletion(t) \/ DeliverResult(t)
                           \/ DecodeToken(t)
  \/ \E r \in Release : CallRelease(r)
  \/ RunTokenCallback \/ TokenCallbackReturns \/ RunResultCallback \/ Take
  \/ \E c \in Call : Schedule(c) /\ ~shuttingDown

LEMMA StepKinds ==
  ASSUME [Next]_vars
  PROVE  Moves \/ Handover
  <1>1. CASE UNCHANGED vars
    BY <1>1 DEF vars, pool, Moves
  <1>2. ASSUME NEW t \in Completion,
               \/ StartTask(t) \/ LookUp(t) \/ CheckBusy(t) \/ BeginCompletion(t)
               \/ LoadPromptFails(t) \/ ContinueGeneration(t) \/ DecodeThrows(t)
               \/ EndCompletion(t)
        PROVE  Moves
    <2>1. \E s \in {"over", "started", "holding", "ended", "checked", "testing", "decoding"} :
            /\ MoveTo(t, s) /\ (s = "over" => shuttingDown)
            /\ s \in Fresh => stage[t] \in Fresh
            /\ s \in Busy /\ shuttingDown => stage[t] \in Busy
            /\ stage[t] \in {"testing", "decoding", "ended"} =>
                 s \in {"testing", "decoding", "ended"}
      BY <1>2 DEF StartTask, LookUp, CheckBusy, BeginCompletion, LoadPromptFails,
         ContinueGeneration, DecodeThrows, EndCompletion, Settle, EndJob, Fresh, Busy
    <2>2. /\ stage[t] \notin {"uncalled", "calling", "queued", "scheduled", "over"}
          /\ UNCHANGED <<tasks, callbacks, js>>
      BY <1>2 DEF StartTask, LookUp, CheckBusy, BeginCompletion, LoadPromptFails,
         ContinueGeneration, DecodeThrows, EndCompletion, pool
    <2>3. QED BY <2>1, <2>2, Values DEF Moves
  <1>3. ASSUME NEW r \in Release,
               \/ ReleaseLookUp(r) \/ ReleaseInterrupts(r) \/ ReleaseStopsWaiting(r)
               \/ RemoveContext(r) \/ DeleteContext(r)
        PROVE  Moves
    <2>1. \E s \in {"over", "holding", "waiting", "removing", "ended", "deleting"} :
            /\ MoveTo(r, s) /\ (s = "over" => shuttingDown)
            /\ s \in Fresh => stage[r] \in Fresh
            /\ s \in Busy /\ shuttingDown => stage[r] \in Busy
      BY <1>3 DEF ReleaseLookUp, ReleaseInterrupts, ReleaseStopsWaiting, RemoveContext,
         DeleteContext, Settle, Fresh, Busy
    <2>2. /\ stage[r] \notin {"uncalled", "calling", "queued", "scheduled", "over"}
          /\ stage[r] \notin {"testing", "decoding", "ended"}
          /\ UNCHANGED <<tasks, callbacks, js>>
      BY <1>3 DEF ReleaseLookUp, ReleaseInterrupts, ReleaseStopsWaiting, RemoveContext,
         DeleteContext, pool
    <2>3. QED BY <2>1, <2>2, Values DEF Moves
  <1>4. ASSUME NEW c \in Call, Schedule(c), shuttingDown
        PROVE  Moves
    BY <1>4, Values DEF Moves, Schedule, Settle, pool, Fresh, Busy
  <1>5. CASE StopCompletion \/ CleanupBegins \/ CleanupThread
    BY <1>5 DEF Moves, StopCompletion, CleanupBegins, CleanupThread, CleanupSnapshot,
       CleanupStopsPool, CleanupJoins, CleanupDeletes, unchangedByCleanup, pool
  <1>6. QED
    BY <1>1, <1>2, <1>3, <1>4, <1>5
    DEF Next, Calls, JsThread, Job, ReleaseJob, Handover

LEMMA QueueKept ==
  ASSUME TypeInv, QueueInv, NEW c \in Call, NEW s \in Stage, stage[c] # "queued",
         MoveTo(c, s), UNCHANGED tasks
  PROVE  QueueInv'
  <1>1. \A i \in DOMAIN tasks : tasks[i] \in Call
    BY DEF TypeInv, QueuesTyped
  <1>2. QED BY <1>1 DEF QueueInv, MoveTo, TypeInv, CallsTyped

LEMMA Enqueued ==
  ASSUME TypeInv, QueueInv, NEW c \in Call, stage[c] # "queued",
         MoveTo(c, "queued"), Enqueue(c)
  PROVE  QueueInv'
  <1>1. /\ tasks \in Seq(Call) /\ tasks' = Append(tasks, c)
        /\ \A i \in DOMAIN tasks : tasks[i] \in Call /\ tasks[i] # c
    BY DEF TypeInv, QueuesTyped, QueueInv, Enqueue
  <1>2. /\ DOMAIN tasks' = 1 .. Len(tasks) + 1 /\ Len(tasks) \in Nat
        /\ DOMAIN tasks = 1 .. Len(tasks)
        /\ \A i \in DOMAIN tasks : tasks'[i] = tasks[i]
        /\ tasks'[Len(tasks) + 1] = c
    BY <1>1
  <1>3. \A i \in DOMAIN tasks' : i \in DOMAIN tasks \/ i = Len(tasks) + 1
    BY <1>2
  <1>4. QED BY <1>1, <1>2, <1>3, Values DEF QueueInv, MoveTo, TypeInv, CallsTyped

LEMMA QueueStep ==
  ASSUME TypeInv, QueueInv, ResultInv, [Next]_vars
  PROVE  QueueInv'
  <1>1. CASE Moves
    BY <1>1, QueueKept DEF Moves, QueueInv
  <1>2. ASSUME NEW t \in Completion, CallCompletion(t)
        PROVE  QueueInv'
    BY <1>2, QueueKept, Values DEF CallCompletion, Settle, pool
  <1>3. ASSUME NEW t \in Completion, PostCompletion(t)
        PROVE  QueueInv'
    <2>1. stage[t] # "queued"
      BY <1>3 DEF PostCompletion, ResultInv
    <2>2. CASE is_predicting
      BY <1>3, <2>1, <2>2, QueueKept, Values DEF PostCompletion, Settle, pool
    <2>3. CASE ~is_predicting
      BY <1>3, <2>1, <2>3, Enqueued, Values DEF PostCompletion
    <2>4. QED BY <2>2, <2>3
  <1>4. ASSUME NEW t \in Completion, DeliverResult(t)
        PROVE  QueueInv'
    <2>1. stage[t] # "queued"
      BY <1>4 DEF DeliverResult, ResultInv
    <2>2. QED BY <1>4, <2>1, QueueKept, Values DEF DeliverResult, Settle, pool
  <1>5. ASSUME NEW t \in Completion, DecodeToken(t)
        PROVE  QueueInv'
    BY <1>5, QueueKept, Values DEF DecodeToken, pool
  <1>6. ASSUME NEW r \in Release, CallRelease(r)
        PROVE  QueueInv'
    BY <1>6, Enqueued, Values DEF CallRelease
  <1>7. CASE RunTokenCallback \/ TokenCallbackReturns
    BY <1>7 DEF RunTokenCallback, TokenCallbackReturns, QueueInv, pool
  <1>8. CASE RunResultCallback
    <2> DEFINE c == Head(callbacks).of
    <2>1. c \in Call /\ stage[c] = "scheduled"
      BY <1>8, HeadAndTail, CallbackFields
      DEF RunResultCallback, ResultInv, Result, TypeInv, QueuesTyped
    <2>2. UNCHANGED stage \/ MoveTo(c, "over")
      BY <1>8 DEF RunResultCallback, Settle
    <2>3. UNCHANGED tasks
      BY <1>8 DEF RunResultCallback, pool
    <2> HIDE DEF c
    <2>4. QED BY <2>1, <2>2, <2>3, QueueKept, Values DEF QueueInv
  <1>9. CASE Take
    <2>1. /\ tasks \in Seq(Call) /\ tasks # <<>>
      BY <1>9 DEF Take, TypeInv, QueuesTyped
    <2>2. /\ Head(tasks) \in Call /\ Head(tasks) = tasks[1] /\ 1 \in DOMAIN tasks
          /\ \A i \in DOMAIN Tail(tasks) :
               i \in Nat /\ i + 1 \in DOMAIN tasks /\ Tail(tasks)[i] = tasks[i + 1]
      BY <2>1, HeadAndTail
    <2>3. \A i \in DOMAIN Tail(tasks) : i + 1 # 1 /\ tasks[i + 1] \in Call
      BY <2>1, <2>2
    <2>4. \A i \in DOMAIN Tail(tasks) : tasks[i + 1] # tasks[1]
      BY <2>2, <2>3 DEF QueueInv
    <2>5. \A i \in DOMAIN tasks' : stage'[tasks'[i]] = "queued"
      BY <1>9, <2>2, <2>3, <2>4 DEF Take, MoveTo, QueueInv, TypeInv, CallsTyped
    <2>6. \A i, j \in DOMAIN tasks' : tasks'[i] = tasks'[j] => i = j
      BY <1>9, <2>2 DEF Take, QueueInv
    <2>7. QED BY <2>5, <2>6 DEF QueueInv
  <1>10. ASSUME NEW c \in Call, Schedule(c)
         PROVE  QueueInv'
    BY <1>10, QueueKept, Values DEF Schedule, Settle, pool
  <1>11. QED
    BY <1>1, <1>2, <1>3, <1>4, <1>5, <1>6, <1>7, <1>8, <1>9, <1>10, StepKinds DEF Handover

\* A call that is not scheduled has no result callback, queued or running.
LEMMA NoResult ==
  ASSUME TypeInv, ResultInv, NEW c \in Call, stage[c] # "scheduled"
  PROVE  /\ \A i \in DOMAIN callbacks : ~Result(i, c)
         /\ js # [kind |-> "result", of |-> c]
  <1>1. \A i \in DOMAIN callbacks : ~Result(i, c)
    BY DEF ResultInv
  <1>2. ASSUME js = [kind |-> "result", of |-> c]
        PROVE  FALSE
    <2>1. js # Idle /\ js.of = c
      BY <1>2 DEF Idle
    <2>2. c \in Completion
      BY <2>1, JsFields DEF TypeInv, QueuesTyped
    <2>3. QED BY <1>2, <2>2 DEF ResultInv
  <1>3. QED BY <1>1, <1>2

LEMMA ResultKept ==
  ASSUME TypeInv, ResultInv, NEW c \in Call, NEW s \in Stage, stage[c] # "scheduled",
         MoveTo(c, s), UNCHANGED callbacks,
         js' = Idle \/ (UNCHANGED js /\ stage[c] # "calling")
  PROVE  ResultInv'
  <1>1. \A d \in Call : d # c => stage'[d] = stage[d]
    BY DEF MoveTo, TypeInv, CallsTyped
  <1>2. \A i \in DOMAIN callbacks : ~Result(i, c)
    BY NoResult
  <1>3. /\ \A d : Idle # [kind |-> "result", of |-> d]
        /\ \A d : Idle # [kind |-> "call", of |-> d]
    BY DEF Idle
  <1>4. \A t \in Completion :
          /\ js' = [kind |-> "call", of |-> t] => stage'[t] = "calling"
          /\ js' = [kind |-> "result", of |-> t] => stage'[t] = "scheduled"
    BY <1>1, <1>3, Values DEF ResultInv
  <1>5. \A i, d : Result(i, d)' <=> Result(i, d)
    BY DEF Result
  <1>6. QED BY <1>1, <1>2, <1>3, <1>4, <1>5 DEF ResultInv

LEMMA ResultStep ==
  ASSUME TypeInv, QueueInv, ResultInv, [Next]_vars
  PROVE  ResultInv'
  <1>0. /\ \A d : Idle # [kind |-> "result", of |-> d]
        /\ \A d : Idle # [kind |-> "call", of |-> d]
        /\ \A d, e : [kind |-> "token", of |-> d] # [kind |-> "result", of |-> e]
        /\ \A d, e : [kind |-> "token", of |-> d] # [kind |-> "call", of |-> e]
        /\ \A d, e : [kind |-> "result", of |-> d] # [kind |-> "call", of |-> e]
        /\ \A d, e : [kind |-> "call", of |-> d] = [kind |-> "call", of |-> e] => d = e
        /\ \A d, e : [kind |-> "result", of |-> d] = [kind |-> "result", of |-> e] => d = e
    BY DEF Idle
  <1>1. CASE Moves
    BY <1>1, ResultKept DEF Moves, ResultInv, Result
  <1>2. ASSUME NEW t \in Completion, CallCompletion(t)
        PROVE  ResultInv'
    <2>1. stage[t] = "uncalled" /\ UNCHANGED callbacks /\ t \in Call
      BY <1>2, Values DEF CallCompletion
    <2>2. CASE ~registered
      BY <1>2, <2>1, <2>2, ResultKept, Values DEF CallCompletion, Settle
    <2>3. CASE registered
      <3>1. js' = [kind |-> "call", of |-> t] /\ stage' = [stage EXCEPT ![t] = "calling"]
        BY <1>2, <2>3 DEF CallCompletion, MoveTo
      <3>2. \A i \in DOMAIN callbacks : ~Result(i, t)
        BY <2>1, NoResult
      <3>3. stage'[t] = "calling" /\ \A d \in Call : d # t => stage'[d] = stage[d]
        BY <2>1, <3>1 DEF TypeInv, CallsTyped
      <3>4. \A i, d : Result(i, d)' <=> Result(i, d)
        BY <2>1 DEF Result
      <3>5. QED BY <1>0, <2>1, <3>1, <3>2, <3>3, <3>4 DEF ResultInv
    <2>4. QED BY <2>2, <2>3
  <1>3. ASSUME NEW t \in Completion, PostCompletion(t)
        PROVE  ResultInv'
    <2>1. stage[t] = "calling" /\ UNCHANGED callbacks /\ js' = Idle /\ t \in Call
      BY <1>3, Values DEF PostCompletion, ResultInv
    <2>2. \E s \in Stage : MoveTo(t, s)
      BY <1>3, Values DEF PostCompletion, Settle
    <2>3. QED BY <2>1, <2>2, ResultKept
  <1>4. ASSUME NEW t \in Completion, DeliverResult(t)
        PROVE  ResultInv'
    <2>1. /\ js = [kind |-> "result", of |-> t] /\ js' = Idle /\ t \in Call
          /\ UNCHANGED callbacks /\ stage' = [stage EXCEPT ![t] = "over"]
      BY <1>4, Values DEF DeliverResult, Settle, MoveTo
    <2>2. \A i \in DOMAIN callbacks : ~Result(i, t)
      BY <2>1 DEF ResultInv
    <2>3. \A d \in Call : d # t => stage'[d] = stage[d]
      BY <2>1 DEF TypeInv, CallsTyped
    <2>4. \A i, d : Result(i, d)' <=> Result(i, d)
      BY <2>1 DEF Result
    <2>5. QED BY <1>0, <2>1, <2>2, <2>3, <2>4 DEF ResultInv
  <1>5. ASSUME NEW t \in Completion, DecodeToken(t)
        PROVE  ResultInv'
    <2>1. /\ stage[t] = "decoding" /\ UNCHANGED js /\ t \in Call
          /\ stage' = [stage EXCEPT ![t] = "testing"]
          /\ callbacks \in Seq(Callback)
      BY <1>5, Values DEF DecodeToken, MoveTo, TypeInv, QueuesTyped
    <2>2. \A i \in DOMAIN callbacks' : \A d :
            Result(i, d)' => i \in DOMAIN callbacks /\ Result(i, d)
      <3>1. CASE UNCHANGED callbacks
        BY <3>1 DEF Result
      <3>2. CASE callbacks' = Append(callbacks, [kind |-> "token", of |-> t])
        <4>1. /\ DOMAIN callbacks' = 1 .. Len(callbacks) + 1 /\ Len(callbacks) \in Nat
              /\ DOMAIN callbacks = 1 .. Len(callbacks)
              /\ \A i \in DOMAIN callbacks : callbacks'[i] = callbacks[i]
              /\ callbacks'[Len(callbacks) + 1] = [kind |-> "token", of |-> t]
          BY <2>1, <3>2
        <4>2. \A i \in DOMAIN callbacks' : i \in DOMAIN callbacks \/ i = Len(callbacks) + 1
          BY <4>1
        <4>3. QED BY <1>0, <4>1, <4>2 DEF Result
      <3>3. QED BY <1>5, <3>1, <3>2 DEF DecodeToken
    <2>3. \A d \in Call : stage[d] \in {"scheduled", "calling"} => stage'[d] = stage[d]
      BY <2>1 DEF TypeInv, CallsTyped
    <2>4. QED BY <2>1, <2>2, <2>3, Values DEF ResultInv
  <1>6. ASSUME NEW r \in Release, CallRelease(r)
        PROVE  ResultInv'
    BY <1>6, ResultKept, Values DEF CallRelease
  <1>7. CASE RunTokenCallback
    <2>1. /\ callbacks \in Seq(Callback) /\ callbacks # <<>>
          /\ callbacks' = Tail(callbacks) /\ UNCHANGED stage
          /\ js' = Idle \/ (js' = Head(callbacks) /\ Head(callbacks).kind = "token")
      BY <1>7 DEF RunTokenCallback, TypeInv, QueuesTyped
    <2>2. \A i \in DOMAIN callbacks' :
            i \in Nat /\ i + 1 \in DOMAIN callbacks /\ callbacks'[i] = callbacks[i + 1]
      BY <2>1, HeadAndTail
    <2>3. \A i \in DOMAIN callbacks' : \A d : Result(i, d)' => Result(i + 1, d)
      BY <2>2 DEF Result
    <2>4. \A d : /\ js' # [kind |-> "result", of |-> d]
                 /\ js' # [kind |-> "call", of |-> d]
      BY <1>0, <2>1
    <2>5. \A i, j \in DOMAIN callbacks' : i + 1 = j + 1 => i = j
      BY <2>2
    <2>6. QED BY <2>1, <2>2, <2>3, <2>4, <2>5 DEF ResultInv
  <1>8. CASE TokenCallbackReturns
    BY <1>0, <1>8 DEF TokenCallbackReturns, ResultInv, Result
  <1>9. CASE RunResultCallback
    <2> DEFINE c == Head(callbacks).of
    <2>1. /\ callbacks \in Seq(Callback) /\ callbacks # <<>>
          /\ callbacks' = Tail(callbacks) /\ Head(callbacks).kind = "result"
          /\ js = Idle
      BY <1>9 DEF RunResultCallback, TypeInv, QueuesTyped
    <2>2. /\ 1 \in DOMAIN callbacks /\ Head(callbacks) = callbacks[1]
          /\ Head(callbacks) \in Callback
          /\ \A i \in DOMAIN callbacks' :
               i \in Nat \ {0} /\ i + 1 \in DOMAIN callbacks /\ callbacks'[i] = callbacks[i + 1]
      BY <2>1, HeadAndTail
    <2>3. c \in Call /\ Result(1, c)
      BY <2>1, <2>2, CallbackFields DEF Result
    <2>4. stage[c] = "scheduled" /\ \A j \in DOMAIN callbacks : Result(j, c) => j = 1
      BY <2>2, <2>3 DEF ResultInv
    <2>5. \/ UNCHANGED stage /\ js' = [kind |-> "result", of |-> c]
          \/ stage' = [stage EXCEPT ![c] = "over"] /\ js' = Idle
      BY <1>9, <2>1, <2>3, <2>2 DEF RunResultCallback, Settle, MoveTo, Result
    <2> HIDE DEF c
    <2>6. \A d \in Call : d # c => stage'[d] = stage[d]
      BY <2>3, <2>5 DEF TypeInv, CallsTyped
    <2>7. \A i \in DOMAIN callbacks' : \A d :
            Result(i, d)' => Result(i + 1, d) /\ i + 1 # 1 /\ d # c
      <3>1. \A i \in DOMAIN callbacks' : i + 1 # 1
        BY <2>2
      <3>2. \A i \in DOMAIN callbacks' : \A d : Result(i, d)' => Result(i + 1, d)
        BY <2>2 DEF Result
      <3>3. QED BY <2>2, <2>4, <3>1, <3>2
    <2>8. \A i, j \in DOMAIN callbacks' : i + 1 = j + 1 => i = j
      BY <2>2
    <2>9. \A i \in DOMAIN callbacks' : \A d \in Call : Result(i, d)' =>
            /\ stage'[d] = "scheduled" /\ js' # [kind |-> "result", of |-> d]
            /\ \A j \in DOMAIN callbacks' : Result(j, d)' => i = j
      BY <1>0, <2>2, <2>5, <2>6, <2>7, <2>8 DEF ResultInv
    <2>10. \A t \in Completion :
             /\ js' = [kind |-> "call", of |-> t] => stage'[t] = "calling"
             /\ js' = [kind |-> "result", of |-> t] => stage'[t] = "scheduled"
      BY <1>0, <2>4, <2>5
    <2>11. QED BY <2>9, <2>10 DEF ResultInv
  <1>10. CASE Take
    <2>1. Head(tasks) \in Call /\ UNCHANGED <<callbacks, js>> /\ MoveTo(Head(tasks), "taken")
      BY <1>10, HeadAndTail DEF Take, TypeInv, QueuesTyped
    <2>2. stage[Head(tasks)] = "queued"
      BY <1>10, HeadAndTail DEF Take, TypeInv, QueuesTyped, QueueInv
    <2>3. QED BY <2>1, <2>2, ResultKept, Values
  <1>11. ASSUME NEW c \in Call, Schedule(c), ~shuttingDown
         PROVE  ResultInv'
    <2>1. /\ stage[c] = "ended" /\ UNCHANGED js /\ stage' = [stage EXCEPT ![c] = "scheduled"]
          /\ callbacks' = Append(callbacks, [kind |-> "result", of |-> c])
          /\ callbacks \in Seq(Callback)
      BY <1>11 DEF Schedule, MoveTo, TypeInv, QueuesTyped
    <2>2. /\ DOMAIN callbacks' = 1 .. Len(callbacks) + 1 /\ Len(callbacks) \in Nat
          /\ DOMAIN callbacks = 1 .. Len(callbacks)
          /\ \A i \in DOMAIN callbacks : callbacks'[i] = callbacks[i]
          /\ callbacks'[Len(callbacks) + 1] = [kind |-> "result", of |-> c]
      BY <2>1
    <2>3. \A i \in DOMAIN callbacks' : i \in DOMAIN callbacks \/ i = Len(callbacks) + 1
      BY <2>2
    <2>4. /\ \A i \in DOMAIN callbacks : ~Result(i, c)
          /\ js # [kind |-> "result", of |-> c]
      BY <2>1, NoResult
    <2>5. stage'[c] = "scheduled" /\ \A d \in Call : d # c => stage'[d] = stage[d]
      BY <2>1 DEF TypeInv, CallsTyped
    <2>6. \A i \in DOMAIN callbacks' : \A d : Result(i, d)' =>
            \/ d = c /\ i = Len(callbacks) + 1
            \/ d # c /\ i \in DOMAIN callbacks /\ Result(i, d)
      BY <1>0, <2>2, <2>3, <2>4 DEF Result
    <2>7. \A i \in DOMAIN callbacks' : \A d \in Call : Result(i, d)' =>
            /\ stage'[d] = "scheduled" /\ js' # [kind |-> "result", of |-> d]
            /\ \A j \in DOMAIN callbacks' : Result(j, d)' => i = j
      BY <2>1, <2>4, <2>5, <2>6 DEF ResultInv
    <2>8. \A t \in Completion :
             /\ js' = [kind |-> "call", of |-> t] => stage'[t] = "calling"
             /\ js' = [kind |-> "result", of |-> t] => stage'[t] = "scheduled"
      BY <2>1, <2>5, Values DEF ResultInv
    <2>9. QED BY <2>7, <2>8 DEF ResultInv
  <1>12. QED
    BY <1>1, <1>2, <1>3, <1>4, <1>5, <1>6, <1>7, <1>8, <1>9, <1>10, <1>11, StepKinds
    DEF Handover

LEMMA StageInit ==
  ASSUME Init
  PROVE  StageInv
  <1>1. DOMAIN tasks = {} /\ DOMAIN callbacks = {}
    BY DEF Init
  <1>2. \A t : js # [kind |-> "call", of |-> t] /\ js # [kind |-> "result", of |-> t]
    BY DEF Init, Idle
  <1>3. QED BY <1>1, <1>2 DEF StageInv, QueueInv, ResultInv

LEMMA StageStep ==
  ASSUME TypeInv, StageInv, [Next]_vars
  PROVE  StageInv'
  BY QueueStep, ResultStep DEF StageInv

-----------------------------------------------------------------------------
(* The count of tasks                                                      *)

LEMMA CountedSame ==
  ASSUME CountInv, UNCHANGED <<shouldTrack, activeTasks>>, Counted' = Counted,
         \A t \in Completion : stage'[t] \in Working => stage[t] \in Working
  PROVE  CountInv'
  BY DEF CountInv

\* A call that was not counted moves on without being counted, or a counted one stays so.
LEMMA MoveCountedSame ==
  ASSUME TypeInv, CountInv, NEW c \in Call, NEW s, MoveTo(c, s), UNCHANGED taskCount,
         c \in Completion => (stage[c] \in Working <=> s \in Working)
  PROVE  CountInv'
  <1>1. \A d \in Call : stage'[d] = IF d = c THEN s ELSE stage[d]
    BY DEF MoveTo, TypeInv, CallsTyped
  <1>2. UNCHANGED <<shouldTrack, activeTasks>>
    BY DEF taskCount
  <1>3. c \in Completion \/ ~shouldTrack[c]
    BY DEF CountInv, Call
  <1>4. Counted' = Counted
    BY <1>1, <1>2, <1>3 DEF Counted
  <1>5. \A t \in Completion : stage'[t] \in Working => stage[t] \in Working
    BY <1>1, Values
  <1>6. QED BY <1>2, <1>4, <1>5, CountedSame

\* A call ends its task, or was never counted.
LEMMA EndCounted ==
  ASSUME TypeInv, CountInv, NEW c \in Call, stage[c] \in Working,
         MoveTo(c, "over"), FinishTask(c)
  PROVE  CountInv'
  <1>1. /\ \A d \in Call : stage'[d] = IF d = c THEN "over" ELSE stage[d]
        /\ "over" \notin Working
    BY DEF MoveTo, TypeInv, CallsTyped, Working
  <1>2. UNCHANGED shouldTrack
    BY DEF FinishTask
  <1>3. Counted' = Counted \ {c}
    BY <1>1, <1>2 DEF Counted
  <1>4. /\ IsFiniteSet(Counted') /\ IsFiniteSet(Counted)
        /\ Cardinality(Counted') = IF c \in Counted THEN Cardinality(Counted) - 1
                                                   ELSE Cardinality(Counted)
    BY <1>3, FS_RemoveElement DEF CountInv
  <1>5. c \in Counted <=> shouldTrack[c]
    BY DEF Counted
  <1>6. c \in Counted => Cardinality(Counted) # 0
    BY <1>4, FS_EmptySet
  <1>7. Cardinality(Counted) \in Nat
    BY <1>4, FS_CardinalityType
  <1>8. activeTasks' = Cardinality(Counted')
    BY <1>4, <1>5, <1>6, <1>7 DEF FinishTask, CountInv
  <1>9. \A t \in Completion : stage'[t] \in Working => stage[t] \in Working
    BY <1>1, Values
  <1>10. QED BY <1>2, <1>4, <1>8, <1>9 DEF CountInv

LEMMA CountStep ==
  ASSUME TypeInv, StageInv, CountInv, [Next]_vars
  PROVE  CountInv'
  <1> USE DEF Working
  <1>1. CASE UNCHANGED <<stage, taskCount>>
    BY <1>1 DEF CountInv, Counted, taskCount
  <1>2. ASSUME NEW t \in Completion, CallCompletion(t) \/ PostCompletion(t)
        PROVE  CountInv'
    <2>1. /\ stage[t] \in {"uncalled", "calling"} /\ UNCHANGED taskCount
          /\ \E s \in {"calling", "over", "queued"} : MoveTo(t, s)
      BY <1>2 DEF CallCompletion, PostCompletion, Settle, StageInv, ResultInv
    <2>2. QED BY <2>1, MoveCountedSame, Values
  <1>3. ASSUME NEW t \in Completion, DeliverResult(t)
        PROVE  CountInv'
    BY <1>3, EndCounted, Values DEF DeliverResult, Settle, StageInv, ResultInv
  <1>4. ASSUME NEW r \in Release, CallRelease(r)
        PROVE  CountInv'
    BY <1>4, MoveCountedSame, Values, ContextTasksAssumption DEF CallRelease
  <1>5. CASE RunResultCallback
    <2> DEFINE c == Head(callbacks).of
    <2>1. c \in Call /\ stage[c] = "scheduled"
      BY <1>5, HeadAndTail, CallbackFields
      DEF RunResultCallback, StageInv, ResultInv, Result, TypeInv, QueuesTyped
    <2>2. \/ UNCHANGED <<stage, taskCount>>
          \/ MoveTo(c, "over") /\ FinishTask(c)
      BY <1>5 DEF RunResultCallback, Settle
    <2> HIDE DEF c
    <2>3. QED BY <1>1, <2>1, <2>2, EndCounted
  <1>6. CASE Take
    <2>1. /\ Head(tasks) \in Call /\ stage[Head(tasks)] = "queued"
          /\ MoveTo(Head(tasks), "taken") /\ UNCHANGED taskCount
      BY <1>6, HeadAndTail DEF Take, TypeInv, QueuesTyped, StageInv, QueueInv
    <2>2. QED BY <2>1, MoveCountedSame
  <1>7. ASSUME NEW t \in Completion, StartTask(t)
        PROVE  CountInv'
    <2>1. CASE shuttingDown
      BY <1>7, <2>1, MoveCountedSame, Values DEF StartTask, Settle
    <2>2. CASE ~shuttingDown
      <3>1. /\ t \in Call /\ stage[t] = "taken" /\ activeTasks' = activeTasks + 1
            /\ stage' = [stage EXCEPT ![t] = "started"]
            /\ shouldTrack' = [shouldTrack EXCEPT ![t] = TRUE]
        BY <1>7, <2>2, Values DEF StartTask, MoveTo
      <3>2. /\ \A d \in Call : d # t => stage'[d] = stage[d] /\ shouldTrack'[d] = shouldTrack[d]
            /\ stage'[t] = "started" /\ shouldTrack'[t]
        BY <3>1 DEF TypeInv, CallsTyped, CountsTyped
      <3>3. Counted' = Counted \cup {t} /\ t \notin Counted
        BY <3>1, <3>2 DEF Counted
      <3>4. IsFiniteSet(Counted') /\ Cardinality(Counted') = Cardinality(Counted) + 1
        BY <3>3, FS_AddElement DEF CountInv
      <3>5. \A r \in Release : ~shouldTrack'[r]
        BY <3>2, Values, ContextTasksAssumption DEF CountInv
      <3>6. \A u \in Completion : stage'[u] \in Working => shouldTrack'[u]
        BY <3>2, Values DEF CountInv
      <3>7. QED BY <3>1, <3>4, <3>5, <3>6 DEF CountInv
    <2>3. QED BY <2>1, <2>2
  <1>8. ASSUME NEW t \in Completion, LookUp(t)
        PROVE  CountInv'
    BY <1>8, MoveCountedSame, EndCounted, Values DEF LookUp, Settle, EndJob
  <1>9. ASSUME NEW t \in Completion,
               \/ CheckBusy(t) \/ BeginCompletion(t) \/ LoadPromptFails(t)
               \/ ContinueGeneration(t) \/ DecodeToken(t) \/ DecodeThrows(t)
               \/ EndCompletion(t)
        PROVE  CountInv'
    <2>1. /\ stage[t] \in {"holding", "checked", "testing", "decoding"} /\ UNCHANGED taskCount
          /\ \E s \in {"ended", "checked", "testing", "decoding"} : MoveTo(t, s)
      BY <1>9 DEF CheckBusy, BeginCompletion, LoadPromptFails, ContinueGeneration, DecodeToken,
         DecodeThrows, EndCompletion, EndJob
    <2>2. QED BY <2>1, MoveCountedSame, Values
  <1>10. ASSUME NEW r \in Release,
                \/ ReleaseLookUp(r) \/ ReleaseInterrupts(r) \/ ReleaseStopsWaiting(r)
                \/ RemoveContext(r) \/ DeleteContext(r)
         PROVE  CountInv'
    <2>1. UNCHANGED taskCount /\ \E s : MoveTo(r, s)
      BY <1>10 DEF ReleaseLookUp, ReleaseInterrupts, ReleaseStopsWaiting, RemoveContext,
         DeleteContext, Settle
    <2>2. QED BY <2>1, MoveCountedSame, Values, ContextTasksAssumption
  <1>11. ASSUME NEW c \in Call, Schedule(c)
         PROVE  CountInv'
    BY <1>11, MoveCountedSame, EndCounted DEF Schedule, Settle
  <1>12. QED
    BY <1>1, <1>2, <1>3, <1>4, <1>5, <1>6, <1>7, <1>8, <1>9, <1>10, <1>11
    DEF Next, Calls, JsThread, Job, ReleaseJob, CleanupThread, vars, StopCompletion,
        RunTokenCallback, TokenCallbackReturns, CleanupBegins, CleanupSnapshot, CleanupStopsPool,
        CleanupJoins, CleanupDeletes, unchangedByCleanup

LEMMA CountInit == Init => CountInv
  <1> SUFFICES ASSUME Init
               PROVE  CountInv
    OBVIOUS
  <1>1. Counted = {} /\ \A c \in Call : stage[c] \notin Working /\ ~shouldTrack[c]
    BY DEF Init, Counted, Working
  <1>2. QED BY <1>1, FS_EmptySet, Values DEF Init, CountInv

-----------------------------------------------------------------------------
(* The order of a call's callbacks                                         *)

LEMMA ShutdownFlag ==
  ASSUME TokensInv, [Next]_vars
  PROVE  /\ shuttingDown' <=> cleanup' # "no"
         /\ cleanup' = "no" => cleanup = "no"
  <1>1. CASE UNCHANGED <<shuttingDown, cleanup>>
    BY <1>1 DEF TokensInv
  <1>2. CASE CleanupBegins
    BY <1>2 DEF CleanupBegins
  <1>3. CASE CleanupThread
    BY <1>3 DEF CleanupThread, CleanupSnapshot, CleanupStopsPool, CleanupJoins, CleanupDeletes,
       TokensInv
  <1>4. QED
    BY <1>1, <1>2, <1>3
    DEF Next, vars, Calls, JsThread, Job, ReleaseJob, CallCompletion, CallRelease,
        StopCompletion, PostCompletion, DeliverResult, RunTokenCallback, TokenCallbackReturns,
        RunResultCallback, Take, StartTask, LookUp, CheckBusy, BeginCompletion, LoadPromptFails,
        ContinueGeneration, DecodeToken, DecodeThrows, EndCompletion, ReleaseLookUp,
        ReleaseInterrupts, ReleaseStopsWaiting, RemoveContext, DeleteContext, Schedule

\* Before the shutdown.
TokensOf(t) ==
  /\ js = [kind |-> "token", of |-> t] => stage[t] # "over"
  /\ \A i \in DOMAIN callbacks : Token(i, t) =>
       /\ stage[t] \in {"testing", "decoding", "ended", "scheduled"}
       /\ js # [kind |-> "result", of |-> t]
       /\ \A j \in DOMAIN callbacks : Result(j, t) => i < j

LEMMA TokensKept ==
  ASSUME TypeInv, NEW t \in Completion, TokensOf(t), NEW c \in Call, NEW s,
         MoveTo(c, s), UNCHANGED <<callbacks, js>>,
         s # "over",
         stage[c] \in {"testing", "decoding", "ended", "scheduled"} =>
           s \in {"testing", "decoding", "ended", "scheduled"}
  PROVE  TokensOf(t)'
  <1>1. stage'[t] = IF c = t THEN s ELSE stage[t]
    BY Values DEF MoveTo, TypeInv, CallsTyped
  <1>2. /\ \A i, d : Result(i, d)' <=> Result(i, d)
        /\ \A i, d : Token(i, d)' <=> Token(i, d)
    BY DEF Result, Token
  <1>3. QED BY <1>1, <1>2 DEF TokensOf

LEMMA TokensStep ==
  ASSUME TypeInv, StageInv, TokensInv, [Next]_vars
  PROVE  TokensInv'
  <1>0. /\ \A d : Idle # [kind |-> "result", of |-> d]
        /\ \A d : Idle # [kind |-> "token", of |-> d]
        /\ \A d, e : [kind |-> "token", of |-> d] # [kind |-> "result", of |-> e]
        /\ \A d, e : [kind |-> "call", of |-> d] # [kind |-> "token", of |-> e]
        /\ \A d, e : [kind |-> "call", of |-> d] # [kind |-> "result", of |-> e]
        /\ \A d, e : [kind |-> "token", of |-> d] = [kind |-> "token", of |-> e] => d = e
        /\ \A d, e : [kind |-> "result", of |-> d] = [kind |-> "result", of |-> e] => d = e
    BY DEF Idle
  <1> SUFFICES ASSUME cleanup = "no", cleanup' = "no", ~shuttingDown, NEW u \in Completion
               PROVE  TokensOf(u)'
    BY ShutdownFlag DEF TokensInv, TokensOf
  <1>1. TokensOf(u) /\ u \in Call
    BY Values DEF TokensInv, TokensOf
  <1>2. CASE Moves
    <2>1. CASE UNCHANGED <<stage, tasks, callbacks, js>>
      BY <1>1, <2>1 DEF TokensOf, Token, Result
    <2>2. ASSUME NEW c \in Call, NEW s \in Stage,
                 /\ stage[c] \notin {"uncalled", "calling", "queued", "scheduled", "over"}
                 /\ s = "over" => shuttingDown
                 /\ stage[c] \in {"testing", "decoding", "ended"} /\ ~shuttingDown =>
                      s \in {"testing", "decoding", "ended"}
                 /\ MoveTo(c, s) /\ UNCHANGED <<tasks, callbacks, js>>
          PROVE  TokensOf(u)'
      BY <1>1, <2>2, TokensKept
    <2>3. QED BY <1>2, <2>1, <2>2 DEF Moves
  <1>3. ASSUME NEW t \in Completion, CallCompletion(t) \/ PostCompletion(t)
        PROVE  TokensOf(u)'
    <2>1. /\ stage[t] \in {"uncalled", "calling"} /\ UNCHANGED callbacks
          /\ \/ UNCHANGED js \/ js' = Idle \/ js' = [kind |-> "call", of |-> t]
          /\ \E s : MoveTo(t, s)
          /\ js = Idle \/ js = [kind |-> "call", of |-> t]
      BY <1>3 DEF CallCompletion, PostCompletion, Settle, StageInv, ResultInv
    <2>2. \A d : js' # [kind |-> "token", of |-> d] /\ js' # [kind |-> "result", of |-> d]
      BY <1>0, <2>1
    <2>3. u # t => stage'[u] = stage[u]
      BY <1>1, <2>1 DEF MoveTo, TypeInv, CallsTyped
    <2>4. /\ \A i, d : Result(i, d)' <=> Result(i, d)
          /\ \A i, d : Token(i, d)' <=> Token(i, d)
      BY <2>1 DEF Result, Token
    <2>5. u = t => \A i \in DOMAIN callbacks : ~Token(i, u)
      BY <1>1, <2>1 DEF TokensOf
    <2>6. QED BY <1>1, <2>1, <2>2, <2>3, <2>4, <2>5 DEF TokensOf
  <1>4. ASSUME NEW t \in Completion, DeliverResult(t)
        PROVE  TokensOf(u)'
    <2>1. /\ js = [kind |-> "result", of |-> t] /\ js' = Idle
          /\ UNCHANGED callbacks /\ MoveTo(t, "over")
      BY <1>4 DEF DeliverResult, Settle
    <2>2. u # t => stage'[u] = stage[u]
      BY <1>1, <2>1 DEF MoveTo, TypeInv, CallsTyped
    <2>3. /\ \A i, d : Result(i, d)' <=> Result(i, d)
          /\ \A i, d : Token(i, d)' <=> Token(i, d)
      BY <2>1 DEF Result, Token
    <2>4. u = t => \A i \in DOMAIN callbacks : ~Token(i, u)
      BY <1>1, <2>1 DEF TokensOf
    <2>5. QED BY <1>0, <1>1, <2>1, <2>2, <2>3, <2>4 DEF TokensOf
  <1>5. ASSUME NEW t \in Completion, DecodeToken(t)
        PROVE  TokensOf(u)'
    <2>1. /\ stage[t] = "decoding" /\ UNCHANGED js /\ t \in Call /\ MoveTo(t, "testing")
          /\ callbacks \in Seq(Callback)
      BY <1>5, Values DEF DecodeToken, TypeInv, QueuesTyped
    <2>2. stage'[u] = IF u = t THEN "testing" ELSE stage[u]
      BY <1>1, <2>1 DEF MoveTo, TypeInv, CallsTyped
    <2>3. /\ \A i \in DOMAIN callbacks : ~Result(i, t)
          /\ js # [kind |-> "result", of |-> t]
      BY <2>1, NoResult DEF StageInv
    <2>4. CASE UNCHANGED callbacks
      BY <1>1, <2>1, <2>2, <2>4 DEF TokensOf, Token, Result
    <2>5. CASE callbacks' = Append(callbacks, [kind |-> "token", of |-> t])
      <3>1. /\ DOMAIN callbacks' = 1 .. Len(callbacks) + 1 /\ Len(callbacks) \in Nat
            /\ DOMAIN callbacks = 1 .. Len(callbacks)
            /\ \A i \in DOMAIN callbacks : callbacks'[i] = callbacks[i]
            /\ callbacks'[Len(callbacks) + 1] = [kind |-> "token", of |-> t]
        BY <2>1, <2>5
      <3>2. \A i \in DOMAIN callbacks' : i \in DOMAIN callbacks \/ i = Len(callbacks) + 1
        BY <3>1
      <3>3. \A i \in DOMAIN callbacks' : \A d :
              /\ Result(i, d)' => i \in DOMAIN callbacks /\ Result(i, d)
              /\ Token(i, d)' => d = t \/ (i \in DOMAIN callbacks /\ Token(i, d))
        BY <1>0, <3>1, <3>2 DEF Result, Token
      <3>4. QED BY <1>1, <2>1, <2>2, <2>3, <3>3 DEF TokensOf
    <2>6. QED BY <1>5, <2>4, <2>5 DEF DecodeToken
  <1>6. ASSUME NEW r \in Release, CallRelease(r)
        PROVE  TokensOf(u)'
    BY <1>1, <1>6, TokensKept, Values DEF CallRelease
  <1>7. CASE RunTokenCallback \/ RunResultCallback
    <2> DEFINE m == Head(callbacks)
    <2>1. /\ callbacks \in Seq(Callback) /\ callbacks # <<>>
          /\ callbacks' = Tail(callbacks) /\ js = Idle
      BY <1>7 DEF RunTokenCallback, RunResultCallback, TypeInv, QueuesTyped
    <2>2. /\ 1 \in DOMAIN callbacks /\ m = callbacks[1] /\ m \in Callback
          /\ \A i \in DOMAIN callbacks' : /\ i \in Nat \ {0} /\ i + 1 \in DOMAIN callbacks
                                          /\ callbacks'[i] = callbacks[i + 1]
      BY <2>1, HeadAndTail
    <2>3. \A i \in DOMAIN callbacks' : \A d :
            /\ Result(i, d)' => Result(i + 1, d)
            /\ Token(i, d)' => Token(i + 1, d)
      BY <2>2 DEF Result, Token
    <2>4. \A i, j \in DOMAIN callbacks' : /\ i + 1 < j + 1 => i < j
                                          /\ ~(i + 1 < 1)
      BY <2>2
    <2>5. m.of \in Call /\ m = [kind |-> m.kind, of |-> m.of]
      BY <2>2, CallbackFields
    <2>6. CASE RunTokenCallback
      <3>1. UNCHANGED stage /\ m.kind = "token" /\ (js' = Idle \/ js' = m)
        BY <2>6 DEF RunTokenCallback
      <3>2. \A i \in DOMAIN callbacks' : Token(i, u)' =>
              /\ stage[u] \in {"testing", "decoding", "ended", "scheduled"}
              /\ \A j \in DOMAIN callbacks' : Result(j, u)' => i < j
        BY <1>1, <2>2, <2>3, <2>4 DEF TokensOf
      <3>3. \A d : js' # [kind |-> "result", of |-> d]
        BY <1>0, <2>5, <3>1
      <3>4. js' = [kind |-> "token", of |-> u] => Token(1, u)
        BY <1>0, <2>2, <3>1 DEF Token
      <3>5. js' = [kind |-> "token", of |-> u] => stage[u] # "over"
        BY <1>1, <2>2, <3>4 DEF TokensOf
      <3>6. QED BY <3>1, <3>2, <3>3, <3>5 DEF TokensOf
    <2>7. CASE RunResultCallback
      <3>1. /\ m.kind = "result"
            /\ \/ UNCHANGED stage /\ js' = m
               \/ MoveTo(m.of, "over") /\ js' = Idle
        BY <2>1, <2>7 DEF RunResultCallback, Settle
      <3>2. Result(1, m.of)
        BY <2>2, <2>5, <3>1 DEF Result
      <3>3. \A i \in DOMAIN callbacks' : Token(i, u)' => u # m.of
        BY <1>1, <2>2, <2>3, <2>4, <3>2 DEF TokensOf
      <3>4. u # m.of => stage'[u] = stage[u]
        BY <1>1, <2>5, <3>1 DEF MoveTo, TypeInv, CallsTyped
      <3>5. \A i \in DOMAIN callbacks' : Token(i, u)' =>
              /\ stage[u] \in {"testing", "decoding", "ended", "scheduled"}
              /\ \A j \in DOMAIN callbacks' : Result(j, u)' => i < j
        BY <1>1, <2>2, <2>3, <2>4 DEF TokensOf
      <3>6. /\ js' # [kind |-> "token", of |-> u]
            /\ u # m.of => js' # [kind |-> "result", of |-> u]
        BY <1>0, <2>5, <3>1
      <3>7. QED BY <3>3, <3>4, <3>5, <3>6 DEF TokensOf
    <2>8. QED BY <1>7, <2>6, <2>7
  <1>8. CASE TokenCallbackReturns
    BY <1>0, <1>1, <1>8 DEF TokenCallbackReturns, TokensOf, Token, Result
  <1>9. CASE Take
    <2>1. /\ Head(tasks) \in Call /\ stage[Head(tasks)] = "queued"
          /\ MoveTo(Head(tasks), "taken") /\ UNCHANGED <<callbacks, js>>
      BY <1>9, HeadAndTail DEF Take, TypeInv, QueuesTyped, StageInv, QueueInv
    <2>2. QED BY <1>1, <2>1, TokensKept
  <1>10. ASSUME NEW c \in Call, Schedule(c)
         PROVE  TokensOf(u)'
    <2>1. /\ stage[c] = "ended" /\ UNCHANGED js /\ MoveTo(c, "scheduled")
          /\ callbacks' = Append(callbacks, [kind |-> "result", of |-> c])
          /\ callbacks \in Seq(Callback)
      BY <1>10 DEF Schedule, TypeInv, QueuesTyped
    <2>2. /\ DOMAIN callbacks' = 1 .. Len(callbacks) + 1 /\ Len(callbacks) \in Nat
          /\ DOMAIN callbacks = 1 .. Len(callbacks)
          /\ \A i \in DOMAIN callbacks : callbacks'[i] = callbacks[i]
          /\ callbacks'[Len(callbacks) + 1] = [kind |-> "result", of |-> c]
      BY <2>1
    <2>3. \A i \in DOMAIN callbacks' : i \in DOMAIN callbacks \/ i = Len(callbacks) + 1
      BY <2>2
    <2>4. js # [kind |-> "result", of |-> c]
      BY <2>1, NoResult DEF StageInv
    <2>5. stage'[u] = IF u = c THEN "scheduled" ELSE stage[u]
      BY <1>1, <2>1 DEF MoveTo, TypeInv, CallsTyped
    <2>6. \A i \in DOMAIN callbacks' : \A d :
            /\ Result(i, d)' => i = Len(callbacks) + 1 \/ (i \in DOMAIN callbacks /\ Result(i, d))
            /\ Token(i, d)' => i \in DOMAIN callbacks /\ Token(i, d)
      BY <1>0, <2>2, <2>3 DEF Result, Token
    <2>7. \A i \in DOMAIN callbacks : i < Len(callbacks) + 1
      BY <2>2
    <2>8. QED BY <1>1, <2>1, <2>4, <2>5, <2>6, <2>7 DEF TokensOf
  <1>11. QED
    BY <1>2, <1>3, <1>4, <1>5, <1>6, <1>7, <1>8, <1>9, <1>10, StepKinds DEF Handover

LEMMA TokensInit == Init => TokensInv
  <1> SUFFICES ASSUME Init
               PROVE  TokensInv
    OBVIOUS
  <1>1. DOMAIN callbacks = {} /\ \A t : js # [kind |-> "token", of |-> t]
    BY DEF Init, Idle
  <1>2. QED BY <1>1 DEF Init, TokensInv

-----------------------------------------------------------------------------
(* What a release or a shutdown waits for                                  *)

LEMMA HeadOfTasks ==
  ASSUME TypeInv, StageInv, Take
  PROVE  /\ Head(tasks) \in Call /\ stage[Head(tasks)] = "queued"
         /\ MoveTo(Head(tasks), "taken")
  BY HeadAndTail DEF Take, TypeInv, QueuesTyped, StageInv, QueueInv

LEMMA HeadOfCallbacks ==
  ASSUME TypeInv, StageInv, RunResultCallback
  PROVE  LET c == Head(callbacks).of
         IN  /\ c \in Call /\ stage[c] = "scheduled"
             /\ \/ UNCHANGED <<stage, outcome>>
                \/ MoveTo(c, "over") /\ \E how \in Outcome \ {"foreign"} :
                                          outcome' = [outcome EXCEPT ![c] = how]
  <1> DEFINE c == Head(callbacks).of
  <1>1. /\ Head(callbacks) \in Callback /\ Head(callbacks) = callbacks[1]
        /\ 1 \in DOMAIN callbacks /\ Head(callbacks).kind = "result"
    BY HeadAndTail DEF RunResultCallback, TypeInv, QueuesTyped
  <1>2. c \in Call /\ Result(1, c)
    BY <1>1, CallbackFields DEF Result
  <1>3. stage[c] = "scheduled"
    BY <1>1, <1>2 DEF StageInv, ResultInv
  <1>4. \/ UNCHANGED <<stage, outcome>>
        \/ \E how \in {"dropped", "context_released", reply[c]} : Settle(c, how)
    BY DEF RunResultCallback
  <1>5. {"dropped", "context_released", reply[c]} \subseteq Outcome \ {"foreign"}
    <2>1. reply[c] \in Reply
      BY <1>2 DEF TypeInv, CallsTyped
    <2>2. QED BY <2>1, Values
  <1> HIDE DEF c
  <1>6. QED BY <1>2, <1>3, <1>4, <1>5 DEF Settle, c

\* How a call's stage can change.
LEMMA StageSteps ==
  ASSUME TypeInv, StageInv, [Next]_vars, NEW c \in Call
  PROVE  /\ stage[c] = "over" => stage'[c] = "over"
         /\ stage[c] = "scheduled" => stage'[c] \in {"scheduled", "over"}
         /\ shuttingDown /\ stage'[c] \in Busy => stage[c] \in Busy
         /\ stage'[c] \in Fresh => stage[c] \in Fresh
         /\ \/ stage[c] # "uncalled" \/ stage'[c] \in {"uncalled", "over"}
            \/ c \in Completion /\ CallCompletion(c)
            \/ c \in Release /\ CallRelease(c)
         /\ stage'[c] \in {"uncalled", "calling"} => stage[c] \in {"uncalled", "calling"}
         /\ \/ stage[c] # "calling" \/ stage'[c] \in {"calling", "over"}
            \/ c \in Completion /\ PostCompletion(c) /\ ~is_predicting
  <1> USE DEF Busy, Fresh
  <1>0. ASSUME NEW d \in Call, NEW s, MoveTo(d, s)
        PROVE  stage'[c] = IF c = d THEN s ELSE stage[c]
    BY <1>0 DEF MoveTo, TypeInv, CallsTyped
  <1>1. CASE Moves
    <2>1. CASE UNCHANGED stage
      BY <2>1
    <2>2. ASSUME NEW d \in Call, NEW s \in Stage, MoveTo(d, s),
                 stage[d] \notin {"uncalled", "calling", "queued", "scheduled", "over"},
                 s \notin {"uncalled", "calling", "queued"},
                 s \in Fresh => stage[d] \in Fresh,
                 s \in Busy /\ shuttingDown => stage[d] \in Busy
          PROVE  /\ stage[c] = "over" => stage'[c] = "over"
                 /\ stage[c] = "scheduled" => stage'[c] = "scheduled"
                 /\ shuttingDown /\ stage'[c] \in Busy => stage[c] \in Busy
                 /\ stage'[c] \in Fresh => stage[c] \in Fresh
                 /\ stage[c] = "uncalled" => stage'[c] = "uncalled"
                 /\ stage'[c] \in {"uncalled", "calling"} => stage[c] \in {"uncalled", "calling"}
                 /\ stage[c] = "calling" => stage'[c] = "calling"
      BY <1>0, <2>2
    <2>3. QED BY <1>1, <2>1, <2>2 DEF Moves
  <1>2. ASSUME NEW t \in Completion, CallCompletion(t)
        PROVE  /\ stage[t] = "uncalled" /\ t \in Call
               /\ MoveTo(t, "calling") \/ MoveTo(t, "over")
    BY <1>2, Values DEF CallCompletion, Settle
  <1>3. ASSUME NEW t \in Completion, PostCompletion(t)
        PROVE  /\ stage[t] = "calling" /\ t \in Call
               /\ (MoveTo(t, "queued") /\ ~is_predicting) \/ MoveTo(t, "over")
    BY <1>3, Values DEF PostCompletion, Settle, StageInv, ResultInv
  <1>4. ASSUME NEW t \in Completion, DeliverResult(t)
        PROVE  stage[t] = "scheduled" /\ t \in Call /\ MoveTo(t, "over")
    BY <1>4, Values DEF DeliverResult, Settle, StageInv, ResultInv
  <1>5. ASSUME NEW t \in Completion, DecodeToken(t)
        PROVE  stage[t] = "decoding" /\ t \in Call /\ MoveTo(t, "testing")
    BY <1>5, Values DEF DecodeToken
  <1>6. ASSUME NEW r \in Release, CallRelease(r)
        PROVE  stage[r] = "uncalled" /\ r \in Call /\ MoveTo(r, "queued")
    BY <1>6, Values DEF CallRelease
  <1>7. CASE RunTokenCallback \/ TokenCallbackReturns
    BY <1>7 DEF RunTokenCallback, TokenCallbackReturns
  <1>8. CASE RunResultCallback
    <2> DEFINE d == Head(callbacks).of
    <2>1. /\ d \in Call /\ stage[d] = "scheduled"
          /\ UNCHANGED stage \/ MoveTo(d, "over")
      BY <1>8, HeadOfCallbacks
    <2> HIDE DEF d
    <2>2. QED BY <1>0, <2>1
  <1>9. CASE Take
    BY <1>0, <1>9, HeadOfTasks
  <1>10. ASSUME NEW d \in Call, Schedule(d), ~shuttingDown
         PROVE  stage[d] = "ended" /\ MoveTo(d, "scheduled")
    BY <1>10 DEF Schedule
  <1>11. QED
    BY <1>0, <1>1, <1>2, <1>3, <1>4, <1>5, <1>6, <1>7, <1>8, <1>9, <1>10, StepKinds
    DEF Handover

LEMMA WaitStep ==
  ASSUME TypeInv, StageInv, CountInv, TokensInv, WaitInv, [Next]_vars
  PROVE  WaitInv'
  <1>1. ~timed_out' => \A t \in covered' : stage'[t] = "over"
    <2>1. CASE UNCHANGED <<timed_out, covered>>
      BY <2>1, StageSteps, Values DEF WaitInv, TypeInv, FlagsTyped
    <2>2. ASSUME NEW r \in Release, ReleaseStopsWaiting(r), ~timed_out', ~shuttingDown
          PROVE  \A t \in covered' : stage'[t] = "over"
      <3>1. /\ ~(activeTasks > 0)
            /\ covered' = {t \in Completion : stage[t] \in Working \cup {"over"}}
        BY <2>2 DEF ReleaseStopsWaiting
      <3>2. Counted = {}
        BY <3>1, FS_EmptySet, FS_CardinalityType DEF CountInv
      <3>3. \A t \in covered' : stage[t] = "over"
        BY <3>1, <3>2, Values DEF CountInv, Counted
      <3>4. QED BY <3>1, <3>3, StageSteps, Values
    <2>3. ASSUME NEW r \in Release, ReleaseStopsWaiting(r), shuttingDown
          PROVE  UNCHANGED <<timed_out, covered>>
      BY <2>3 DEF ReleaseStopsWaiting, history
    <2>4. QED
      BY <2>1, <2>2, <2>3
      DEF Next, vars, history, Calls, JsThread, Job, ReleaseJob, CleanupThread, CallCompletion,
          CallRelease, StopCompletion, PostCompletion, DeliverResult, RunTokenCallback,
          TokenCallbackReturns, RunResultCallback, Take, StartTask, LookUp, CheckBusy,
          BeginCompletion, LoadPromptFails, ContinueGeneration, DecodeToken, DecodeThrows,
          EndCompletion, ReleaseLookUp, ReleaseInterrupts, RemoveContext, DeleteContext, Schedule,
          CleanupBegins, CleanupSnapshot, CleanupStopsPool, CleanupJoins, CleanupDeletes,
          Enqueue, Interrupt
  <1>2. ASSUME cleanup' \in {"joined", "done"}, NEW c \in Call
        PROVE  stage'[c] \notin Busy
    <2>1. CASE cleanup \in {"joined", "done"}
      BY <2>1, StageSteps DEF WaitInv, TokensInv
    <2>2. CASE CleanupJoins
      BY <2>2 DEF CleanupJoins, unchangedByCleanup, OnPool, Busy
    <2>3. QED
      BY <1>2, <2>1, <2>2
      DEF Next, vars, Calls, JsThread, Job, ReleaseJob, CleanupThread, CallCompletion,
          CallRelease, StopCompletion, PostCompletion, DeliverResult, RunTokenCallback,
          TokenCallbackReturns, RunResultCallback, Take, StartTask, LookUp, CheckBusy,
          BeginCompletion, LoadPromptFails, ContinueGeneration, DecodeToken, DecodeThrows,
          EndCompletion, ReleaseLookUp, ReleaseInterrupts, ReleaseStopsWaiting, RemoveContext,
          DeleteContext, Schedule, CleanupBegins, CleanupSnapshot, CleanupStopsPool,
          CleanupDeletes
  <1>3. QED BY <1>1, <1>2 DEF WaitInv

LEMMA WaitInit == Init => WaitInv
  BY DEF Init, WaitInv

TasksInv == TypeInv /\ StageInv /\ CountInv /\ TokensInv /\ WaitInv

LEMMA TasksInvariant == Spec => []TasksInv
  <1>1. Init => TasksInv
    BY InitTyped, StageInit, CountInit, TokensInit, WaitInit DEF TasksInv
  <1>2. TasksInv /\ [Next]_vars => TasksInv'
    BY TypeStep, StageStep, CountStep, TokensStep, WaitStep DEF TasksInv
  <1>3. QED BY <1>1, <1>2, PTL DEF Spec

\* TaskManager counts exactly the counted jobs that are not over, whichever exit each of
\* them takes: its counter never runs behind or ahead of the tasks it stands for.
THEOREM CountIsExact == Spec => []TaskCountExact
  <1>1. TasksInv => TaskCountExact
    BY DEF TasksInv, CountInv, Counted, TaskCountExact
  <1>2. QED BY <1>1, TasksInvariant, PTL

\* A context is not deleted under a task that the release has waited for, nor under a
\* worker that the shutdown has joined, for every number of calls and workers.
THEOREM DeletionWaits == Spec => []DeletionWaitsForTasks
  <1>1. TasksInv => DeletionWaitsForTasks
    <2> SUFFICES ASSUME TasksInv
                 PROVE  DeletionWaitsForTasks
      OBVIOUS
    <2>1. ASSUME cleanup = "no", ~timed_out, NEW t \in UsingContext, t \in covered
          PROVE  FALSE
      <3>1. stage[t] = "over" /\ t \in Completion
        BY <2>1 DEF TasksInv, WaitInv, TypeInv, FlagsTyped
      <3>2. stage[t] \notin HoldsPointer
        BY <3>1 DEF HoldsPointer
      <3>3. js # Idle /\ js.of = t /\ js = [kind |-> js.kind, of |-> t]
        BY <2>1, <3>2, JsFields DEF UsingContext, TasksInv, TypeInv, QueuesTyped
      <3>4. js.kind \in {"call", "token", "result"}
        BY <3>3, JsFields DEF TasksInv, TypeInv, QueuesTyped
      <3>5. QED
        BY <2>1, <3>1, <3>3, <3>4 DEF TasksInv, StageInv, ResultInv, TokensInv
    <2>2. cleanup = "done" => \A t \in Completion : stage[t] \notin HoldsPointer
      BY Values DEF TasksInv, WaitInv, HoldsPointer, Busy
    <2>3. QED BY <2>1, <2>2 DEF DeletionWaitsForTasks
  <1>2. QED BY <1>1, TasksInvariant, PTL

-----------------------------------------------------------------------------
(* One deletion                                                            *)

\* What the release job has come to, for the invariant's sake.
LEMMA DeletionKept ==
  ASSUME DeletionInv, UNCHANGED <<registered, deletions>>,
         \A r \in Release :
           \/ stage'[r] = stage[r] /\ reply'[r] = reply[r]
           \/ stage'[r] \notin {"holding", "waiting", "removing", "deleting"}
  PROVE  DeletionInv'
  BY DEF DeletionInv

LEMMA DeletionMove ==
  ASSUME TypeInv, DeletionInv, UNCHANGED <<registered, deletions>>, NEW c \in Call, NEW s,
         MoveTo(c, s), s \notin {"holding", "waiting", "removing", "deleting"} \/ c \in Completion,
         \A r \in Release : r = c \/ reply'[r] = reply[r]
  PROVE  DeletionInv'
  <1>1. \A r \in Release : stage'[r] = IF r = c THEN s ELSE stage[r]
    BY Values DEF MoveTo, TypeInv, CallsTyped
  <1>2. \A r \in Release : r \notin Completion
    BY ContextTasksAssumption
  <1>3. QED BY <1>1, <1>2, DeletionKept

LEMMA DeletionStep ==
  ASSUME OneRelease, TypeInv, StageInv, WaitInv, DeletionInv, [Next]_vars
  PROVE  DeletionInv'
  <1>1. CASE UNCHANGED <<registered, deletions, stage, reply>>
    BY <1>1, DeletionKept
  <1>2. ASSUME NEW t \in Completion,
               \/ CallCompletion(t) \/ PostCompletion(t) \/ DeliverResult(t) \/ StartTask(t)
               \/ BeginCompletion(t) \/ ContinueGeneration(t) \/ DecodeToken(t)
        PROVE  DeletionInv'
    <2>1. /\ UNCHANGED <<registered, deletions, reply>> /\ t \in Call
          /\ \E s : MoveTo(t, s)
      BY <1>2, Values
      DEF CallCompletion, PostCompletion, DeliverResult, StartTask, BeginCompletion,
          ContinueGeneration, DecodeToken, Settle, context
    <2>2. QED BY <2>1, DeletionMove
  <1>3. ASSUME NEW t \in Completion,
               \/ LookUp(t) \/ CheckBusy(t) \/ LoadPromptFails(t) \/ DecodeThrows(t)
               \/ EndCompletion(t)
        PROVE  DeletionInv'
    <2>1. /\ UNCHANGED <<registered, deletions>> /\ t \in Call
          /\ \E s : MoveTo(t, s)
          /\ UNCHANGED reply \/ \E a : reply' = [reply EXCEPT ![t] = a]
      BY <1>3, Values
      DEF LookUp, CheckBusy, LoadPromptFails, DecodeThrows, EndCompletion, EndJob, Settle, context
    <2>2. \A r \in Release : reply'[r] = reply[r]
      BY <2>1, Values, ContextTasksAssumption DEF TypeInv, CallsTyped
    <2>3. QED BY <2>1, <2>2, DeletionMove
  <1>4. ASSUME NEW r \in Release, CallRelease(r)
        PROVE  DeletionInv'
    BY <1>4, DeletionMove, Values DEF CallRelease, context
  <1>5. CASE RunResultCallback
    <2> DEFINE c == Head(callbacks).of
    <2>1. /\ c \in Call /\ UNCHANGED <<registered, deletions, reply>>
          /\ UNCHANGED stage \/ MoveTo(c, "over")
      BY <1>5, HeadOfCallbacks DEF RunResultCallback, context
    <2> HIDE DEF c
    <2>2. QED BY <1>1, <2>1, DeletionMove
  <1>6. CASE Take
    <2>1. UNCHANGED <<registered, deletions, reply>>
      BY <1>6 DEF Take, context
    <2>2. QED BY <1>6, <2>1, HeadOfTasks, DeletionMove
  <1>7. ASSUME NEW c \in Call, Schedule(c)
        PROVE  DeletionInv'
    <2>1. /\ UNCHANGED <<registered, deletions, reply>>
          /\ MoveTo(c, "over") \/ MoveTo(c, "scheduled")
      BY <1>7 DEF Schedule, Settle, context
    <2>2. QED BY <2>1, DeletionMove
  <1>8. ASSUME NEW r \in Release,
               \/ ReleaseLookUp(r) \/ ReleaseInterrupts(r) \/ ReleaseStopsWaiting(r)
               \/ RemoveContext(r) \/ DeleteContext(r)
        PROVE  DeletionInv'
    <2>1. Release = {r} /\ r \in Call
      BY Values DEF OneRelease
    <2>2. stage \in [Call -> Stage] /\ reply \in [Call -> Reply]
      BY DEF TypeInv, CallsTyped
    <2>3. CASE ReleaseLookUp(r)
      <3>1. /\ UNCHANGED <<registered, deletions>>
            /\ reply'[r] = IF registered THEN "released" ELSE "nothing_to_release"
            /\ \/ stage'[r] = "over"
               \/ stage'[r] = IF registered THEN "holding" ELSE "waiting"
        BY <2>1, <2>2, <2>3 DEF ReleaseLookUp, MoveTo, Settle, context
      <3>2. QED BY <2>1, <3>1 DEF DeletionInv
    <2>4. CASE ReleaseInterrupts(r)
      <3>1. /\ UNCHANGED <<registered, deletions, reply>>
            /\ stage[r] = "holding" /\ stage'[r] = "waiting"
        BY <2>1, <2>2, <2>4 DEF ReleaseInterrupts, MoveTo, context
      <3>2. QED BY <2>1, <3>1 DEF DeletionInv
    <2>5. CASE ReleaseStopsWaiting(r)
      <3>1. /\ UNCHANGED <<registered, deletions, reply>> /\ stage[r] = "waiting"
            /\ \/ stage'[r] = "ended"
               \/ stage'[r] = "removing" /\ reply[r] = "released"
        BY <2>1, <2>2, <2>5 DEF ReleaseStopsWaiting, MoveTo, context
      <3>2. QED BY <2>1, <3>1 DEF DeletionInv
    <2>6. CASE RemoveContext(r)
      <3>1. /\ UNCHANGED <<deletions, reply>> /\ registered' = FALSE
            /\ stage[r] = "removing" /\ stage'[r] = "deleting"
        BY <2>1, <2>2, <2>6 DEF RemoveContext, MoveTo
      <3>2. QED BY <2>1, <3>1 DEF DeletionInv
    <2>7. CASE DeleteContext(r)
      <3>1. /\ UNCHANGED <<registered, reply>> /\ deletions' = deletions + 1
            /\ stage[r] = "deleting" /\ stage'[r] = "ended"
        BY <2>1, <2>2, <2>7 DEF DeleteContext, MoveTo
      <3>2. QED BY <2>1, <3>1 DEF DeletionInv
    <2>8. QED BY <1>8, <2>3, <2>4, <2>5, <2>6, <2>7
  <1>9. CASE CleanupDeletes
    <2>1. /\ UNCHANGED <<stage, reply>> /\ registered' = FALSE /\ cleanup = "joined"
          /\ deletions' = IF registered THEN deletions + 1 ELSE deletions
      BY <1>9 DEF CleanupDeletes, unchangedByCleanup
    <2>2. \A r \in Release : stage[r] \notin {"waiting", "removing", "deleting"}
      BY <2>1, Values DEF WaitInv, Busy
    <2>3. deletions \in Nat
      BY DEF TypeInv, CountsTyped
    <2>4. \A r \in Release : stage[r] # "holding"
      BY <2>1, Values DEF WaitInv, Busy
    <2>5. deletions' <= 1
      BY <2>1, <2>3 DEF DeletionInv
    <2>6. QED BY <2>1, <2>2, <2>4, <2>5 DEF DeletionInv
  <1>10. QED
    BY <1>1, <1>2, <1>3, <1>4, <1>5, <1>6, <1>7, <1>8, <1>9
    DEF Next, vars, context, Calls, JsThread, Job, ReleaseJob, CleanupThread, StopCompletion,
        RunTokenCallback, TokenCallbackReturns, CleanupBegins, CleanupSnapshot,
        CleanupStopsPool, CleanupJoins, unchangedByCleanup

\* The context is deleted at most once when the application releases it once, however the
\* release job, its five seconds and the shutdown's clear() interleave.
THEOREM DeletedAtMostOnce ==
  ASSUME OneRelease
  PROVE  Spec => []DeletedOnce
  <1>1. Init => DeletionInv
    <2> SUFFICES ASSUME Init
                 PROVE  DeletionInv
      OBVIOUS
    <2>1. \A r \in Release : stage[r] = "uncalled"
      BY Values DEF Init
    <2>2. QED BY <2>1 DEF Init, DeletionInv
  <1>2. TasksInv /\ DeletionInv /\ [Next]_vars => DeletionInv'
    BY OneRelease, DeletionStep DEF TasksInv
  <1>3. DeletionInv => DeletedOnce
    BY DEF DeletionInv, DeletedOnce
  <1>4. QED BY <1>1, <1>2, <1>3, TasksInvariant, PTL DEF Spec

-----------------------------------------------------------------------------
(* An awaited completion                                                   *)

LEMMA OneActiveStep ==
  ASSUME Awaits, TypeInv, StageInv, OneActive, [Next]_vars
  PROVE  OneActive'
  <1>1. CASE \E t \in Completion : CallCompletion(t)
    <2>1. PICK t \in Completion : CallCompletion(t)
      BY <1>1
    <2>2. /\ \A u \in Completion : stage[u] \in {"uncalled", "over"}
          /\ \E s : MoveTo(t, s)
      BY <2>1 DEF CallCompletion, Settle
    <2>3. \A u \in Completion : u # t => stage'[u] = stage[u]
      BY <2>2, Values DEF MoveTo, TypeInv, CallsTyped
    <2>4. QED BY <2>2, <2>3 DEF OneActive
  <1>2. CASE ~\E t \in Completion : CallCompletion(t)
    <2>1. \A t \in Completion : stage[t] = "uncalled" => stage'[t] \in {"uncalled", "over"}
      BY <1>2, StageSteps, Values, ContextTasksAssumption
    <2>2. \A t \in Completion : stage[t] = "over" => stage'[t] = "over"
      BY StageSteps, Values
    <2>3. QED BY <2>1, <2>2 DEF OneActive
  <1>3. QED BY <1>1, <1>2

\* The steps that change the text or the number of its tokens.
LEMMA TextSteps ==
  ASSUME [Next]_vars
  PROVE  \/ UNCHANGED <<decoded, generated_by>>
         \/ \E t \in Completion : DecodeToken(t) \/ (PostCompletion(t) /\ ~is_predicting)
  BY DEF Next, vars, flags, Calls, JsThread, Job, ReleaseJob, CleanupThread, CallCompletion,
     CallRelease, StopCompletion, PostCompletion, DeliverResult, RunTokenCallback,
     TokenCallbackReturns, RunResultCallback, Take, StartTask, LookUp, CheckBusy,
     BeginCompletion, LoadPromptFails, ContinueGeneration, DecodeThrows, EndCompletion,
     ReleaseLookUp, ReleaseInterrupts, ReleaseStopsWaiting, RemoveContext, DeleteContext,
     Schedule, CleanupBegins, CleanupSnapshot, CleanupStopsPool, CleanupJoins, CleanupDeletes,
     unchangedByCleanup, Interrupt

\* No promise is settled with another call's text.
LEMMA OutcomeStep ==
  ASSUME TypeInv, StageInv, OwnInv, [Next]_vars, NEW t \in Completion
  PROVE  outcome'[t] # "foreign"
  <1>1. outcome \in [Call -> Outcome] /\ t \in Call /\ outcome[t] # "foreign"
    BY Values DEF TypeInv, CallsTyped, OwnInv
  <1>2. ASSUME NEW c \in Call, NEW how, how # "foreign", outcome' = [outcome EXCEPT ![c] = how]
        PROVE  outcome'[t] # "foreign"
    BY <1>1, <1>2
  <1>3. CASE UNCHANGED outcome
    BY <1>1, <1>3
  <1>4. ASSUME NEW u \in Completion,
               \/ CallCompletion(u) \/ PostCompletion(u) \/ StartTask(u) \/ LookUp(u)
        PROVE  outcome'[t] # "foreign"
    <2>1. UNCHANGED outcome \/ \E how \in {"not_found", "busy", "dropped"} : Settle(u, how)
      BY <1>4 DEF CallCompletion, PostCompletion, StartTask, LookUp
    <2>2. QED BY <1>2, <1>3, <2>1, Values DEF Settle
  <1>5. ASSUME NEW u \in Completion, DeliverResult(u)
        PROVE  outcome'[t] # "foreign"
    <2>1. stage[u] = "scheduled"
      BY <1>5 DEF DeliverResult, StageInv, ResultInv
    <2>2. IsOwnText(u) /\ u \in Call
      BY <2>1, Values DEF OwnInv
    <2>3. QED BY <1>2, <1>5, <2>2 DEF DeliverResult, Settle
  <1>6. CASE RunResultCallback
    <2> DEFINE c == Head(callbacks).of
    <2>1. c \in Call
      BY <1>6, HeadOfCallbacks
    <2>2. \/ UNCHANGED outcome
          \/ \E how \in Outcome \ {"foreign"} : outcome' = [outcome EXCEPT ![c] = how]
      BY <1>6, HeadOfCallbacks
    <2> HIDE DEF c
    <2>3. QED BY <1>2, <1>3, <2>1, <2>2
  <1>7. ASSUME NEW r \in Release, ReleaseLookUp(r)
        PROVE  outcome'[t] # "foreign"
    BY <1>2, <1>3, <1>7, Values DEF ReleaseLookUp, Settle
  <1>8. ASSUME NEW c \in Call, Schedule(c)
        PROVE  outcome'[t] # "foreign"
    BY <1>2, <1>3, <1>8 DEF Schedule, Settle
  <1>9. QED
    BY <1>3, <1>4, <1>5, <1>6, <1>7, <1>8
    DEF Next, vars, Calls, JsThread, Job, ReleaseJob, CleanupThread, CallRelease,
        StopCompletion, RunTokenCallback, TokenCallbackReturns, Take, CheckBusy,
        BeginCompletion, LoadPromptFails, ContinueGeneration, DecodeToken, DecodeThrows,
        EndCompletion, ReleaseInterrupts, ReleaseStopsWaiting, RemoveContext, DeleteContext,
        CleanupBegins, CleanupSnapshot, CleanupStopsPool, CleanupJoins, CleanupDeletes,
        unchangedByCleanup

LEMMA OwnStep ==
  ASSUME Awaits, TypeInv, StageInv, OneActive, OwnInv, [Next]_vars
  PROVE  OwnInv'
  <1> SUFFICES ASSUME NEW u \in Completion
               PROVE  /\ stage'[u] \in Fresh => decoded'[u] = 0
                      /\ stage'[u] \notin {"uncalled", "calling", "over"} => IsOwnText(u)'
    BY OutcomeStep DEF OwnInv
  <1>0. /\ u \in Call /\ decoded \in [Completion -> Nat]
        /\ stage \in [Call -> Stage]
    BY Values, ContextTasksAssumption DEF TypeInv, TokensTyped, CallsTyped
  <1>1. ASSUME NEW t \in Completion, PostCompletion(t), ~is_predicting
        PROVE  /\ stage'[u] \in Fresh => decoded'[u] = 0
               /\ stage'[u] \notin {"uncalled", "calling", "over"} => IsOwnText(u)'
    <2>1. /\ stage[t] = "calling" /\ t \in Call /\ generated_by' = {} /\ UNCHANGED decoded
          /\ stage' = [stage EXCEPT ![t] = "queued"]
      BY <1>1, Values DEF PostCompletion, MoveTo, StageInv, ResultInv
    <2>2. u = t \/ (stage'[u] = stage[u] /\ stage[u] \in {"uncalled", "over"})
      BY <1>0, <2>1 DEF OneActive
    <2>3. decoded[t] = 0
      BY <2>1 DEF OwnInv, Fresh
    <2>4. u = t => IsOwnText(u)'
      BY <1>0, <2>1, <2>3 DEF IsOwnText
    <2>5. QED BY <2>1, <2>2, <2>3, <2>4 DEF OwnInv
  <1>2. ASSUME NEW t \in Completion, DecodeToken(t)
        PROVE  /\ stage'[u] \in Fresh => decoded'[u] = 0
               /\ stage'[u] \notin {"uncalled", "calling", "over"} => IsOwnText(u)'
    <2>1. /\ stage[t] = "decoding" /\ t \in Call
          /\ decoded' = [decoded EXCEPT ![t] = @ + 1]
          /\ generated_by' = generated_by \cup {t}
          /\ stage' = [stage EXCEPT ![t] = "testing"]
      BY <1>2, Values DEF DecodeToken, MoveTo
    <2>2. u = t \/ (stage'[u] = stage[u] /\ stage[u] \in {"uncalled", "over"})
      BY <1>0, <2>1 DEF OneActive
    <2>3. decoded'[t] > 0 /\ (u # t => decoded'[u] = decoded[u])
      BY <1>0, <2>1
    <2>4. IsOwnText(t)
      BY <2>1 DEF OwnInv
    <2>5. generated_by' = {t}
      BY <2>1, <2>4 DEF IsOwnText
    <2>6. u = t => stage'[u] \notin Fresh
      BY <1>0, <2>1 DEF Fresh
    <2>7. u = t => IsOwnText(u)'
      BY <2>3, <2>5 DEF IsOwnText
    <2>8. QED BY <2>2, <2>3, <2>6, <2>7 DEF OwnInv
  <1>3. CASE UNCHANGED <<decoded, generated_by>>
    <2>1. stage'[u] \in Fresh => decoded'[u] = 0
      BY <1>0, <1>3, StageSteps DEF OwnInv
    <2>2. \/ stage[u] \notin {"uncalled", "calling", "over"}
          \/ stage'[u] \in {"uncalled", "calling", "over"}
          \/ PostCompletion(u) /\ ~is_predicting
      BY <1>0, StageSteps, ContextTasksAssumption DEF CallCompletion, Settle, MoveTo
    <2>3. stage[u] \notin {"uncalled", "calling", "over"} => IsOwnText(u)'
      BY <1>3 DEF OwnInv, IsOwnText
    <2>4. QED BY <1>1, <2>1, <2>2, <2>3
  <1>4. QED BY <1>1, <1>2, <1>3, TextSteps

\* The steps that change what an interrupt is remembered by, and those that begin a decode.
LEMMA InterruptSteps ==
  ASSUME TypeInv, [Next]_vars
  PROVE  \/ Interrupt /\ UNCHANGED decoded
            /\ \A t \in Completion : stage'[t] = stage[t]
         \/ \E t \in Completion :
              \/ PostCompletion(t) /\ ~is_predicting
              \/ DecodeToken(t) \/ ContinueGeneration(t)
         \/ /\ UNCHANGED <<is_interrupted, interrupted_at, decoded>>
            /\ \A t \in Completion : stage'[t] = "decoding" => stage[t] = "decoding"
  <1>0. ASSUME NEW c \in Call, NEW s, MoveTo(c, s)
        PROVE  \A t \in Completion : stage'[t] = IF t = c THEN s ELSE stage[t]
    BY <1>0, Values DEF MoveTo, TypeInv, CallsTyped
  <1>1. CASE StopCompletion \/ CleanupStopsPool
    BY <1>1 DEF StopCompletion, CleanupStopsPool, unchangedByCleanup
  <1>2. ASSUME NEW r \in Release, ReleaseInterrupts(r)
        PROVE  Interrupt /\ UNCHANGED decoded /\ \A t \in Completion : stage'[t] = stage[t]
    BY <1>0, <1>2, Values, ContextTasksAssumption DEF ReleaseInterrupts
  <1>3. ASSUME NEW t \in Completion,
               \/ CallCompletion(t) \/ (PostCompletion(t) /\ is_predicting)
               \/ DeliverResult(t) \/ StartTask(t) \/ LookUp(t) \/ CheckBusy(t)
               \/ BeginCompletion(t) \/ LoadPromptFails(t) \/ DecodeThrows(t)
               \/ EndCompletion(t)
        PROVE  /\ UNCHANGED <<is_interrupted, interrupted_at, decoded>>
               /\ \A u \in Completion : stage'[u] = "decoding" => stage[u] = "decoding"
    <2>1. \E s \in Stage \ {"decoding"} : MoveTo(t, s)
      BY <1>3, Values
      DEF CallCompletion, PostCompletion, DeliverResult, StartTask, LookUp, CheckBusy,
          BeginCompletion, LoadPromptFails, DecodeThrows, EndCompletion, Settle, EndJob
    <2>2. UNCHANGED <<is_interrupted, interrupted_at, decoded>>
      BY <1>3
      DEF CallCompletion, PostCompletion, DeliverResult, StartTask, LookUp, CheckBusy,
          BeginCompletion, LoadPromptFails, DecodeThrows, EndCompletion, flags, history
    <2>3. QED BY <1>0, <2>1, <2>2, Values
  <1>4. ASSUME NEW r \in Release,
               \/ CallRelease(r) \/ ReleaseLookUp(r) \/ ReleaseStopsWaiting(r)
               \/ RemoveContext(r) \/ DeleteContext(r)
        PROVE  /\ UNCHANGED <<is_interrupted, interrupted_at, decoded>>
               /\ \A u \in Completion : stage'[u] = "decoding" => stage[u] = "decoding"
    <2>1. \E s : MoveTo(r, s)
      BY <1>4 DEF CallRelease, ReleaseLookUp, ReleaseStopsWaiting, RemoveContext,
         DeleteContext, Settle
    <2>2. UNCHANGED <<is_interrupted, interrupted_at, decoded>>
      BY <1>4 DEF CallRelease, ReleaseLookUp, ReleaseStopsWaiting, RemoveContext,
         DeleteContext, Enqueue, flags, history
    <2>3. QED BY <1>0, <2>1, <2>2, Values, ContextTasksAssumption
  <1>5. ASSUME NEW c \in Call, Schedule(c)
        PROVE  /\ UNCHANGED <<is_interrupted, interrupted_at, decoded>>
               /\ \A u \in Completion : stage'[u] = "decoding" => stage[u] = "decoding"
    BY <1>0, <1>5 DEF Schedule, Settle, flags, history
  <1>6. CASE RunResultCallback
    <2> DEFINE c == Head(callbacks).of
    <2>1. UNCHANGED stage \/ (c \in Call /\ MoveTo(c, "over"))
      BY <1>6, HeadAndTail, CallbackFields
      DEF RunResultCallback, Settle, TypeInv, QueuesTyped
    <2> HIDE DEF c
    <2>2. QED BY <1>0, <1>6, <2>1 DEF RunResultCallback, flags, history
  <1>7. CASE Take
    <2>1. Head(tasks) \in Call /\ MoveTo(Head(tasks), "taken")
      BY <1>7, HeadAndTail DEF Take, TypeInv, QueuesTyped
    <2>2. QED BY <1>0, <1>7, <2>1 DEF Take, flags, history
  <1>8. CASE \/ RunTokenCallback \/ TokenCallbackReturns \/ CleanupBegins
             \/ CleanupSnapshot \/ CleanupJoins \/ CleanupDeletes \/ UNCHANGED vars
    BY <1>8 DEF RunTokenCallback, TokenCallbackReturns, CleanupBegins, CleanupSnapshot,
       CleanupJoins, CleanupDeletes, unchangedByCleanup, flags, history, vars
  <1>9. QED
    BY <1>1, <1>2, <1>3, <1>4, <1>5, <1>6, <1>7, <1>8
    DEF Next, Calls, JsThread, Job, ReleaseJob, CleanupThread

LEMMA InterruptStep ==
  ASSUME Awaits, TypeInv, StageInv, OneActive, InterruptInv, [Next]_vars
  PROVE  InterruptInv'
  <1> SUFFICES ASSUME NEW u \in Completion
               PROVE  /\ stage'[u] \in {"uncalled", "calling"} => interrupted_at'[u] = MaxTokens
                      /\ u \in Outstanding' /\ interrupted_at'[u] < MaxTokens => is_interrupted'
                      /\ stage'[u] = "decoding" => decoded'[u] <= interrupted_at'[u]
                      /\ decoded'[u] <= interrupted_at'[u] + 1
    BY DEF InterruptInv
  <1>0. /\ u \in Call /\ decoded \in [Completion -> 0 .. MaxTokens] /\ MaxTokens \in Nat
        /\ interrupted_at \in [Completion -> 0 .. MaxTokens]
        /\ stage \in [Call -> Stage] /\ stage' \in [Call -> Stage]
    BY Values, ContextTasksAssumption, TypeStep DEF TypeInv, TokensTyped, CallsTyped
  <1>1. /\ decoded[u] \in Nat /\ interrupted_at[u] \in Nat
        /\ decoded[u] <= MaxTokens /\ interrupted_at[u] <= MaxTokens
    BY <1>0
  <1>2. /\ stage[u] \in {"uncalled", "calling"} => interrupted_at[u] = MaxTokens
        /\ u \in Outstanding /\ interrupted_at[u] < MaxTokens => is_interrupted
        /\ stage[u] = "decoding" => decoded[u] <= interrupted_at[u]
        /\ decoded[u] <= interrupted_at[u] + 1
    BY DEF InterruptInv
  <1>3. stage'[u] \in {"uncalled", "calling"} => stage[u] \in {"uncalled", "calling"}
    BY <1>0, StageSteps
  <1>4. \/ u \in Outstanding \/ u \notin Outstanding'
        \/ PostCompletion(u) /\ ~is_predicting
    <2>1. stage[u] = "scheduled" => stage'[u] \in {"scheduled", "over"}
      BY <1>0, StageSteps
    <2>2. stage[u] = "over" => stage'[u] = "over"
      BY <1>0, StageSteps
    <2>3. stage[u] = "uncalled" => stage'[u] \in {"uncalled", "calling", "over"}
      BY <1>0, StageSteps, ContextTasksAssumption DEF CallCompletion, MoveTo, Settle
    <2>4. stage[u] = "calling" => \/ stage'[u] \in {"calling", "over"}
                                  \/ PostCompletion(u) /\ ~is_predicting
      BY <1>0, StageSteps
    <2>5. QED BY <2>1, <2>2, <2>3, <2>4 DEF Outstanding
  <1>5. CASE Interrupt /\ UNCHANGED decoded /\ \A t \in Completion : stage'[t] = stage[t]
    <2>1. /\ interrupted_at'[u] = IF u \in Outstanding /\ decoded[u] < interrupted_at[u]
                                  THEN decoded[u] ELSE interrupted_at[u]
          /\ is_interrupted' /\ decoded'[u] = decoded[u] /\ stage'[u] = stage[u]
      BY <1>5 DEF Interrupt
    <2>2. u \in Outstanding => stage[u] \notin {"uncalled", "calling"}
      BY DEF Outstanding
    <2>3. QED BY <1>1, <1>2, <2>1, <2>2
  <1>6. ASSUME NEW t \in Completion, PostCompletion(t), ~is_predicting
        PROVE  /\ stage'[u] \in {"uncalled", "calling"} => interrupted_at'[u] = MaxTokens
               /\ u \in Outstanding' /\ interrupted_at'[u] < MaxTokens => is_interrupted'
               /\ stage'[u] = "decoding" => decoded'[u] <= interrupted_at'[u]
               /\ decoded'[u] <= interrupted_at'[u] + 1
    <2>1. /\ stage[t] = "calling" /\ t \in Call /\ UNCHANGED <<decoded, interrupted_at>>
          /\ stage' = [stage EXCEPT ![t] = "queued"]
      BY <1>6, Values DEF PostCompletion, MoveTo, Enqueue, StageInv, ResultInv
    <2>2. u = t \/ (stage'[u] = stage[u] /\ stage[u] \in {"uncalled", "over"})
      BY <1>0, <2>1 DEF OneActive
    <2>3. u = t => interrupted_at[u] = MaxTokens
      BY <1>2, <2>1
    <2>4. u # t => u \notin Outstanding'
      BY <2>2 DEF Outstanding
    <2>5. QED BY <1>0, <1>1, <1>2, <2>1, <2>2, <2>3, <2>4
  <1>7. ASSUME NEW t \in Completion, DecodeToken(t)
        PROVE  /\ stage'[u] \in {"uncalled", "calling"} => interrupted_at'[u] = MaxTokens
               /\ u \in Outstanding' /\ interrupted_at'[u] < MaxTokens => is_interrupted'
               /\ stage'[u] = "decoding" => decoded'[u] <= interrupted_at'[u]
               /\ decoded'[u] <= interrupted_at'[u] + 1
    <2>1. /\ stage[t] = "decoding" /\ t \in Call /\ UNCHANGED <<interrupted_at, is_interrupted>>
          /\ decoded' = [decoded EXCEPT ![t] = @ + 1]
          /\ stage' = [stage EXCEPT ![t] = "testing"]
      BY <1>7, Values DEF DecodeToken, MoveTo, history
    <2>2. /\ u = t => decoded'[u] = decoded[u] + 1 /\ stage'[u] = "testing"
          /\ u # t => decoded'[u] = decoded[u] /\ stage'[u] = stage[u]
      BY <1>0, <2>1
    <2>3. u \in Outstanding' => u \in Outstanding
      BY <2>1, <2>2 DEF Outstanding
    <2>4. QED BY <1>1, <1>2, <2>1, <2>2, <2>3
  <1>8. ASSUME NEW t \in Completion, ContinueGeneration(t)
        PROVE  /\ stage'[u] \in {"uncalled", "calling"} => interrupted_at'[u] = MaxTokens
               /\ u \in Outstanding' /\ interrupted_at'[u] < MaxTokens => is_interrupted'
               /\ stage'[u] = "decoding" => decoded'[u] <= interrupted_at'[u]
               /\ decoded'[u] <= interrupted_at'[u] + 1
    <2>1. /\ stage[t] = "testing" /\ ~is_interrupted /\ t \in Call
          /\ UNCHANGED <<interrupted_at, is_interrupted, decoded>>
          /\ stage' = [stage EXCEPT ![t] = "decoding"]
      BY <1>8, Values DEF ContinueGeneration, MoveTo, history, flags
    <2>2. /\ u = t => stage'[u] = "decoding"
          /\ u # t => stage'[u] = stage[u]
      BY <1>0, <2>1
    <2>3. u = t => u \in Outstanding
      BY <2>1 DEF Outstanding
    <2>4. u = t => interrupted_at[u] = MaxTokens
      BY <1>0, <1>1, <1>2, <2>1, <2>3
    <2>5. u \in Outstanding' => u \in Outstanding
      BY <2>1, <2>2 DEF Outstanding
    <2>6. QED BY <1>1, <1>2, <2>1, <2>2, <2>4, <2>5
  <1>9. CASE /\ UNCHANGED <<is_interrupted, interrupted_at, decoded>>
             /\ \A t \in Completion : stage'[t] = "decoding" => stage[t] = "decoding"
    BY <1>1, <1>2, <1>3, <1>4, <1>6, <1>9
  <1>10. QED BY <1>5, <1>6, <1>7, <1>8, <1>9, InterruptSteps

LEMMA AwaitInvariant == Spec => []AwaitInv
  <1>1. Init => AwaitInv
    <2> SUFFICES ASSUME Init
                 PROVE  AwaitInv
      OBVIOUS
    <2>1. /\ \A t \in Completion : /\ stage[t] = "uncalled" /\ outcome[t] = "none"
                                   /\ decoded[t] = 0 /\ interrupted_at[t] = MaxTokens
          /\ MaxTokens \in Nat
      BY Values, ContextTasksAssumption DEF Init
    <2>2. QED BY <2>1 DEF AwaitInv, OneActive, OwnInv, InterruptInv, Outstanding
  <1>2. TasksInv /\ AwaitInv /\ [Next]_vars => AwaitInv'
    BY OneActiveStep, OwnStep, InterruptStep DEF TasksInv, AwaitInv
  <1>3. QED BY <1>1, <1>2, TasksInvariant, PTL DEF Spec

\* An awaited completion is answered with its own text, although the callback that reads the
\* text from the shared context runs after the generation has ended.
THEOREM ResultsAreOwn == Spec => []ResultIsOwn
  <1>1. AwaitInv => ResultIsOwn
    BY DEF AwaitInv, OwnInv, ResultIsOwn
  <1>2. QED BY <1>1, AwaitInvariant, PTL

\* An interrupt - a stop, a release or a shutdown - is obeyed within one token, whenever it
\* comes between the call and the callback.
THEOREM InterruptsAreObeyed == Spec => []InterruptStopsGeneration
  <1>1. AwaitInv => InterruptStopsGeneration
    BY DEF AwaitInv, InterruptInv, InterruptStopsGeneration
  <1>2. QED BY <1>1, AwaitInvariant, PTL

=============================================================================
