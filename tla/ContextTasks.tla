---------------------------- MODULE ContextTasks ----------------------------
(***************************************************************************)
(* One context and the threads that use it outside the parallel engine.    *)
(*                                                                         *)
(* The JS thread runs the host functions (completion, stopCompletion,      *)
(* releaseContext) and, one at a time and in order, the callbacks other    *)
(* threads hand it with invokeAsync.  A host function that returns a       *)
(* promise puts a job on the thread pool; the worker that takes the job    *)
(* counts it in TaskManager, looks the context up, generates, and sends    *)
(* the result back to the JS thread, whose callback ends the task.         *)
(* Releasing a context is a job of the pool too: it interrupts the         *)
(* generation, waits until no task of the context is counted (at most five *)
(* seconds), takes the context out of the registry and deletes it.         *)
(* cleanupJSIBindings() does the same for the whole process from the       *)
(* thread that invalidates the module.                                     *)
(*                                                                         *)
(* A thread that has looked the context up keeps a plain pointer.  The     *)
(* lookup and the use of the pointer are separate steps.                   *)
(***************************************************************************)
EXTENDS Naturals, Sequences, FiniteSets

CONSTANTS
  Completion,   \* calls of completion()
  Release,      \* calls of releaseContext()
  NWorkers,     \* threads of the pool
  MaxTokens,    \* the most tokens a generation decodes
  Awaits,       \* does the application await a completion before the next?
  CallsAfterRelease   \* does it call completion() after it has called releaseContext()?

ASSUME ContextTasksAssumption ==
  /\ Completion \cap Release = {}
  /\ NWorkers \in Nat \ {0}
  /\ MaxTokens \in Nat
  /\ Awaits \in BOOLEAN /\ CallsAfterRelease \in BOOLEAN

Call == Completion \cup Release

VARIABLES
  stage,           \* stage[c]: how far call c has come
  reply,           \* reply[c]: what the job of call c sends to the JS thread
  outcome,         \* outcome[c]: how the promise of call c was settled
  shouldTrack,     \* shouldTrack[c]: the job's local: is the task counted?
  decoded,         \* decoded[t]: tokens completion t has decoded
  activeTasks,     \* TaskManager's count for the context
  shuttingDown,    \* TaskManager's flag
  tasks, stop,     \* the pool's queue and its stop flag
  callbacks,       \* what invokeAsync has queued for the JS thread
  js,              \* what the JS thread is running
  registered,      \* is the context in g_llamaContexts?
  deletions,       \* how often the context has been deleted
  is_predicting, is_interrupted,   \* flags of ctx->completion
  generated_by,    \* the calls whose tokens are in generated_text
  cleanup,         \* how far cleanupJSIBindings() has come
  interrupted_at,  \* decoded[t] when t was interrupted (MaxTokens: never)
  covered,         \* history: tasks counted or over when release stopped waiting
  timed_out,       \* history: a release stopped waiting because time was up
  called_late      \* history: a job was queued after cleanup had begun

pool == <<tasks, stop>>
context == <<registered, deletions>>
flags == <<is_predicting, is_interrupted, generated_by>>
taskCount == <<activeTasks, shouldTrack>>
history == <<interrupted_at, covered, timed_out, called_late>>
vars == <<stage, reply, outcome, taskCount, decoded, shuttingDown, pool, callbacks, js,
          context, flags, cleanup, history>>

Idle == [kind |-> "idle"]

\* A worker is busy with the jobs at these stages.
OnPool == {"taken", "started", "holding", "checked", "testing", "decoding", "waiting",
           "removing", "deleting", "ended"}

\* A counted task has not been ended at these stages.
Working == {"started", "holding", "checked", "testing", "decoding", "ended", "scheduled"}

\* A thread of the pool has looked the context up and not yet finished with it.
HoldsPointer == {"holding", "checked", "testing", "decoding"}

Stage == OnPool \cup Working \cup {"uncalled", "calling", "queued", "over"}
Reply == {"none", "result", "released", "nothing_to_release", "not_found", "busy", "failed"}
Outcome == Reply \cup {"own", "foreign", "context_released", "dropped"}

TypeOK ==
  /\ stage \in [Call -> Stage] /\ reply \in [Call -> Reply] /\ outcome \in [Call -> Outcome]
  /\ shouldTrack \in [Call -> BOOLEAN]
  /\ decoded \in [Completion -> 0 .. MaxTokens]
  /\ activeTasks \in Nat /\ deletions \in Nat
  /\ tasks \in Seq(Call) /\ stop \in BOOLEAN
  /\ \A i \in DOMAIN callbacks : callbacks[i].kind \in {"token", "result"}
  /\ js.kind \in {"idle", "call", "token", "result"}
  /\ generated_by \subseteq Completion /\ covered \subseteq Completion
  /\ \A b \in {shuttingDown, registered, is_predicting, is_interrupted, timed_out,
               called_late} : b \in BOOLEAN
  /\ cleanup \in {"no", "flagged", "holding", "joining", "joined", "done", "left"}
  /\ interrupted_at \in [Completion -> 0 .. MaxTokens]

Init ==
  /\ stage = [c \in Call |-> "uncalled"]
  /\ reply = [c \in Call |-> "none"]
  /\ outcome = [c \in Call |-> "none"]
  /\ shouldTrack = [c \in Call |-> FALSE]
  /\ decoded = [t \in Completion |-> 0]
  /\ activeTasks = 0 /\ shuttingDown = FALSE
  /\ tasks = <<>> /\ stop = FALSE
  /\ callbacks = <<>> /\ js = Idle
  /\ registered = TRUE /\ deletions = 0
  /\ is_predicting = FALSE /\ is_interrupted = FALSE /\ generated_by = {}
  /\ cleanup = "no"
  /\ interrupted_at = [t \in Completion |-> MaxTokens]
  /\ covered = {} /\ timed_out = FALSE /\ called_late = FALSE

-----------------------------------------------------------------------------
(* Helpers                                                                 *)

MoveTo(c, s) == stage' = [stage EXCEPT ![c] = s]

\* The promise of c is settled, or will never be ("dropped").
Settle(c, how) ==
  /\ MoveTo(c, "over")
  /\ outcome' = [outcome EXCEPT ![c] = how]

\* finishTask(), if the task was counted: the guard shared by every way out of a job.
FinishTask(c) ==
  /\ activeTasks' = IF shouldTrack[c] /\ activeTasks > 0 THEN activeTasks - 1 ELSE activeTasks
  /\ UNCHANGED shouldTrack

\* The job is done with its work and will send answer r.
EndJob(c, r) ==
  /\ MoveTo(c, "ended")
  /\ reply' = [reply EXCEPT ![c] = r]

\* Enqueue on the pool: ensureRunning() takes the stop flag back.
Enqueue(c) ==
  /\ tasks' = Append(tasks, c)
  /\ stop' = FALSE
  /\ called_late' = (called_late \/ cleanup # "no")
  /\ UNCHANGED <<interrupted_at, covered, timed_out>>

\* The completions that an interrupt sent now is meant for.
Outstanding == {t \in Completion : stage[t] \notin {"uncalled", "calling", "scheduled", "over"}}

Interrupt ==
  /\ is_interrupted' = TRUE
  /\ interrupted_at' = [t \in Completion |->
       IF t \in Outstanding /\ decoded[t] < interrupted_at[t] THEN decoded[t] ELSE interrupted_at[t]]
  /\ UNCHANGED <<is_predicting, generated_by, covered, timed_out, called_late>>

-----------------------------------------------------------------------------
(* The JS thread                                                           *)

\* completion(), first part: the context is looked up.
CallCompletion(t) ==
  /\ js = Idle /\ stage[t] = "uncalled"
  /\ Awaits => \A u \in Completion : stage[u] \in {"uncalled", "over"}
  /\ CallsAfterRelease \/ \A r \in Release : stage[r] = "uncalled"
  /\ \/ /\ registered
        /\ js' = [kind |-> "call", of |-> t]
        /\ MoveTo(t, "calling")
        /\ UNCHANGED outcome
     \/ /\ ~registered
        /\ Settle(t, "not_found")
        /\ UNCHANGED js
  /\ UNCHANGED <<reply, taskCount, decoded, shuttingDown, pool, callbacks, context, flags,
                 cleanup, history>>

\* Faulty variant: rewind() keeps the text of the previous generation.
PostCompletion_KeepsText(t) ==
  /\ js = [kind |-> "call", of |-> t]
  /\ js' = Idle
  /\ IF is_predicting
       THEN Settle(t, "busy") /\ UNCHANGED <<flags, pool, history>>
       ELSE /\ MoveTo(t, "queued") /\ Enqueue(t)
            /\ is_interrupted' = FALSE
            /\ UNCHANGED <<is_predicting, generated_by, outcome>>
  /\ UNCHANGED <<reply, taskCount, decoded, shuttingDown, callbacks, context, cleanup>>

\* completion(), second part: the busy test, rewind() and the job.
PostCompletion(t) ==
  /\ js = [kind |-> "call", of |-> t]
  /\ js' = Idle
  /\ \/ /\ is_predicting
        /\ Settle(t, "busy")
        /\ UNCHANGED <<flags, pool, history>>
     \/ /\ ~is_predicting
        /\ is_interrupted' = FALSE /\ generated_by' = {}
        /\ MoveTo(t, "queued")
        /\ Enqueue(t)
        /\ UNCHANGED <<is_predicting, outcome>>
  /\ UNCHANGED <<reply, taskCount, decoded, shuttingDown, callbacks, context, cleanup>>

\* stopCompletion().
StopCompletion ==
  /\ js = Idle /\ registered
  /\ Interrupt
  /\ UNCHANGED <<stage, reply, outcome, taskCount, decoded, shuttingDown, pool, callbacks, js,
                 context, cleanup>>

\* releaseContext() only posts its job.
CallRelease(r) ==
  /\ js = Idle /\ stage[r] = "uncalled"
  /\ MoveTo(r, "queued")
  /\ Enqueue(r)
  /\ UNCHANGED <<reply, outcome, taskCount, decoded, shuttingDown, callbacks, js, context,
                 flags, cleanup>>

\* A token callback looks the context up again and is skipped without one.  It is not
\* counted as a task.
RunTokenCallback ==
  /\ js = Idle /\ callbacks # <<>> /\ Head(callbacks).kind = "token"
  /\ callbacks' = Tail(callbacks)
  /\ js' = IF registered THEN Head(callbacks) ELSE Idle
  /\ UNCHANGED <<stage, reply, outcome, taskCount, decoded, shuttingDown, pool, context,
                 flags, cleanup, history>>

TokenCallbackReturns ==
  /\ js.kind = "token"
  /\ js' = Idle
  /\ UNCHANGED <<stage, reply, outcome, taskCount, decoded, shuttingDown, pool, callbacks,
                 context, flags, cleanup, history>>

\* The callback that settles the promise: nothing is done during a shutdown, an error is
\* passed on, and a result is made from the context if it is still there.
RunResultCallback ==
  /\ js = Idle /\ callbacks # <<>> /\ Head(callbacks).kind = "result"
  /\ callbacks' = Tail(callbacks)
  /\ LET c == Head(callbacks).of IN
     IF reply[c] = "result" /\ registered /\ ~shuttingDown
       THEN js' = Head(callbacks) /\ UNCHANGED <<stage, outcome, taskCount>>
       ELSE /\ Settle(c, IF shuttingDown THEN "dropped"
                         ELSE IF reply[c] = "result" THEN "context_released" ELSE reply[c])
            /\ FinishTask(c)
            /\ UNCHANGED js
  /\ UNCHANGED <<reply, decoded, shuttingDown, pool, context, flags, cleanup, history>>

\* createCompletionResult() reads whatever ctx->completion holds by now.
IsOwnText(t) == generated_by = IF decoded[t] > 0 THEN {t} ELSE {}

DeliverResult(t) ==
  /\ js = [kind |-> "result", of |-> t]
  /\ js' = Idle
  /\ Settle(t, IF IsOwnText(t) THEN "own" ELSE "foreign")
  /\ FinishTask(t)
  /\ UNCHANGED <<reply, decoded, shuttingDown, pool, callbacks, context, flags, cleanup,
                 history>>

-----------------------------------------------------------------------------
(* The thread pool                                                         *)

Take ==
  /\ tasks # <<>>
  /\ Cardinality({c \in Call : stage[c] \in OnPool}) < NWorkers
  /\ MoveTo(Head(tasks), "taken")
  /\ tasks' = Tail(tasks)
  /\ UNCHANGED <<reply, outcome, taskCount, decoded, shuttingDown, stop, callbacks, js,
                 context, flags, cleanup, history>>

\* The worker counts the task, unless the process is shutting down: then the job returns.
StartTask(t) ==
  /\ stage[t] = "taken"
  /\ IF shuttingDown
       THEN Settle(t, "dropped") /\ UNCHANGED taskCount
       ELSE /\ MoveTo(t, "started")
            /\ shouldTrack' = [shouldTrack EXCEPT ![t] = TRUE]
            /\ activeTasks' = activeTasks + 1
            /\ UNCHANGED outcome
  /\ UNCHANGED <<reply, decoded, shuttingDown, pool, callbacks, js, context, flags, cleanup,
                 history>>

\* Faulty variant: a job that finds no context returns without an answer.
LookUp_Silent(t) ==
  /\ stage[t] = "started"
  /\ \/ (shuttingDown \/ ~registered) /\ Settle(t, "dropped") /\ FinishTask(t)
     \/ ~shuttingDown /\ registered /\ MoveTo(t, "holding") /\ UNCHANGED <<outcome, taskCount>>
  /\ UNCHANGED <<reply, decoded, shuttingDown, pool, callbacks, js, context, flags, cleanup,
                 history>>

\* The job looks the context up, unless a shutdown has begun since.
LookUp(t) ==
  /\ stage[t] = "started"
  /\ \/ shuttingDown /\ Settle(t, "dropped") /\ FinishTask(t) /\ UNCHANGED reply
     \/ ~shuttingDown /\ registered /\ MoveTo(t, "holding") /\ UNCHANGED <<outcome, taskCount, reply>>
     \/ ~shuttingDown /\ ~registered /\ EndJob(t, "not_found") /\ UNCHANGED <<outcome, taskCount>>
  /\ UNCHANGED <<decoded, shuttingDown, pool, callbacks, js, context, flags, cleanup, history>>

\* throwIfContextBusy() and initSampling(), which can fail.
CheckBusy(t) ==
  /\ stage[t] = "holding"
  /\ \/ is_predicting /\ EndJob(t, "busy")
     \/ ~is_predicting /\ (EndJob(t, "failed") \/ (MoveTo(t, "checked") /\ UNCHANGED reply))
  /\ UNCHANGED <<outcome, taskCount, decoded, shuttingDown, pool, callbacks, js, context,
                 flags, cleanup, history>>

\* Faulty variant: the job rewinds again, as it once did, and takes a pending interrupt back.
BeginCompletion_Rewinds(t) ==
  /\ stage[t] = "checked"
  /\ MoveTo(t, "testing")
  /\ is_predicting' = TRUE /\ is_interrupted' = FALSE /\ generated_by' = {}
  /\ UNCHANGED <<reply, outcome, taskCount, decoded, shuttingDown, pool, callbacks, js,
                 context, cleanup, history>>

\* beginCompletion().
BeginCompletion(t) ==
  /\ stage[t] = "checked"
  /\ MoveTo(t, "testing")
  /\ is_predicting' = TRUE
  /\ UNCHANGED <<reply, outcome, taskCount, decoded, shuttingDown, pool, callbacks, js,
                 context, is_interrupted, generated_by, cleanup, history>>

\* loadPrompt() throws, or the prompt fills the context: endCompletion(), then an error.
LoadPromptFails(t) ==
  /\ stage[t] = "testing" /\ decoded[t] = 0
  /\ EndJob(t, "failed")
  /\ is_predicting' = FALSE
  /\ UNCHANGED <<outcome, taskCount, decoded, shuttingDown, pool, callbacks, js, context,
                 is_interrupted, generated_by, cleanup, history>>

\* Faulty variant: the loop goes on without a next token.
ContinueGeneration_PastLimit(t) ==
  /\ stage[t] = "testing"
  /\ ~is_interrupted
  /\ MoveTo(t, "decoding")
  /\ UNCHANGED <<reply, outcome, taskCount, decoded, shuttingDown, pool, callbacks, js,
                 context, flags, cleanup, history>>

\* The loop test: has_next_token && !is_interrupted.
ContinueGeneration(t) ==
  /\ stage[t] = "testing"
  /\ ~is_interrupted /\ decoded[t] < MaxTokens
  /\ MoveTo(t, "decoding")
  /\ UNCHANGED <<reply, outcome, taskCount, decoded, shuttingDown, pool, callbacks, js,
                 context, flags, cleanup, history>>

\* doCompletion() appends a token; its text may be sent to the application's callback.
DecodeToken(t) ==
  /\ stage[t] = "decoding"
  /\ MoveTo(t, "testing")
  /\ decoded' = [decoded EXCEPT ![t] = @ + 1]
  /\ generated_by' = generated_by \cup {t}
  /\ \/ callbacks' = Append(callbacks, [kind |-> "token", of |-> t])
     \/ UNCHANGED callbacks
  /\ UNCHANGED <<reply, outcome, taskCount, shuttingDown, pool, js, context, is_predicting,
                 is_interrupted, cleanup, history>>

\* Speculative decoding can throw out of doCompletion(); nothing ends the completion then.
DecodeThrows(t) ==
  /\ stage[t] = "decoding"
  /\ EndJob(t, "failed")
  /\ UNCHANGED <<outcome, taskCount, decoded, shuttingDown, pool, callbacks, js, context,
                 flags, cleanup, history>>

\* The loop ends on an interrupt, or when has_next_token has become false (which may be so
\* from the start: a failed encode or decode yields no token): endCompletion().
EndCompletion(t) ==
  /\ stage[t] = "testing"
  /\ EndJob(t, "result")
  /\ is_predicting' = FALSE
  /\ UNCHANGED <<outcome, taskCount, decoded, shuttingDown, pool, callbacks, js, context,
                 is_interrupted, generated_by, cleanup, history>>

\* Faulty variant: the task is finished with the job's work, before its callback has run.
Schedule_FinishesTask(c) ==
  /\ stage[c] = "ended"
  /\ IF shuttingDown
       THEN Settle(c, "dropped") /\ UNCHANGED callbacks
       ELSE /\ callbacks' = Append(callbacks, [kind |-> "result", of |-> c])
            /\ MoveTo(c, "scheduled") /\ UNCHANGED outcome
  /\ FinishTask(c)
  /\ UNCHANGED <<reply, decoded, shuttingDown, pool, js, context, flags, cleanup, history>>

\* Faulty variant: a job that gives up in a shutdown forgets to finish its task.
Schedule_LeaksTask(c) ==
  /\ stage[c] = "ended"
  /\ IF shuttingDown
       THEN Settle(c, "dropped") /\ UNCHANGED callbacks
       ELSE /\ callbacks' = Append(callbacks, [kind |-> "result", of |-> c])
            /\ MoveTo(c, "scheduled") /\ UNCHANGED outcome
  /\ UNCHANGED <<taskCount, reply, decoded, shuttingDown, pool, js, context, flags, cleanup,
                 history>>

\* The job hands its answer to the JS thread.  During a shutdown it finishes the task and
\* gives up, as it does when invokeAsync() fails because React Native is going away.
Schedule(c) ==
  /\ stage[c] = "ended"
  /\ IF shuttingDown
       THEN Settle(c, "dropped") /\ FinishTask(c) /\ UNCHANGED callbacks
       ELSE /\ callbacks' = Append(callbacks, [kind |-> "result", of |-> c])
            /\ MoveTo(c, "scheduled")
            /\ UNCHANGED <<outcome, taskCount>>
  /\ UNCHANGED <<reply, decoded, shuttingDown, pool, js, context, flags, cleanup, history>>

-----------------------------------------------------------------------------
(* The release job: it is not counted as a task                            *)

ReleaseLookUp(r) ==
  /\ stage[r] = "taken"
  /\ \/ shuttingDown /\ Settle(r, "dropped")
     \/ ~shuttingDown /\ MoveTo(r, IF registered THEN "holding" ELSE "waiting") /\ UNCHANGED outcome
  /\ reply' = [reply EXCEPT ![r] = IF registered THEN "released" ELSE "nothing_to_release"]
  /\ UNCHANGED <<taskCount, decoded, shuttingDown, pool, callbacks, js, context, flags,
                 cleanup, history>>

ReleaseInterrupts(r) ==
  /\ stage[r] = "holding"
  /\ MoveTo(r, "waiting")
  /\ Interrupt
  /\ UNCHANGED <<reply, outcome, taskCount, decoded, shuttingDown, pool, callbacks, js,
                 context, cleanup>>

\* waitForContext(contextId, 0) returns: no task is counted, or the process is shutting
\* down, or five seconds are over.  A release that found no context waits, too.
ReleaseStopsWaiting(r) ==
  /\ stage[r] = "waiting"
  /\ \/ shuttingDown /\ MoveTo(r, "ended") /\ UNCHANGED history
     \/ /\ ~shuttingDown
        /\ MoveTo(r, IF reply[r] = "released" THEN "removing" ELSE "ended")
        /\ timed_out' = (timed_out \/ activeTasks > 0)
        /\ covered' = {t \in Completion : stage[t] \in Working \cup {"over"}}
        /\ UNCHANGED <<interrupted_at, called_late>>
  /\ UNCHANGED <<reply, outcome, taskCount, decoded, shuttingDown, pool, callbacks, js,
                 context, flags, cleanup>>

\* Faulty variant: the context stays in the registry while it is deleted.
RemoveContext_Kept(r) ==
  /\ stage[r] = "removing"
  /\ MoveTo(r, "deleting")
  /\ UNCHANGED <<reply, outcome, taskCount, decoded, shuttingDown, pool, callbacks, js,
                 context, flags, cleanup, history>>

\* The context is taken out of the registry first ...
RemoveContext(r) ==
  /\ stage[r] = "removing"
  /\ registered' = FALSE
  /\ MoveTo(r, "deleting")
  /\ UNCHANGED <<reply, outcome, taskCount, decoded, shuttingDown, pool, callbacks, js,
                 deletions, flags, cleanup, history>>

\* ... and then deleted.
DeleteContext(r) ==
  /\ stage[r] = "deleting"
  /\ deletions' = deletions + 1
  /\ MoveTo(r, "ended")
  /\ UNCHANGED <<reply, outcome, taskCount, decoded, shuttingDown, pool, callbacks, js,
                 registered, flags, cleanup, history>>

-----------------------------------------------------------------------------
(* cleanupJSIBindings()                                                    *)

unchangedByCleanup == <<stage, reply, outcome, taskCount, decoded, callbacks, js>>

CleanupBegins ==
  /\ cleanup = "no"
  /\ cleanup' = "flagged" /\ shuttingDown' = TRUE
  /\ UNCHANGED <<unchangedByCleanup, pool, context, flags, history>>

\* A snapshot of the registry is taken; without contexts nothing else is done.
CleanupSnapshot ==
  /\ cleanup = "flagged"
  /\ cleanup' = IF registered THEN "holding" ELSE "left"
  /\ UNCHANGED <<unchangedByCleanup, shuttingDown, pool, context, flags, history>>

\* Faulty variant: the pool is not told to stop.
CleanupStopsPool_NoStop ==
  /\ cleanup = "holding"
  /\ cleanup' = "joining"
  /\ Interrupt
  /\ UNCHANGED <<unchangedByCleanup, shuttingDown, pool, context>>

\* The context is interrupted and the pool told to stop.
CleanupStopsPool ==
  /\ cleanup = "holding"
  /\ cleanup' = "joining"
  /\ Interrupt
  /\ stop' = TRUE
  /\ UNCHANGED <<unchangedByCleanup, shuttingDown, tasks, context>>

\* A stopped worker leaves once the queue is empty; shutdown() joins them all.
CleanupJoins ==
  /\ cleanup = "joining"
  /\ stop /\ tasks = <<>>
  /\ \A c \in Call : stage[c] \notin OnPool
  /\ cleanup' = "joined"
  /\ UNCHANGED <<unchangedByCleanup, shuttingDown, pool, context, flags, history>>

\* clear() empties the registry and deletes what was in it.
CleanupDeletes ==
  /\ cleanup = "joined"
  /\ cleanup' = "done"
  /\ registered' = FALSE
  /\ deletions' = IF registered THEN deletions + 1 ELSE deletions
  /\ UNCHANGED <<unchangedByCleanup, shuttingDown, pool, flags, history>>

-----------------------------------------------------------------------------
(* The threads                                                             *)

Calls ==
  \/ \E t \in Completion : CallCompletion(t)
  \/ \E r \in Release : CallRelease(r)
  \/ StopCompletion

JsThread ==
  \/ \E t \in Completion : PostCompletion(t) \/ DeliverResult(t)
  \/ RunTokenCallback \/ TokenCallbackReturns \/ RunResultCallback

Job(t) ==
  \/ StartTask(t) \/ LookUp(t) \/ CheckBusy(t) \/ BeginCompletion(t) \/ LoadPromptFails(t)
  \/ ContinueGeneration(t) \/ DecodeToken(t) \/ DecodeThrows(t) \/ EndCompletion(t)

ReleaseJob(r) ==
  \/ ReleaseLookUp(r) \/ ReleaseInterrupts(r) \/ ReleaseStopsWaiting(r)
  \/ RemoveContext(r) \/ DeleteContext(r)

CleanupThread == CleanupSnapshot \/ CleanupStopsPool \/ CleanupJoins \/ CleanupDeletes

Next ==
  \/ Calls \/ JsThread \/ Take
  \/ \E t \in Completion : Job(t)
  \/ \E r \in Release : ReleaseJob(r)
  \/ \E c \in Call : Schedule(c)
  \/ CleanupBegins \/ CleanupThread

Spec == Init /\ [][Next]_vars

\* The operating system schedules every thread that can run; what the application calls,
\* and whether the module is invalidated, is up to them.
FairSpec ==
  /\ Spec
  /\ WF_vars(JsThread) /\ WF_vars(Take) /\ WF_vars(CleanupThread)
  /\ \A t \in Completion : WF_vars(Job(t))
  /\ \A r \in Release : WF_vars(ReleaseJob(r))
  /\ \A c \in Call : WF_vars(Schedule(c))

-----------------------------------------------------------------------------
(* Properties                                                              *)

\* TaskManager's count is the number of counted jobs that are not over, whichever of its
\* exits a job takes: a release neither waits for a task that is gone nor misses one that
\* is not (createPromiseTask, TaskFinishGuard).
TaskCountExact ==
  activeTasks = Cardinality({c \in Call : shouldTrack[c] /\ stage[c] \in Working})

\* The calls that are using the context they looked up: jobs on the pool, and the host
\* function or callback that the JS thread runs.
UsingContext ==
  {t \in Completion : stage[t] \in HoldsPointer} \cup (IF js = Idle THEN {} ELSE {js.of})

\* A release that was not cut short waits for every task counted before it stopped waiting:
\* when it deletes the context, no such task uses it, neither on the pool nor in a token or
\* result callback on the JS thread, although token callbacks are not counted.  The shutdown
\* joins the pool: when it has deleted the context no worker uses it, as jobs queued later
\* see the flag before they look the context up.
DeletionWaitsForTasks ==
  /\ (deletions > 0 /\ cleanup = "no" /\ ~timed_out) => UsingContext \cap covered = {}
  /\ cleanup = "done" => \A t \in Completion : stage[t] \notin HoldsPointer

\* The context is deleted once, by the release or by the shutdown.
DeletedOnce == deletions <= 1

\* An application that awaits each completion gets the text of the call it awaited, never
\* another's and never one that rewind() has emptied, though the result is read from the
\* shared context in a callback that runs after the generation has ended.
ResultIsOwn ==
  Awaits => \A t \in Completion : outcome[t] # "foreign"

\* A stop, a release or a shutdown ends the generation within one token, also when it comes
\* before the job has started: nothing on the way takes the interrupt back.
InterruptStopsGeneration ==
  Awaits => \A t \in Completion : decoded[t] <= interrupted_at[t] + 1

\* Every promise is settled, with a result or an error, unless the process shuts down.
EveryCallSettles ==
  \A c \in Call : stage[c] = "queued" ~> (outcome[c] \notin {"none", "dropped"} \/ shuttingDown)

\* The shutdown ends, unless the application keeps calling while it runs: a job queued then
\* takes the pool's stop flag back.
ShutdownEnds == shuttingDown ~> (cleanup \in {"done", "left"} \/ called_late)

\* What the comment in releaseContext() claims: nothing uses the context any more when the
\* release deletes it.
NothingUsesDeletedContext ==
  (deletions > 0 /\ cleanup = "no" /\ ~timed_out) => UsingContext = {}
=============================================================================
