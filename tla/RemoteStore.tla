----------------------------- MODULE RemoteStore -----------------------------
(***************************************************************************)
(* The network half of the Firestore client: the watch stream, the write   *)
(* stream, and what the client believes about being online.                *)
(*                                                                         *)
(* A stream asks for a credential, opens, fails, backs off and goes idle.  *)
(* RemoteStore starts it whenever it is needed.  The write stream begins   *)
(* with a handshake and then carries the write pipeline, the front of the  *)
(* mutation queue; an answer carries no name and is matched with the front *)
(* of the pipeline.  Closing a stream cannot take back the callback that   *)
(* waits for its credential: it comes later, to a stream that has moved on.*)
(*                                                                         *)
(* Everything runs on the client's one worker queue; an action is one task *)
(* of it, with all that the task calls.  A stream opens as soon as its     *)
(* credential is there (GrpcStream::Start does not wait for the backend),  *)
(* so an open stream may be one that never hears anything.                 *)
(***************************************************************************)
EXTENDS Integers, Sequences, FiniteSets, SequencesExt

CONSTANTS
    Users,                   \* who the mutation queues belong to
    Targets,                 \* what the client may listen to
    MaxPendingWrites,        \* kMaxPendingWrites
    MaxWatchStreamFailures,  \* kMaxWatchStreamFailures
    MaxWrites,               \* bound: batches the app writes
    MaxRestarts              \* bound: restarts of the network or the process

ASSUME RemoteStoreAssumption ==
    /\ MaxPendingWrites \in Nat \ {0}
    /\ MaxWatchStreamFailures \in Nat \ {0}
    /\ MaxWrites \in Nat /\ MaxRestarts \in Nat

VARIABLES
    user,           \* whose queue the client works on
    queue,          \* the mutation queue of each user, a sequence of batch ids
    nextBatch,      \* the id of the next batch
    watch, write,   \* the two streams
    listenTargets,  \* listen_targets_
    watched,        \* the targets the backend was asked for on this watch stream
    online,         \* the online state tracker
    pipeline,       \* write_pipeline_
    handshake,      \* handshake_complete_
    sent,           \* requests on the write stream, not yet handled
    answers,        \* answers on the write stream, not yet read
    restarts        \* restarts so far

vars == <<user, queue, nextBatch, watch, write, listenTargets, watched, online,
          pipeline, handshake, sent, answers, restarts>>

Batch == 1 .. MaxWrites
Handshake == 0

-----------------------------------------------------------------------------
(* A stream.  token: a credential was asked for and is still wanted; stale: *)
(* callbacks for credentials asked for before a close, which close_count_   *)
(* makes void; backoff, idle: the timer is running.                         *)

StreamState == {"Initial", "Starting", "Open", "Error", "Backoff"}

Stream == [state : StreamState, token : BOOLEAN, stale : Nat,
           backoff : BOOLEAN, idle : BOOLEAN]

NewStream == [state |-> "Initial", token |-> FALSE, stale |-> 0,
              backoff |-> FALSE, idle |-> FALSE]

IsOpen(s) == s.state = "Open"
IsStarted(s) == s.state \in {"Starting", "Backoff", "Open"}

Start(s) ==
    IF s.state = "Error"
    THEN [s EXCEPT !.state = "Backoff", !.backoff = TRUE]
    ELSE [s EXCEPT !.state = "Starting", !.token = TRUE]

\* Mutation: the backoff timer is not cancelled.
CloseKeepsBackoff(s, graceful) ==
    [s EXCEPT !.state = IF graceful THEN "Initial" ELSE "Error",
              !.token = FALSE,
              !.stale = IF s.token THEN @ + 1 ELSE @,
              !.idle = FALSE]

Close(s, graceful) ==
    [state |-> IF graceful THEN "Initial" ELSE "Error",
     token |-> FALSE,
     stale |-> IF s.token THEN s.stale + 1 ELSE s.stale,
     backoff |-> FALSE,
     idle |-> FALSE]

\* Closed by an error, which for a stream that is starting is what its callback
\* brings.
Fail(s) == Close([s EXCEPT !.token = FALSE], FALSE)

Stop(s) == IF IsStarted(s) THEN Close(s, TRUE) ELSE s

InhibitBackoff(s) == [s EXCEPT !.state = "Initial"]

MarkIdle(s) == [s EXCEPT !.idle = @ \/ IsOpen(s)]

CancelIdleCheck(s) == [s EXCEPT !.idle = FALSE]

OnStreamStart(s) == [s EXCEPT !.state = "Open", !.token = FALSE]

BackoffElapsed(s) == [s EXCEPT !.state = "Starting", !.backoff = FALSE, !.token = TRUE]

-----------------------------------------------------------------------------
(* The online state tracker.                                                *)

OnlineState == {"Unknown", "Online", "Offline"}

Tracker == [state : OnlineState, failures : 0 .. MaxWatchStreamFailures, timer : BOOLEAN]

UpdateState(new) == [state |-> new, failures |-> 0, timer |-> FALSE]

HandleWatchStreamStart(o) ==
    IF o.failures # 0 THEN o ELSE [o EXCEPT !.state = "Unknown", !.timer = TRUE]

\* Mutation: a failure leaves the timer running.
FailureKeepsTimer(o) ==
    IF o.state = "Online"
    THEN [o EXCEPT !.state = "Unknown"]
    ELSE [o EXCEPT !.state = "Offline", !.failures = MaxWatchStreamFailures]

\* Mutation: failures are counted and never compared.
FailureCountsOn(o) ==
    IF o.state = "Online" THEN [o EXCEPT !.state = "Unknown"] ELSE [o EXCEPT !.failures = @ + 1]

\* Mutation: the failures are counted, and nobody is told.
FailureNeverTold(o) ==
    IF o.state = "Online"
    THEN [o EXCEPT !.state = "Unknown"]
    ELSE [o EXCEPT !.failures = MaxWatchStreamFailures, !.timer = FALSE]

\* failures stays at its threshold once there, since only that is compared.
HandleWatchStreamFailure(o) ==
    IF o.state = "Online"
    THEN [o EXCEPT !.state = "Unknown"]
    ELSE IF o.failures + 1 < MaxWatchStreamFailures
    THEN [o EXCEPT !.failures = @ + 1]
    ELSE [state |-> "Offline", failures |-> MaxWatchStreamFailures, timer |-> FALSE]

-----------------------------------------------------------------------------
Init ==
    /\ user \in Users
    /\ queue = [u \in Users |-> <<>>]
    /\ nextBatch = 1
    /\ watch = NewStream /\ write = NewStream
    /\ listenTargets = {} /\ watched = {}
    /\ online = UpdateState("Unknown")
    /\ pipeline = <<>> /\ handshake = FALSE
    /\ sent = <<>> /\ answers = <<>>
    /\ restarts = 0

writeVars == <<write, pipeline, handshake, sent, answers>>
watchVars == <<watch, listenTargets, watched, online>>
queueVars == <<user, queue, nextBatch>>

-----------------------------------------------------------------------------
(* The watch stream                                                         *)

StartWatchStream(s, o) ==
    /\ watch' = Start(s)
    /\ online' = HandleWatchStreamStart(o)

\* Mutation: a request does not stop the idle timer.
ListenKeepsIdle(t) ==
    /\ t \notin listenTargets
    /\ listenTargets' = listenTargets \cup {t}
    /\ watched' = IF IsOpen(watch) THEN watched \cup {t} ELSE watched
    /\ IF IsStarted(watch)
       THEN UNCHANGED <<watch, online>>
       ELSE StartWatchStream(watch, online)
    /\ UNCHANGED <<queueVars, writeVars, restarts>>

Listen(t) ==
    /\ t \notin listenTargets
    /\ listenTargets' = listenTargets \cup {t}
    /\ \/ /\ ~IsStarted(watch)
          /\ StartWatchStream(watch, online)
          /\ UNCHANGED watched
       \/ /\ IsOpen(watch)
          /\ watch' = CancelIdleCheck(watch)
          /\ watched' = watched \cup {t}
          /\ UNCHANGED online
       \/ /\ IsStarted(watch) /\ ~IsOpen(watch)
          /\ UNCHANGED <<watch, watched, online>>
    /\ UNCHANGED <<queueVars, writeVars, restarts>>

StopListening(t) ==
    /\ t \in listenTargets
    /\ listenTargets' = listenTargets \ {t}
    /\ IF IsOpen(watch)
       THEN /\ watch' = IF listenTargets' = {} THEN MarkIdle(CancelIdleCheck(watch))
                                               ELSE CancelIdleCheck(watch)
            /\ watched' = watched \ {t}
            /\ UNCHANGED online
       ELSE /\ online' = IF listenTargets' = {} THEN UpdateState("Unknown") ELSE online
            /\ UNCHANGED <<watch, watched>>
    /\ UNCHANGED <<queueVars, writeVars, restarts>>

\* Mutation: the targets are not sent again to a new stream.
OpenForgetsTargets ==
    /\ watch.token
    /\ watch' = OnStreamStart(watch)
    /\ UNCHANGED <<listenTargets, watched, online, queueVars, writeVars, restarts>>

\* The credential arrives: ResumeStartWithCredentials, OnWatchStreamOpen.
WatchOpens ==
    /\ watch.token
    /\ watch' = OnStreamStart(watch)
    /\ watched' = listenTargets
    /\ UNCHANGED <<listenTargets, online, queueVars, writeVars, restarts>>

\* No credential, or a call that ended with an error: Close, OnWatchStreamClose.
WatchFails ==
    /\ watch.token \/ IsOpen(watch)
    /\ watched' = {}
    /\ \/ /\ listenTargets # {}
          /\ StartWatchStream(Fail(watch), HandleWatchStreamFailure(online))
       \/ /\ listenTargets = {}
          /\ watch' = Fail(watch)
          /\ online' = UpdateState("Unknown")
    /\ UNCHANGED <<listenTargets, queueVars, writeVars, restarts>>

\* The idle timer stops the stream.
WatchIdles ==
    /\ watch.idle
    /\ watch' = Stop(watch)
    /\ watched' = {}
    /\ online' = UpdateState("Unknown")
    /\ UNCHANGED <<listenTargets, queueVars, writeVars, restarts>>

WatchBackoffElapses ==
    /\ watch.backoff
    /\ watch' = BackoffElapsed(watch)
    /\ UNCHANGED <<listenTargets, watched, online, queueVars, writeVars, restarts>>

\* The backend says something, if only that a target was removed as asked.
OnWatchStreamChange ==
    /\ IsOpen(watch)
    /\ watched # {} \/ watch.idle
    /\ online' = UpdateState("Online")
    /\ UNCHANGED <<watch, listenTargets, watched, queueVars, writeVars, restarts>>

\* The backend refuses a target.
ProcessTargetError(t) ==
    /\ IsOpen(watch)
    /\ t \in watched
    /\ online' = UpdateState("Online")
    /\ listenTargets' = listenTargets \ {t}
    /\ watched' = watched \ {t}
    /\ UNCHANGED <<watch, queueVars, writeVars, restarts>>

\* The callback of the online state timer.
OnlineStateTimeout ==
    /\ online.timer
    /\ online' = [online EXCEPT !.state = "Offline", !.timer = FALSE]
    /\ UNCHANGED <<watch, listenTargets, watched, queueVars, writeVars, restarts>>

-----------------------------------------------------------------------------
(* The write stream                                                         *)

\* How far the queue q has gone into the pipeline p: batch ids grow, and
\* GetNextMutationBatch seeks the first one after the last of the pipeline.
Passed(q, p) ==
    IF p = <<>> THEN 0
    ELSE CHOOSE k \in 0 .. Len(q) : \A i \in 1 .. Len(q) : i <= k <=> q[i] <= Last(p)

\* The batches that follow the pipeline p in the queue q, as many as there is
\* room for.
NextBatches(q, p) ==
    SubSeq(q, Passed(q, p) + 1, Min({Passed(q, p) + MaxPendingWrites - Len(p), Len(q)}))

\* From the queue q, with the pipeline p, the stream s and its requests w.
FillWritePipeline(q, p, s, w) ==
    LET added == NextBatches(q, p)
        ready == IsOpen(s) /\ handshake
        busy == CASE p \o added = <<>> -> MarkIdle(s)
                  [] added # <<>> /\ ready -> CancelIdleCheck(s)
                  [] OTHER -> s
    IN
    /\ pipeline' = p \o added
    /\ sent' = IF ready THEN w \o added ELSE w
    /\ write' = IF p \o added # <<>> /\ ~IsStarted(busy) THEN Start(busy) ELSE busy

\* The app writes: the batch goes to the queue and from there to the pipeline.
WriteMutations ==
    /\ nextBatch <= MaxWrites
    /\ nextBatch' = nextBatch + 1
    /\ queue' = [queue EXCEPT ![user] = Append(@, nextBatch)]
    /\ FillWritePipeline(queue'[user], pipeline, write, sent)
    /\ UNCHANGED <<user, handshake, answers, watchVars, restarts>>

\* The credential arrives: ResumeStartWithCredentials, OnWriteStreamOpen.
WriteOpens ==
    /\ write.token
    /\ write' = OnStreamStart(write)
    /\ sent' = <<Handshake>>
    /\ UNCHANGED <<pipeline, handshake, answers, queueVars, watchVars, restarts>>

WriteBackoffElapses ==
    /\ write.backoff
    /\ write' = BackoffElapsed(write)
    /\ UNCHANGED <<pipeline, handshake, sent, answers, queueVars, watchVars, restarts>>

\* The backend handles requests in order.
BackendAnswers ==
    /\ sent # <<>>
    /\ answers' = Append(answers, Head(sent))
    /\ sent' = Tail(sent)
    /\ UNCHANGED <<write, pipeline, handshake, queueVars, watchVars, restarts>>

\* The first answer, whatever it says, completes the handshake.
OnWriteStreamHandshakeComplete ==
    /\ answers # <<>>
    /\ ~handshake
    /\ handshake' = TRUE
    /\ answers' = Tail(answers)
    /\ sent' = sent \o pipeline
    /\ write' = IF pipeline = <<>> THEN write ELSE CancelIdleCheck(write)
    /\ UNCHANGED <<pipeline, queueVars, watchVars, restarts>>

\* The batch leaves the queue: HandleSuccessfulWrite, HandleRejectedWrite.
RemoveBatch(b) ==
    \E i \in 1 .. Len(queue[user]) :
        /\ queue[user][i] = b
        /\ queue' = [queue EXCEPT ![user] = RemoveAt(@, i)]

\* Any other answer is taken to be for the front of the pipeline.
OnWriteStreamMutationResult ==
    /\ answers # <<>>
    /\ handshake
    /\ answers' = Tail(answers)
    /\ RemoveBatch(Head(pipeline))
    /\ FillWritePipeline(queue'[user], Tail(pipeline), write, sent)
    /\ UNCHANGED <<user, nextBatch, handshake, watchVars, restarts>>

\* Mutation: what the call has answered is still read after it has ended.
WriteFailsKeepingAnswers ==
    /\ write.token \/ IsOpen(write)
    /\ write' = IF pipeline = <<>> THEN Fail(write) ELSE Start(Fail(write))
    /\ handshake' = FALSE /\ sent' = <<>>
    /\ UNCHANGED <<pipeline, answers, queueVars, watchVars, restarts>>

\* No credential, or a call that ended with an error that is not final: Close,
\* OnWriteStreamClose.
WriteFails ==
    /\ write.token \/ IsOpen(write)
    /\ write' = IF pipeline = <<>> THEN Fail(write) ELSE Start(Fail(write))
    /\ handshake' = FALSE /\ sent' = <<>> /\ answers' = <<>>
    /\ UNCHANGED <<pipeline, queueVars, watchVars, restarts>>

\* Mutation: the write that was refused stays in the queue.
RefusedStaysQueued ==
    /\ sent # <<>> /\ Head(sent) # Handshake /\ answers = <<>>
    /\ FillWritePipeline(queue[user], Tail(pipeline), InhibitBackoff(Fail(write)), <<>>)
    /\ handshake' = FALSE /\ answers' = <<>>
    /\ UNCHANGED <<queueVars, watchVars, restarts>>

\* The backend ends the call because it refuses the next write: Close,
\* OnWriteStreamClose, HandleWriteError.
HandleWriteError ==
    /\ sent # <<>> /\ Head(sent) # Handshake /\ answers = <<>>
    /\ RemoveBatch(Head(pipeline))
    /\ FillWritePipeline(queue'[user], Tail(pipeline), InhibitBackoff(Fail(write)), <<>>)
    /\ handshake' = FALSE /\ answers' = <<>>
    /\ UNCHANGED <<user, nextBatch, watchVars, restarts>>

\* The idle timer stops the stream.
WriteIdles ==
    /\ write.idle
    /\ write' = Stop(write)
    /\ handshake' = FALSE /\ sent' = <<>> /\ answers' = <<>>
    /\ UNCHANGED <<pipeline, queueVars, watchVars, restarts>>

-----------------------------------------------------------------------------
(* Both streams                                                             *)

\* The callback of a credential asked for before a close does nothing.
StaleToken ==
    \/ /\ watch.stale > 0
       /\ watch' = [watch EXCEPT !.stale = @ - 1]
       /\ UNCHANGED <<listenTargets, watched, online, writeVars, queueVars, restarts>>
    \/ /\ write.stale > 0
       /\ write' = [write EXCEPT !.stale = @ - 1]
       /\ UNCHANGED <<pipeline, handshake, sent, answers, watchVars, queueVars, restarts>>

\* DisableNetworkInternal and EnableNetwork, with the queue q.
RestartNetwork(q) ==
    /\ restarts < MaxRestarts
    /\ restarts' = restarts + 1
    /\ watched' = {}
    /\ IF listenTargets = {}
       THEN watch' = InhibitBackoff(Stop(watch)) /\ online' = UpdateState("Unknown")
       ELSE StartWatchStream(InhibitBackoff(Stop(watch)), UpdateState("Unknown"))
    /\ FillWritePipeline(q, <<>>, InhibitBackoff(Stop(write)), <<>>)
    /\ handshake' = FALSE /\ answers' = <<>>
    /\ UNCHANGED listenTargets

ConnectivityChange ==
    /\ RestartNetwork(queue[user])
    /\ UNCHANGED queueVars

\* Mutation: the streams are restarted before the queue is swapped.
CredentialChangeLate(u) ==
    /\ user' = u
    /\ RestartNetwork(queue[user])
    /\ UNCHANGED <<queue, nextBatch>>

\* Another user, or another token for the same one.
HandleCredentialChange(u) ==
    /\ user' = u
    /\ RestartNetwork(queue[u])
    /\ UNCHANGED <<queue, nextBatch>>

\* The process starts anew; only the queues are on disk.
Restart ==
    /\ restarts < MaxRestarts
    /\ restarts' = restarts + 1
    /\ watch' = NewStream /\ listenTargets' = {} /\ watched' = {}
    /\ online' = UpdateState("Unknown")
    /\ FillWritePipeline(queue[user], <<>>, NewStream, <<>>)
    /\ handshake' = FALSE /\ answers' = <<>>
    /\ UNCHANGED queueVars

-----------------------------------------------------------------------------
Next ==
    \/ \E t \in Targets : Listen(t)
    \/ \E t \in Targets : StopListening(t)
    \/ WatchOpens
    \/ WatchFails
    \/ WatchIdles
    \/ WatchBackoffElapses
    \/ OnWatchStreamChange
    \/ \E t \in Targets : ProcessTargetError(t)
    \/ OnlineStateTimeout
    \/ WriteMutations
    \/ WriteOpens
    \/ WriteBackoffElapses
    \/ BackendAnswers
    \/ OnWriteStreamHandshakeComplete
    \/ OnWriteStreamMutationResult
    \/ WriteFails
    \/ HandleWriteError
    \/ WriteIdles
    \/ StaleToken
    \/ ConnectivityChange
    \/ \E u \in Users : HandleCredentialChange(u)
    \/ Restart

Spec == Init /\ [][Next]_vars

\* What the device owes: its timers fire.
Timers == WF_vars(OnlineStateTimeout) /\ WF_vars(WatchBackoffElapses) /\ WF_vars(WriteBackoffElapses)

\* What Auth and the network owe: a credential or an error, an answer or the
\* end of the call.
Network ==
    /\ WF_vars(WatchOpens \/ WatchFails)
    /\ WF_vars(OnWatchStreamChange \/ WatchFails)
    /\ WF_vars(WriteOpens \/ WriteFails)
    /\ WF_vars(BackendAnswers \/ HandleWriteError \/ WriteFails)
    /\ WF_vars(OnWriteStreamHandshakeComplete \/ OnWriteStreamMutationResult \/ WriteFails)

FairSpec == Spec /\ Timers /\ Network

-----------------------------------------------------------------------------
(* Properties *)

\* Every variable keeps its type.
TypeOK ==
    /\ user \in Users
    /\ queue \in [Users -> Seq(Batch)]
    /\ nextBatch \in 1 .. MaxWrites + 1
    /\ watch \in Stream /\ write \in Stream
    /\ listenTargets \subseteq Targets /\ watched \subseteq Targets
    /\ online \in Tracker
    /\ pipeline \in Seq(Batch)
    /\ handshake \in BOOLEAN
    /\ sent \in Seq(Batch \cup {Handshake}) /\ answers \in Seq(Batch \cup {Handshake})
    /\ restarts \in 0 .. MaxRestarts

\* What a callback finds when it runs is what it was scheduled for (stream.cc:129,
\* "State should still be 'Starting'", and stream.cc:160, "Backoff elapsed but
\* state is now"): neither a close nor a second start is overtaken by the
\* credential or the timer of the attempt before.
CallbackFits(s) ==
    /\ s.token <=> s.state = "Starting"
    /\ s.backoff <=> s.state = "Backoff"
    /\ s.idle => IsOpen(s)

CallbacksFit == CallbackFits(watch) /\ CallbackFits(write)

\* remote_store.cc:236 and :456, "stopped gracefully while still needed": the
\* idle timer never stops a stream somebody needs, and a needed stream is never
\* left unstarted, whatever closes it and whoever asks for it meanwhile.
StreamsRunWhenNeeded ==
    /\ watch.idle => listenTargets = {}
    /\ write.idle => pipeline = <<>>
    /\ listenTargets # {} => IsStarted(watch)
    /\ queue[user] # <<>> => IsStarted(write)

\* online_state_tracker.cc:62, :68, :88 and :90: the timer only runs while the
\* state is unknown, the failures are too few to tell and an attempt is being
\* made, and being online means that no failure is remembered.
TimerOnlyWhileUnknown ==
    /\ online.timer =>
           /\ online.state = "Unknown"
           /\ online.failures < MaxWatchStreamFailures
           /\ IsStarted(watch)
    /\ online.state = "Online" => online.failures = 0

\* An open watch stream watches what the client listens to, through targets
\* that come and go before, between and during attempts.
WatchesWhatIsListenedTo == IsOpen(watch) => watched = listenTargets

\* remote_store.cc:437, "Got result for empty write pipeline": what is under way
\* on the write stream, answered or not, is the pipeline, in order and once, and
\* the pipeline is the front of the queue of the user who is signed in.
WireMatchesPipeline ==
    /\ answers \o sent = CASE ~IsOpen(write) -> <<>>
                           [] IsOpen(write) /\ ~handshake -> <<Handshake>>
                           [] OTHER -> pipeline
    /\ pipeline = SubSeq(queue[user], 1, Min({MaxPendingWrites, Len(queue[user])}))
    /\ handshake => IsOpen(write)

\* Answers carry no name: all the same a write leaves its queue only with the
\* answer, or the refusal, that the backend gave to that very write, and the
\* writes of a user leave in the order they were made.
OwnAnswer ==
    [][\A u \in Users :
           Len(queue'[u]) < Len(queue[u]) =>
               /\ u = user
               /\ queue'[u] = Tail(queue[u])
               /\ Head(queue[u]) = Head(answers \o sent)]_vars

\* Each write of a user who stays is settled, as long as calls do not fail for
\* ever: no failure, refusal or restart leaves the queue without a stream, or a
\* stream without its writes.
QueueDrains ==
    \A u \in Users :
        <>[](user = u) /\ <>[][~WriteFails]_vars => <>[](queue[u] = <<>>)

\* With a network that answers or fails, a client that listens learns whether
\* it is online, which is what a query waits for (query_listener.cc:151).
OnlineStateSettles ==
    (listenTargets # {} /\ online.state = "Unknown")
        ~> (listenTargets = {} \/ online.state # "Unknown")

-----------------------------------------------------------------------------
(* The inductive invariant.                                                  *)

\* Batch ids grow along every queue, and the next one is new.
QueuesAscend ==
    \A u \in Users :
        /\ \A i, j \in 1 .. Len(queue[u]) : i < j => queue[u][i] < queue[u][j]
        /\ \A i \in 1 .. Len(queue[u]) : queue[u][i] < nextBatch

\* Only a stream whose handshake is over waits to be stopped.
IdleAfterHandshake == write.idle => handshake

IInv ==
    /\ TypeOK /\ QueuesAscend /\ IdleAfterHandshake
    /\ CallbacksFit /\ StreamsRunWhenNeeded /\ TimerOnlyWhileUnknown
    /\ WatchesWhatIsListenedTo /\ WireMatchesPipeline
=============================================================================
