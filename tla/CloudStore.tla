----------------------------- MODULE CloudStore -----------------------------
(***************************************************************************)
(* The Firestore client that the app writes favourites and photos through, *)
(* seen as one collection of documents that are created and deleted and    *)
(* never changed.                                                          *)
(*                                                                         *)
(* A write is put in the persisted queue of the signed-in user and is      *)
(* visible to the app at once.  The write stream sends the queue in order  *)
(* and results come back in order; the watch stream brings what the        *)
(* backend holds, whenever it likes.  A lost connection loses the results  *)
(* on their way, and since streams are never resumed the writes they were  *)
(* for are sent, and committed, again.  Changing users swaps the queue.    *)
(*                                                                         *)
(* Everything the client does runs on its one worker queue, so an action   *)
(* is one task of that queue with the calls it makes.                      *)
(***************************************************************************)
EXTENDS Integers, Sequences, FiniteSets, SequencesExt

CONSTANTS
    Accounts,    \* the users of this device
    None,        \* nobody is signed in; also the author of an unused document
    Other,       \* another device
    Docs,        \* document names; addDocument never draws one twice
    Callers,     \* what can wait for the completion of a write
    NoCaller,    \* nothing waits
    MaxPending,  \* bound: writes waiting in a queue when the app writes
    MaxVersion,  \* bound: changes to a document when another device makes one
    MaxDrops     \* bound: times the streams are torn down

ASSUME StoreAssumption ==
    /\ None \notin Accounts /\ Other \notin Accounts /\ None # Other
    /\ NoCaller \notin Callers
    /\ MaxPending \in Nat /\ MaxVersion \in Nat /\ MaxDrops \in Nat

VARIABLES
    user,        \* SyncEngine.current_user_
    queue,       \* the mutation queue of each user
    cache,       \* the version of each document in the remote document cache
    online,      \* the streams are open
    results,     \* results on the write stream, for the front of queue[user]
    watch,       \* a snapshot on the watch stream
    server,      \* the backend: what each version of a document is
    author,      \* who created a document
    refused,     \* documents whose creation the backend refused
    mainQueue,   \* completions waiting for the main thread
    drops        \* times the streams were torn down

vars == <<user, queue, cache, online, results, watch, server, author, refused,
          mainQueue, drops>>

Users == Accounts \cup {None}

\* caller is the closure in mutation_callbacks_, for a batch that has one.
Mutation == [op : {"set", "delete"}, doc : Docs, caller : Callers \cup {NoCaller}]

Completion == [kind : {"written"}, caller : Callers, doc : Docs, ok : BOOLEAN]
Done(caller, d, ok) == [kind |-> "written", caller |-> caller, doc |-> d, ok |-> ok]

\* A result is the version that the commit produced, or Refused.
Refused == 0

\* No snapshot is under way.
Nothing == [d \in Docs |-> 0]

\* Version 0 is a document the backend has never heard of.
ExistsAt(d, v) == v > 0 /\ server[d][v] = "present"
Exists(d) == ExistsAt(d, Len(server[d]))

Touches(u, d) == {i \in 1 .. Len(queue[u]) : queue[u][i].doc = d}

IsLast(i, S) == i \in S /\ \A j \in S : j <= i

\* The local view: the cached document with the pending mutations on top.
VisibleTo(u, d) ==
    IF Touches(u, d) = {}
    THEN ExistsAt(d, cache[d])
    ELSE \E i \in Touches(u, d) : IsLast(i, Touches(u, d)) /\ queue[u][i].op = "set"

Visible(d) == VisibleTo(user, d)

Init ==
    /\ user \in Users
    /\ queue = [u \in Users |-> <<>>]
    /\ cache = [d \in Docs |-> 0]
    /\ online = FALSE
    /\ results = <<>>
    /\ watch = Nothing
    /\ server = [d \in Docs |-> <<>>]
    /\ author = [d \in Docs |-> None]
    /\ refused = {}
    /\ mainQueue = <<>>
    /\ drops = 0

-----------------------------------------------------------------------------
(* Writes by the app *)

WriteMutations(op, d, caller) ==
    /\ queue' = [queue EXCEPT ![user] =
                    Append(@, [op |-> op, doc |-> d, caller |-> caller])]

\* addDocument, by a user who is signed in.
AddDocument(d, caller) ==
    /\ user # None
    /\ author[d] = None
    /\ Len(queue[user]) < MaxPending
    /\ WriteMutations("set", d, caller)
    /\ author' = [author EXCEPT ![d] = user]
    /\ UNCHANGED <<user, cache, online, results, watch, server, refused, mainQueue, drops>>

\* document.reference.delete(), of a document the app has seen; nothing waits.
DeleteDocument(d) ==
    /\ author[d] # None
    /\ Len(queue[user]) < MaxPending
    /\ WriteMutations("delete", d, NoCaller)
    /\ UNCHANGED <<user, cache, online, results, watch, server, author, refused,
                   mainQueue, drops>>

RunCompletion ==
    /\ mainQueue # <<>>
    /\ mainQueue' = Tail(mainQueue)
    /\ UNCHANGED <<user, queue, cache, online, results, watch, server, author,
                   refused, drops>>

-----------------------------------------------------------------------------
(* The backend *)

\* What a write wants its document to be.
Wanted(m) == IF m.op = "set" THEN "present" ELSE "gone"

\* What committing a write makes of the history of its document: a set of what
\* is there, or a delete of what is gone, makes no new version.
Committed(m) ==
    IF server[m.doc] # <<>> /\ server[m.doc][Len(server[m.doc])] = Wanted(m)
    THEN server
    ELSE [server EXCEPT ![m.doc] = Append(@, Wanted(m))]

\* The next write of the pipeline; one that is sent again is committed again.
Commit ==
    /\ online
    /\ Len(results) < Len(queue[user])
    /\ Refused \notin Range(results)
    /\ LET m == queue[user][Len(results) + 1] IN
           /\ server' = Committed(m)
           /\ results' = Append(results, Len(server'[m.doc]))
    /\ UNCHANGED <<user, queue, cache, online, watch, author, refused, mainQueue, drops>>

\* A permanent error, which ends the write stream.
Refuse ==
    /\ online
    /\ Len(results) < Len(queue[user])
    /\ Refused \notin Range(results)
    /\ results' = Append(results, Refused)
    /\ UNCHANGED <<user, queue, cache, online, watch, server, author, refused,
                   mainQueue, drops>>

\* Another device creates a document, or deletes one.
OtherDevice(d) ==
    /\ Len(server[d]) < MaxVersion
    /\ \/ /\ author[d] = None
          /\ author' = [author EXCEPT ![d] = Other]
          /\ server' = [server EXCEPT ![d] = <<"present">>]
       \/ /\ Exists(d)
          /\ server' = [server EXCEPT ![d] = Append(@, "gone")]
          /\ UNCHANGED author
    /\ UNCHANGED <<user, queue, cache, online, results, watch, refused, mainQueue, drops>>

SendSnapshot ==
    /\ online
    /\ watch = Nothing
    /\ watch' = [d \in Docs |-> Len(server[d])]
    /\ UNCHANGED <<user, queue, cache, online, results, server, author, refused,
                   mainQueue, drops>>

-----------------------------------------------------------------------------
(* What the streams bring *)

\* Mutation: the error is not passed on.
NotifyUserAlwaysOk(ok) ==
    LET m == Head(queue[user]) IN
    mainQueue' = IF m.caller = NoCaller
                 THEN mainQueue
                 ELSE Append(mainQueue, Done(m.caller, m.doc, TRUE))

\* Mutation: a missing closure is called all the same.
NotifyUserUnchecked(ok) ==
    LET m == Head(queue[user]) IN
    mainQueue' = Append(mainQueue, Done(m.caller, m.doc, ok))

NotifyUser(ok) ==
    LET m == Head(queue[user]) IN
    mainQueue' = IF m.caller = NoCaller
                 THEN mainQueue
                 ELSE Append(mainQueue, Done(m.caller, m.doc, ok))

\* Mutation: the batch is kept until the watch stream brings its document.
RemoveBatchLater == UNCHANGED queue

\* Mutation: the newest batch is removed, not the one that was answered.
RemoveNewestBatch == queue' = [queue EXCEPT ![user] = Front(@)]

RemoveBatch == queue' = [queue EXCEPT ![user] = Tail(@)]

\* Mutation: the committed document is left to the watch stream.
ApplyBatchResultLater(d, version) == UNCHANGED cache

\* ApplyBatchResult: the cache takes the committed document unless it already
\* holds a later version.
ApplyBatchResult(d, version) ==
    cache' = IF cache[d] < version THEN [cache EXCEPT ![d] = version] ELSE cache

HandleSuccessfulWrite ==
    /\ results # <<>>
    /\ Head(results) # Refused
    /\ NotifyUser(TRUE)
    /\ ApplyBatchResult(Head(queue[user]).doc, Head(results))
    /\ RemoveBatch
    /\ results' = Tail(results)
    /\ UNCHANGED <<user, online, watch, server, author, refused, drops>>

\* Mutation: a permanent error is retried like a transient one.
RetryRejectedWrite ==
    /\ results # <<>>
    /\ Head(results) = Refused
    /\ results' = <<>>
    /\ UNCHANGED <<user, queue, cache, online, watch, server, author, refused,
                   mainQueue, drops>>

HandleRejectedWrite ==
    /\ results # <<>>
    /\ Head(results) = Refused
    /\ NotifyUser(FALSE)
    /\ RemoveBatch
    /\ refused' = IF Head(queue[user]).op = "set"
                  THEN refused \cup {Head(queue[user]).doc} ELSE refused
    /\ results' = <<>>
    /\ UNCHANGED <<user, cache, online, watch, server, author, drops>>

\* Mutation: the versions are not compared.
ApplyRemoteEventBlindly ==
    /\ watch # Nothing
    /\ cache' = [d \in Docs |-> IF watch[d] > 0 THEN watch[d] ELSE cache[d]]
    /\ watch' = Nothing
    /\ UNCHANGED <<user, queue, online, results, server, author, refused,
                   mainQueue, drops>>

ApplyRemoteEvent ==
    /\ watch # Nothing
    /\ cache' = [d \in Docs |-> IF watch[d] > cache[d] THEN watch[d] ELSE cache[d]]
    /\ watch' = Nothing
    /\ UNCHANGED <<user, queue, online, results, server, author, refused,
                   mainQueue, drops>>

-----------------------------------------------------------------------------
(* The streams come and go *)

Connect ==
    /\ ~online
    /\ online' = TRUE
    /\ UNCHANGED <<user, queue, cache, results, watch, server, author, refused,
                   mainQueue, drops>>

\* The pipeline and the state of the watch stream are thrown away.
DropStreams ==
    /\ drops < MaxDrops
    /\ drops' = drops + 1
    /\ online' = FALSE
    /\ results' = <<>>
    /\ watch' = Nothing

LoseConnection ==
    /\ online
    /\ DropStreams
    /\ UNCHANGED <<user, queue, cache, server, author, refused, mainQueue>>

\* The queue of the old user waits until he signs in again.
HandleCredentialChange(u) ==
    /\ u # user
    /\ user' = u
    /\ DropStreams
    /\ UNCHANGED <<queue, cache, server, author, refused, mainQueue>>

Forget(m) == [m EXCEPT !.caller = NoCaller]

\* Mutation: the queues are kept in memory only.
RestartEmpty ==
    /\ queue' = [u \in Users |-> <<>>]
    /\ mainQueue' = <<>>
    /\ DropStreams
    /\ UNCHANGED <<user, cache, server, author, refused>>

\* The process ends and starts again: the queues and the cache are on disk, the
\* closures are not.
Restart ==
    /\ queue' = [u \in Users |-> [i \in 1 .. Len(queue[u]) |-> Forget(queue[u][i])]]
    /\ mainQueue' = <<>>
    /\ DropStreams
    /\ UNCHANGED <<user, cache, server, author, refused>>

-----------------------------------------------------------------------------
WriteStream == Commit \/ Refuse \/ HandleSuccessfulWrite \/ HandleRejectedWrite

Next ==
    \/ \E d \in Docs, caller \in Callers : AddDocument(d, caller)
    \/ \E d \in Docs : DeleteDocument(d)
    \/ RunCompletion
    \/ Commit
    \/ Refuse
    \/ \E d \in Docs : OtherDevice(d)
    \/ SendSnapshot
    \/ HandleSuccessfulWrite
    \/ HandleRejectedWrite
    \/ ApplyRemoteEvent
    \/ Connect
    \/ LoseConnection
    \/ \E u \in Users : HandleCredentialChange(u)
    \/ Restart

Spec == Init /\ [][Next]_vars

\* The backend answers what it is sent and the worker queue handles what comes.
Fairness == WF_vars(WriteStream) /\ WF_vars(Connect)

FairSpec == Spec /\ Fairness

-----------------------------------------------------------------------------
(* Properties *)

StoreTypes ==
    /\ user \in Users
    /\ queue \in [Users -> Seq(Mutation)]
    /\ cache \in [Docs -> Nat]
    /\ online \in BOOLEAN
    /\ results \in Seq(Nat)
    /\ watch \in [Docs -> Nat]
    /\ server \in [Docs -> Seq({"present", "gone"})]
    /\ author \in [Docs -> Users \cup {Other}]
    /\ refused \subseteq Docs
    /\ drops \in 0 .. MaxDrops

\* Every variable keeps its type.
TypeOK == StoreTypes /\ mainQueue \in Seq(Completion)

SetPending(u, d) ==
    \E i \in 1 .. Len(queue[u]) : queue[u][i].op = "set" /\ queue[u][i].doc = d

\* A write is never lost, through lost results, changes of user and restarts: a
\* document the app added waits in its author's queue, or reached the backend,
\* or the backend refused it.
NothingLost ==
    \A d \in Docs :
        author[d] \in Accounts =>
            \/ SetPending(author[d], d)
            \/ server[d] # <<>>
            \/ d \in refused

\* A completion without an error is only ever given for a document that
\* reached the backend.
SuccessMeansStored ==
    \A k \in 1 .. Len(mainQueue) :
        mainQueue[k].kind = "written" /\ mainQueue[k].ok => server[mainQueue[k].doc] # <<>>

\* A write that is sent and committed several times is reported once: while its
\* completion waits for the main thread, no queue holds the write any more and
\* no other completion is for it.
ReportedOnce ==
    \A k \in 1 .. Len(mainQueue) :
        mainQueue[k].kind = "written" =>
            /\ \A u \in Users : ~SetPending(u, mainQueue[k].doc)
            /\ \A l \in 1 .. Len(mainQueue) :
                   mainQueue[l].kind = "written" /\ mainQueue[l].doc = mainQueue[k].doc => l = k

\* delete_mutation.cc:55, "Any document version that the server sends us before
\* the delete was applied is discarded": whichever of the two streams is ahead,
\* what the client knows of a document is never replaced by older knowledge.
NeverOlder == [][\A d \in Docs : cache'[d] >= cache[d]]_vars

\* An acknowledgement changes nothing the user sees, unless the watch stream
\* had already brought something later than the acknowledged write.
NoFlicker ==
    [][HandleSuccessfulWrite =>
           \A d \in Docs : Visible(d)' # Visible(d) => cache[d] > Head(results)]_vars

\* No document waits for ever behind other writes: with a user who stays signed
\* in and a connection that stays up, it leaves the queue, however the queue
\* was left by lost results, refusals and restarts.
WritesDrain ==
    \A u \in Accounts, d \in Docs :
        <>[](user = u /\ online) => <>[]~SetPending(u, d)

\* Through lost results, changes of user and restarts, each document lives the
\* life that DocumentLife describes: the queue, the two streams and the cache do
\* not show.  In particular a document is created only while its author's queue
\* holds it, and never again once the client has been told.
WaitingDocs == {d \in Docs : \E u \in Users : SetPending(u, d)}

StoredAs(d) ==
    IF server[d] = <<>> THEN "never" ELSE server[d][Len(server[d])]

Life == INSTANCE DocumentLife
    WITH waiting <- WaitingDocs, stored <- [d \in Docs |-> StoredAs(d)]

ImplementsDocumentLife == Life!LifeSpec

-----------------------------------------------------------------------------
(* The inductive invariant.                                                  *)

\* Each result is for its place in the queue, and names a version that holds
\* what the write wanted.
ResultsMatch ==
    /\ Len(results) <= Len(queue[user])
    /\ \A i \in 1 .. Len(results) :
           LET m == queue[user][i] IN
           results[i] # Refused =>
               /\ results[i] <= Len(server[m.doc])
               /\ server[m.doc][results[i]] = Wanted(m)

\* Nothing the client holds or is sent is ahead of the backend.
BehindServer ==
    \A d \in Docs : cache[d] <= Len(server[d]) /\ watch[d] <= Len(server[d])

Streams == ~online => results = <<>> /\ watch = Nothing

\* A document is created by one write, in the queue of its author.
OneSetEach ==
    \A u \in Users : \A i \in 1 .. Len(queue[u]) :
        queue[u][i].op = "set" =>
            /\ author[queue[u][i].doc] = u
            /\ \A j \in 1 .. Len(queue[u]) :
                   queue[u][j].op = "set" /\ queue[u][j].doc = queue[u][i].doc => j = i

\* A completion is for a document somebody added; only writes that create one
\* have a caller.
CallersOfSets ==
    /\ \A u \in Users : \A i \in 1 .. Len(queue[u]) :
           queue[u][i].op = "delete" => queue[u][i].caller = NoCaller
    /\ \A k \in 1 .. Len(mainQueue) :
           mainQueue[k].kind = "written" => author[mainQueue[k].doc] # None

\* A delete is of a document somebody added, and so is what the backend holds.
DocumentsHaveAuthors ==
    /\ \A u \in Users : \A i \in 1 .. Len(queue[u]) : author[queue[u][i].doc] # None
    /\ \A d \in Docs : server[d] # <<>> => author[d] # None

IInv ==
    /\ StoreTypes /\ mainQueue \in Seq(Completion)
    /\ ResultsMatch /\ BehindServer /\ Streams
    /\ OneSetEach /\ CallersOfSets /\ DocumentsHaveAuthors
    /\ NothingLost /\ SuccessMeansStored /\ ReportedOnce
=============================================================================
