----------------------------- MODULE LikeToggle -----------------------------
(***************************************************************************)
(* SelectedViewController's like button, on the Firestore client of        *)
(* CloudStore.  The upload button is the same code over "Photos", with     *)
(* "Delete Photo on Cloud" for "Liked" and "Upload Photo to Cloud" for     *)
(* "UnLiked".                                                              *)
(*                                                                         *)
(* The documents are those of one restaurant; every query asks for its id, *)
(* and for nothing else, so it finds those of other users too.  A title    *)
(* says what the app believes: it is set by the query that each screen     *)
(* starts with, at once when the user takes a like back, and only by the   *)
(* completion of the write when he likes.                                  *)
(*                                                                         *)
(* getDocuments listens until it is given a snapshot: one that the backend *)
(* brought up to date or, when the client is offline, its local view.      *)
(***************************************************************************)
EXTENDS CloudStore

CONSTANTS
    MaxQueries,    \* bound: getDocuments calls under way
    MaxRoughDrops, \* bound: times the streams are torn down in the rough setting
    Settings       \* the settings to look at

(* In the calm setting the user waits for whatever a touch has started, alone  *)
(* on a backend that accepts every write; connections come and go.  In the     *)
(* rough one he touches at any time, the backend refuses writes and fails      *)
(* queries, another device writes, and the session may be revoked.             *)

\* addDocument draws the name of a document from 20 letters (autoid.cc:29-42).
ASSUME ToggleAssumption ==
    /\ IsFiniteSet(Docs)
    /\ MaxQueries \in Nat /\ MaxRoughDrops \in Nat
    /\ Settings \subseteq {"calm", "rough"}

VARIABLES
    screen,    \* the SelectedViewController on screen, if any
    title,     \* isLikedButton.title of each SelectedViewController
    queries,   \* the getDocuments calls under way
    setting    \* what user and environment do, once and for all

viewVars == <<screen, title, queries>>
allVars == <<user, queue, cache, online, results, watch, server, author, refused,
             mainQueue, drops, screen, title, queries, setting>>

Views == Callers
NoView == NoCaller
QueryIds == 1 .. MaxQueries

\* served: the backend's snapshot for the query is on the watch stream.
Query == [kind : {"isLiked", "unlike"}, view : Views, served : BOOLEAN, sent : [Docs -> Nat]]
NoQuery == [kind |-> "none", view |-> NoView, served |-> FALSE, sent |-> Nothing]

\* A snapshot, or an error, on its way to the closure of a query.
Answer(q, found, ok) ==
    [kind |-> queries[q].kind, caller |-> queries[q].view, found |-> found, ok |-> ok]

ToggleInit ==
    /\ Init
    /\ screen = NoView
    /\ title = [v \in Views |-> "Item"]
    /\ queries = [q \in QueryIds |-> NoQuery]
    /\ setting \in Settings

\* Nothing that a closure of this screen waits for is under way.
Quiet(v) ==
    /\ \A q \in QueryIds : queries[q].view # v
    /\ \A k \in 1 .. Len(mainQueue) : mainQueue[k].caller # v
    /\ \A u \in Users : \A i \in 1 .. Len(queue[u]) : queue[u][i].caller # v

MayTouch == setting = "calm" => \A v \in Views : Quiet(v)

-----------------------------------------------------------------------------
(* Touches *)

GetDocuments(kind, v) ==
    \E q \in QueryIds :
        /\ queries[q] = NoQuery
        /\ queries' = [queries EXCEPT ![q] =
                           [kind |-> kind, view |-> v, served |-> FALSE, sent |-> Nothing]]

\* viewDidLoad of a new screen.
Open ==
    /\ screen = NoView
    /\ user # None
    /\ MayTouch
    /\ \E v \in Views :
           /\ Quiet(v)
           /\ screen' = v
           /\ title' = [title EXCEPT ![v] = "Item"]
           /\ GetDocuments("isLiked", v)
    /\ UNCHANGED vars

Back ==
    /\ screen # NoView
    /\ screen' = NoView
    /\ UNCHANGED <<title, queries>>
    /\ UNCHANGED vars

UnlikeTap ==
    /\ screen # NoView
    /\ MayTouch
    /\ title[screen] = "Liked"
    /\ GetDocuments("unlike", screen)
    /\ title' = [title EXCEPT ![screen] = "UnLiked"]
    /\ UNCHANGED screen
    /\ UNCHANGED vars

LikeTap(d) ==
    /\ screen # NoView
    /\ MayTouch
    /\ title[screen] # "Liked"
    /\ AddDocument(d, screen)
    /\ UNCHANGED viewVars

-----------------------------------------------------------------------------
(* Closures, on the main thread *)

\* Mutation: the title of the upload button, which is the same code.
RunIsLikedCopied ==
    /\ mainQueue # <<>>
    /\ LET answer == Head(mainQueue) IN
           /\ answer.kind = "isLiked"
           /\ title' = IF ~answer.ok THEN title
                       ELSE [title EXCEPT ![answer.caller] =
                                IF answer.found = {} THEN "UnLiked"
                                                     ELSE "Delete Photo on Cloud"]
    /\ mainQueue' = Tail(mainQueue)
    /\ UNCHANGED <<user, queue, cache, online, results, watch, server, author,
                   refused, drops, screen, queries>>

RunIsLiked ==
    /\ mainQueue # <<>>
    /\ LET answer == Head(mainQueue) IN
           /\ answer.kind = "isLiked"
           /\ title' = IF ~answer.ok THEN title
                       ELSE [title EXCEPT ![answer.caller] =
                                IF answer.found = {} THEN "UnLiked" ELSE "Liked"]
    /\ mainQueue' = Tail(mainQueue)
    /\ UNCHANGED <<user, queue, cache, online, results, watch, server, author,
                   refused, drops, screen, queries>>

Deletes(D) ==
    [i \in 1 .. Cardinality(D) |->
        [op |-> "delete", doc |-> SetToSeq(D)[i], caller |-> NoCaller]]

\* One delete for each document of the snapshot.
RunUnlike ==
    /\ mainQueue # <<>>
    /\ LET answer == Head(mainQueue) IN
           /\ answer.kind = "unlike"
           /\ queue' = IF ~answer.ok THEN queue
                       ELSE [queue EXCEPT ![user] = @ \o Deletes(answer.found)]
    /\ mainQueue' = Tail(mainQueue)
    /\ UNCHANGED <<user, cache, online, results, watch, server, author, refused,
                   drops, screen, title, queries>>

RunWritten ==
    /\ mainQueue # <<>>
    /\ Head(mainQueue).kind = "written"
    /\ title' = IF Head(mainQueue).ok
                THEN [title EXCEPT ![Head(mainQueue).caller] = "Liked"]
                ELSE title
    /\ RunCompletion
    /\ UNCHANGED <<screen, queries>>

MainThread == RunIsLiked \/ RunUnlike \/ RunWritten

-----------------------------------------------------------------------------
(* getDocuments *)

\* What the backend tells of: everything, or with limit(to: 1) one of the
\* documents that exist and what no longer does.
Told(kind) ==
    LET existing == {d \in Docs : Exists(d)} IN
    IF kind = "unlike" \/ existing = {}
    THEN {Docs}
    ELSE {(Docs \ existing) \cup {d} : d \in existing}

ServeQuery(q) ==
    /\ online
    /\ queries[q] # NoQuery
    /\ ~queries[q].served
    /\ \E D \in Told(queries[q].kind) :
           queries' = [queries EXCEPT ![q].served = TRUE,
                          ![q].sent = [d \in Docs |-> IF d \in D THEN Len(server[d]) ELSE 0]]
    /\ UNCHANGED <<screen, title>>
    /\ UNCHANGED vars

\* Mutation: pending writes are not laid over the cache.
FoundInCache(cached) == {d \in Docs : ExistsAt(d, cached[d])}

\* The documents of the local view, once the cache is as given.
FoundWith(cached) ==
    {d \in Docs :
        IF Touches(user, d) = {} THEN ExistsAt(d, cached[d]) ELSE Visible(d)}

Deliver(q, found, ok) ==
    /\ mainQueue' = Append(mainQueue, Answer(q, found, ok))
    /\ queries' = [queries EXCEPT ![q] = NoQuery]

\* The snapshot arrives, is applied to the cache, and the view is in sync.
AnswerQuery(q) ==
    /\ queries[q].served
    /\ LET sent == queries[q].sent IN
           cache' = [d \in Docs |-> IF sent[d] > cache[d] THEN sent[d] ELSE cache[d]]
    /\ Deliver(q, FoundWith(cache'), TRUE)
    /\ UNCHANGED <<user, queue, online, results, watch, server, author, refused,
                   drops, screen, title>>

\* Mutation: only the backend can answer.
AnswerFromCacheNever(q) == FALSE /\ UNCHANGED allVars

\* The client has given up on the connection: the local view has to do.
AnswerFromCache(q) ==
    /\ ~online
    /\ queries[q] # NoQuery
    /\ Deliver(q, FoundWith(cache), TRUE)
    /\ UNCHANGED <<user, queue, cache, online, results, watch, server, author,
                   refused, drops, screen, title>>

FailQuery(q) ==
    /\ online
    /\ setting = "rough"
    /\ queries[q] # NoQuery
    /\ Deliver(q, {}, FALSE)
    /\ UNCHANGED <<user, queue, cache, online, results, watch, server, author,
                   refused, drops, screen, title>>

-----------------------------------------------------------------------------
(* The client and its user *)

\* Snapshots on their way are lost; the queries are asked again.
AskAgain ==
    queries' = [q \in QueryIds |-> [queries[q] EXCEPT !.served = FALSE, !.sent = Nothing]]

MayTearDown == setting = "rough" => drops < MaxRoughDrops

ToggleLoseConnection ==
    /\ MayTearDown
    /\ LoseConnection
    /\ AskAgain
    /\ UNCHANGED <<screen, title>>

\* Nobody logs in or out with this screen open, but the session may be revoked.
ToggleCredentialChange(u) ==
    /\ \/ screen = NoView /\ MayTouch
       \/ u = None /\ setting = "rough"
    /\ MayTearDown
    /\ HandleCredentialChange(u)
    /\ AskAgain
    /\ UNCHANGED <<screen, title>>

ToggleRestart ==
    /\ MayTearDown
    /\ Restart
    /\ screen' = NoView
    /\ title' = [v \in Views |-> "Item"]
    /\ queries' = [q \in QueryIds |-> NoQuery]

ToggleNext ==
    \/ Open
    \/ Back
    \/ UnlikeTap
    \/ \E d \in Docs : LikeTap(d)
    \/ RunIsLiked
    \/ RunUnlike
    \/ RunWritten
    \/ \E q \in QueryIds : ServeQuery(q)
    \/ \E q \in QueryIds : AnswerQuery(q)
    \/ \E q \in QueryIds : AnswerFromCache(q)
    \/ \E q \in QueryIds : FailQuery(q)
    \/ Commit /\ UNCHANGED viewVars
    \/ setting = "rough" /\ Refuse /\ UNCHANGED viewVars
    \/ \E d \in Docs : setting = "rough" /\ OtherDevice(d) /\ UNCHANGED viewVars
    \/ HandleSuccessfulWrite /\ UNCHANGED viewVars
    \/ HandleRejectedWrite /\ UNCHANGED viewVars
    \/ SendSnapshot /\ UNCHANGED viewVars
    \/ ApplyRemoteEvent /\ UNCHANGED viewVars
    \/ Connect /\ UNCHANGED viewVars
    \/ ToggleLoseConnection
    \/ \E u \in Users : ToggleCredentialChange(u)
    \/ ToggleRestart

ToggleSpec == ToggleInit /\ [][ToggleNext /\ UNCHANGED setting]_allVars

\* The closures run, and a query is answered: by the backend while the client is
\* online, and from the cache when it is not.  The connection need never come.
ToggleFairness ==
    /\ WF_allVars(MainThread /\ UNCHANGED setting)
    /\ \A q \in QueryIds :
           WF_allVars((ServeQuery(q) \/ AnswerQuery(q) \/ AnswerFromCache(q)) /\ UNCHANGED setting)

FairToggleSpec == ToggleSpec /\ ToggleFairness

-----------------------------------------------------------------------------
(* Properties *)

QueryAnswer ==
    [kind : {"isLiked", "unlike"}, caller : Views, found : SUBSET Docs, ok : BOOLEAN]

\* Every variable keeps its type; the closures of getDocuments wait in the same
\* queue as those of writes.
ToggleTypeOK ==
    /\ StoreTypes
    /\ mainQueue \in Seq(Completion \cup QueryAnswer)
    /\ screen \in Views \cup {NoView}
    /\ title \in [Views -> {"Item", "Liked", "UnLiked"}]
    /\ queries \in [QueryIds -> Query \cup {NoQuery}]
    /\ setting \in Settings

Liked == \E d \in Docs : Visible(d)

\* A user who waits for each touch to finish, alone on a backend that accepts
\* his writes, is told the truth: whatever the connection did, however often
\* the app restarted or the user changed with writes still waiting, the title
\* is "Liked" if and only if a like of the restaurant is in the database.
TitleAgrees ==
    setting = "calm" /\ screen # NoView /\ (\A v \in Views : Quiet(v)) =>
        title[screen] = IF Liked THEN "Liked" ELSE "UnLiked"

\* A screen is told in the end whether its restaurant is liked, even on a device
\* that is never online.
TitleArrives ==
    \A v \in Views :
        setting = "calm" /\ screen = v /\ title[v] = "Item" ~> title[v] # "Item" \/ screen # v

\* SelectedViewController.swift:102 and 115, "it's already added to database."
\* and "it's not exist in database.": what a touch prints is so.  (Violated: a
\* second touch before the write completes adds the restaurant again.)
TouchPrintsTruth ==
    [][/\ UnlikeTap => Liked
       /\ (\E d \in Docs : LikeTap(d)) => ~Liked]_allVars

-----------------------------------------------------------------------------
(* The inductive invariant.                                                  *)

\* A query is told of nothing that is not there, and finds no document that
\* nobody added.
AnswersHaveAuthors ==
    /\ \A q \in QueryIds, d \in Docs : queries[q].sent[d] <= Len(server[d])
    /\ \A k \in 1 .. Len(mainQueue) :
           mainQueue[k].kind # "written" => \A d \in mainQueue[k].found : author[d] # None

ToggleIInv ==
    /\ ToggleTypeOK
    /\ ResultsMatch /\ BehindServer /\ Streams
    /\ OneSetEach /\ CallersOfSets /\ DocumentsHaveAuthors
    /\ NothingLost /\ SuccessMeansStored /\ ReportedOnce
    /\ AnswersHaveAuthors

(* The rest is about the calm setting of a device with one account.          *)

OneAccount == \A a, b \in Accounts : a = b

Calls(u) == {i \in 1 .. Len(queue[u]) : queue[u][i].caller # NoCaller}

\* One query is under way, or one closure waits, or one write with a closure.
OneAtATime ==
    /\ \A p, q \in QueryIds : queries[p] # NoQuery /\ queries[q] # NoQuery => p = q
    /\ Len(mainQueue) <= 1
    /\ mainQueue # <<>> => \A q \in QueryIds : queries[q] = NoQuery
    /\ \A u \in Users : \A i \in Calls(u) :
           /\ mainQueue = <<>>
           /\ \A q \in QueryIds : queries[q] = NoQuery
           /\ \A w \in Users : \A j \in Calls(w) : w = u /\ j = i

\* Nobody signed in has nothing to write and waits for nothing.
NobodyWaits ==
    /\ queue[None] = <<>>
    /\ user = None => \A v \in Views : Quiet(v)

\* What the client has heard of is the newest there is: the last result for a
\* document, and the cache of a document that no write is pending for.
NewsIsNew ==
    /\ \A i \in 1 .. Len(results) :
           /\ results[i] # Refused
           /\ \/ \E j \in i + 1 .. Len(results) : queue[user][j].doc = queue[user][i].doc
              \/ results[i] = Len(server[queue[user][i].doc])
    /\ \A u \in Accounts, d \in Docs : Touches(u, d) = {} => cache[d] = Len(server[d])

\* What the screen is about to be told is so, and will still be so.
TidingsAreTrue ==
    screen # NoView =>
        /\ user # None
        /\ \A v \in Views : v # screen => Quiet(v)
        /\ \A q \in QueryIds : queries[q].kind = "unlike" => title[screen] = "UnLiked"
        /\ \A u \in Users : Calls(u) # {} => Liked
        /\ \A k \in 1 .. Len(mainQueue) :
               /\ mainQueue[k].kind = "isLiked" => (mainQueue[k].found # {} <=> Liked)
               /\ mainQueue[k].kind = "unlike" =>
                      title[screen] = "UnLiked" /\ mainQueue[k].found = {d \in Docs : Visible(d)}
               /\ mainQueue[k].kind = "written" => Liked

CalmIInv ==
    setting = "calm" =>
        /\ OneAtATime /\ NobodyWaits /\ NewsIsNew /\ TidingsAreTrue /\ TitleAgrees
        /\ \A k \in 1 .. Len(mainQueue) : mainQueue[k].ok
=============================================================================
