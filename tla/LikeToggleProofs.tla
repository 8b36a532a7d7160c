--------------------------- MODULE LikeToggleProofs ---------------------------
(* Proofs of the safety properties of LikeToggle: of what it takes over from  *)
(* CloudStore in any setting, and that the title is true in the calm one.     *)
EXTENDS LikeToggle, CloudStoreProofs

Waiting == Completion \cup QueryAnswer

LEMMA WaitingKinds ==
    /\ Closures(Waiting)
    /\ \A c \in Waiting :
          \/ c \in Completion /\ c.kind = "written"
          \/ c \in QueryAnswer /\ c.kind \in {"isLiked", "unlike"} /\ c.kind # "written"
BY DEF Waiting, Closures, Completion, QueryAnswer

(* Every step is one of the client, or runs a closure of getDocuments, or     *)
(* answers one.                                                               *)
Answers(q) == AnswerQuery(q) \/ AnswerFromCache(q) \/ FailQuery(q)

LEMMA ToggleSteps ==
    ASSUME screen \in Views \cup {NoView}, [ToggleNext /\ UNCHANGED setting]_allVars
    PROVE  [Next]_vars \/ RunIsLiked \/ RunUnlike \/ \E q \in QueryIds : Answers(q)
<1>1. ASSUME Open \/ Back \/ UnlikeTap \/ (\E q \in QueryIds : ServeQuery(q)) \/ UNCHANGED allVars
      PROVE  UNCHANGED vars
    BY <1>1 DEF Open, Back, UnlikeTap, ServeQuery, allVars, vars
<1>2. ASSUME \E d \in Docs : LikeTap(d) PROVE Next
    <2>1. PICK d \in Docs : screen # NoView /\ AddDocument(d, screen)
        BY <1>2 DEF LikeTap
    <2>2. screen \in Callers
        BY <2>1 DEF Views
    <2> QED BY <2>1, <2>2 DEF Next
<1>3. ASSUME \/ Commit \/ Refuse \/ (\E d \in Docs : OtherDevice(d)) \/ HandleSuccessfulWrite
             \/ HandleRejectedWrite \/ SendSnapshot \/ ApplyRemoteEvent \/ Connect
             \/ RunWritten \/ ToggleLoseConnection \/ ToggleRestart
             \/ \E u \in Users : ToggleCredentialChange(u)
      PROVE  Next
    BY <1>3 DEF Next, RunWritten, ToggleLoseConnection, ToggleRestart, ToggleCredentialChange
<1> QED BY <1>1, <1>2, <1>3 DEF ToggleNext, Answers

-----------------------------------------------------------------------------
(* Closures                                                                   *)

(* The writes of an unlike: a delete of each document that was found.         *)
LEMMA DeletesFacts ==
    ASSUME NEW D, D \subseteq Docs
    PROVE  /\ Deletes(D) \in Seq(Mutation)
           /\ \A i \in 1 .. Len(Deletes(D)) :
                 /\ Deletes(D)[i].op = "delete" /\ Deletes(D)[i].doc \in D
                 /\ Deletes(D)[i].caller = NoCaller
           /\ \A d \in D : \E i \in 1 .. Len(Deletes(D)) : Deletes(D)[i].doc = d
<1> DEFINE n == Cardinality(D)
           s == SetToSeq(D)
<1>1. IsFiniteSet(D)
    BY ToggleAssumption, FS_Subset
<1>2. /\ n \in Nat /\ s \in Seq(D) /\ Len(s) = n
      /\ \A d \in D : \E i \in 1 .. n : s[i] = d
    BY <1>1, ListOfSet
<1>3. \A i \in 1 .. n : s[i] \in D
    BY <1>2, ElementOfSeq
<1>4. Deletes(D) = [i \in 1 .. n |-> [op |-> "delete", doc |-> s[i], caller |-> NoCaller]]
    BY DEF Deletes
<1> HIDE DEF n, s
<1>5. \A i \in 1 .. n : [op |-> "delete", doc |-> s[i], caller |-> NoCaller] \in Mutation
    BY <1>3 DEF Mutation
<1>6. Deletes(D) \in Seq(Mutation) /\ Len(Deletes(D)) = n
    BY <1>2, <1>4, <1>5
<1> QED BY <1>2, <1>3, <1>4, <1>6

(* What the closure of an unlike does to the queues.                          *)
Grown(found) ==
    /\ queue' \in [Users -> Seq(Mutation)]
    /\ \A u \in Users :
          /\ Len(queue[u]) \in Nat /\ Len(queue'[u]) \in Nat /\ Len(queue'[u]) >= Len(queue[u])
          /\ \A i \in 1 .. Len(queue[u]) : queue'[u][i] = queue[u][i]
          /\ \A i \in 1 .. Len(queue'[u]) :
                \/ i \in 1 .. Len(queue[u])
                \/ /\ u = user /\ i > Len(queue[u]) /\ queue'[u][i].op = "delete"
                   /\ queue'[u][i].doc \in found /\ queue'[u][i].caller = NoCaller
    /\ \A d \in found : \E i \in 1 .. Len(queue'[user]) :
          i > Len(queue[user]) /\ queue'[user][i].doc = d

LEMMA UnlikeFacts ==
    ASSUME StoreTypes, NEW found, found \subseteq Docs,
           queue' = [queue EXCEPT ![user] = @ \o Deletes(found)]
    PROVE  Grown(found)
<1>1. user \in Users /\ queue \in [Users -> Seq(Mutation)] /\ queue[user] \in Seq(Mutation)
    BY DEF StoreTypes
<1> DEFINE q == queue[user]
           D == Deletes(found)
<1>2. /\ D \in Seq(Mutation)
      /\ \A i \in 1 .. Len(D) :
            D[i].op = "delete" /\ D[i].doc \in found /\ D[i].caller = NoCaller
      /\ \A d \in found : \E i \in 1 .. Len(D) : D[i].doc = d
    BY DeletesFacts
<1>3. queue' = [queue EXCEPT ![user] = q \o D]
    OBVIOUS
<1>4. q \in Seq(Mutation)
    BY <1>1
<1> HIDE DEF q, D
<1>5. /\ q \o D \in Seq(Mutation)
      /\ Len(q) \in Nat /\ Len(D) \in Nat /\ Len(q \o D) = Len(q) + Len(D)
      /\ \A i \in 1 .. Len(q) : i \in 1 .. Len(q \o D) /\ (q \o D)[i] = q[i]
      /\ \A i \in 1 .. Len(D) : Len(q) + i \in 1 .. Len(q \o D) /\ (q \o D)[Len(q) + i] = D[i]
      /\ \A i \in 1 .. Len(q \o D) :
            \/ i \in 1 .. Len(q) /\ (q \o D)[i] = q[i]
            \/ i - Len(q) \in 1 .. Len(D) /\ (q \o D)[i] = D[i - Len(q)]
    BY <1>2, <1>4, JoinFacts
<1>6. /\ queue' \in [Users -> Seq(Mutation)] /\ queue'[user] = q \o D
      /\ \A u \in Users : u # user => queue'[u] = queue[u]
    BY <1>1, <1>3, <1>5
<1>7. ASSUME NEW u \in Users
      PROVE  /\ Len(queue[u]) \in Nat /\ Len(queue'[u]) \in Nat /\ Len(queue'[u]) >= Len(queue[u])
             /\ \A i \in 1 .. Len(queue[u]) : queue'[u][i] = queue[u][i]
             /\ \A i \in 1 .. Len(queue'[u]) :
                   \/ i \in 1 .. Len(queue[u])
                   \/ /\ u = user /\ i > Len(queue[u]) /\ queue'[u][i].op = "delete"
                      /\ queue'[u][i].doc \in found /\ queue'[u][i].caller = NoCaller
    <2>1. CASE u # user
        BY <1>6, <2>1, QueueTypes
    <2>2. CASE u = user
        <3>1. queue[u] = q /\ queue'[u] = q \o D
            BY <1>6, <2>2 DEF q
        <3>2. ASSUME NEW i \in 1 .. Len(q \o D), i \notin 1 .. Len(q)
              PROVE  /\ i > Len(q) /\ (q \o D)[i].op = "delete"
                     /\ (q \o D)[i].doc \in found /\ (q \o D)[i].caller = NoCaller
            <4>1. i - Len(q) \in 1 .. Len(D) /\ (q \o D)[i] = D[i - Len(q)]
                BY <1>5, <3>2
            <4> QED BY <1>2, <1>5, <4>1
        <3> QED BY <1>5, <2>2, <3>1, <3>2
    <2> QED BY <2>1, <2>2
<1>8. ASSUME NEW d \in found
      PROVE  \E i \in 1 .. Len(queue'[user]) : i > Len(queue[user]) /\ queue'[user][i].doc = d
    <2>1. PICK i \in 1 .. Len(D) : D[i].doc = d
        BY <1>2
    <2>2. Len(q) + i \in 1 .. Len(q \o D) /\ (q \o D)[Len(q) + i] = D[i] /\ Len(q) + i > Len(q)
        BY <1>5
    <2> QED BY <1>6, <2>1, <2>2 DEF q
<1> QED BY <1>6, <1>7, <1>8 DEF Grown

(* The closure of an unlike, as its parts.                                    *)
LEMMA UnlikeRuns ==
    ASSUME ToggleTypeOK, RunUnlike
    PROVE  /\ mainQueue # <<>> /\ mainQueue' = Tail(mainQueue)
           /\ mainQueue[1] \in QueryAnswer /\ mainQueue[1].kind = "unlike"
           /\ mainQueue[1].found \subseteq Docs /\ 1 \in 1 .. Len(mainQueue)
           /\ Grown(IF mainQueue[1].ok THEN mainQueue[1].found ELSE {})
           /\ UNCHANGED <<user, cache, online, results, watch, server, author, refused, drops,
                          screen, title, queries>>
<1>1. /\ mainQueue # <<>> /\ mainQueue' = Tail(mainQueue)
      /\ Head(mainQueue).kind = "unlike"
      /\ queue' = IF ~Head(mainQueue).ok THEN queue
                  ELSE [queue EXCEPT ![user] = @ \o Deletes(Head(mainQueue).found)]
      /\ UNCHANGED <<user, cache, online, results, watch, server, author, refused, drops,
                     screen, title, queries>>
    BY DEF RunUnlike
<1>2. /\ Head(mainQueue) = mainQueue[1] /\ mainQueue[1] \in Waiting
      /\ 1 \in 1 .. Len(mainQueue)
    BY <1>1, TailFacts DEF ToggleTypeOK, Waiting
<1>3. mainQueue[1] \in QueryAnswer /\ mainQueue[1].found \subseteq Docs
    BY <1>1, <1>2, WaitingKinds DEF QueryAnswer
<1>4. StoreTypes
    BY DEF ToggleTypeOK
<1>5. CASE mainQueue[1].ok
    BY <1>1, <1>2, <1>3, <1>4, <1>5, UnlikeFacts
<1>6. CASE ~mainQueue[1].ok
    <2>1. queue' = queue /\ queue \in [Users -> Seq(Mutation)]
        BY <1>1, <1>2, <1>4, <1>6 DEF StoreTypes
    <2>2. \A u \in Users : Len(queue[u]) \in Nat
        BY <1>4, QueueTypes
    <2>3. Grown({})
        BY <2>1, <2>2 DEF Grown
    <2> QED BY <1>1, <1>2, <1>3, <1>6, <2>3
<1> QED BY <1>1, <1>2, <1>3, <1>5, <1>6

-----------------------------------------------------------------------------
(* What is proved of CloudStore holds beside the queries                      *)

StorePart ==
    /\ StoreTypes /\ mainQueue \in Seq(Waiting)
    /\ ResultsMatch /\ BehindServer /\ Streams
    /\ OneSetEach /\ DocumentsHaveAuthors /\ NothingLost /\ Reports

LEMMA StorePartHolds == ToggleIInv => StorePart
BY DEF ToggleIInv, ToggleTypeOK, StorePart, Reports, Waiting

(* ... after a step of the client,                                            *)
LEMMA StoreStep ==
    ASSUME StorePart, [Next]_vars
    PROVE  /\ StorePart'
           /\ \A d \in Docs : author[d] # None => author'[d] # None
           /\ \A d \in Docs : Len(server'[d]) >= Len(server[d])
<1>1. /\ StoreTypes /\ mainQueue \in Seq(Waiting) /\ ResultsMatch /\ BehindServer /\ Streams
      /\ OneSetEach /\ DocumentsHaveAuthors /\ NothingLost /\ Reports
    BY DEF StorePart
<1>2. Closures(Waiting) /\ Completion \subseteq Waiting
    BY WaitingKinds DEF Closures
<1>3. StoreTypes' /\ ResultsMatch'
    BY <1>1, TypeStep, ResultsStep
<1>4. mainQueue' \in Seq(Waiting)
    BY <1>1, <1>2, ClosuresStep
<1>5. BehindServer' /\ Streams' /\ OneSetEach' /\ DocumentsHaveAuthors'
    BY <1>1, StreamsStep, DocumentsStep
<1>6. NothingLost'
    BY <1>1, NothingLostStep
<1>7. Reports'
    BY <1>1, <1>2, ReportsStep
<1>8. \A d \in Docs : author[d] # None => author'[d] # None
    BY <1>1, AuthorsStep
<1>9. \A d \in Docs : Len(server'[d]) >= Len(server[d])
    BY <1>1, GrowsStep DEF Grows
<1> QED BY <1>3, <1>4, <1>5, <1>6, <1>7, <1>8, <1>9 DEF StorePart

(* which brings no closure but completions,                                   *)
LEMMA StoreStepWaiting ==
    ASSUME StorePart, [Next]_vars, NEW k \in 1 .. Len(mainQueue'), mainQueue'[k].kind # "written"
    PROVE  \E j \in 1 .. Len(mainQueue) : mainQueue'[k] = mainQueue[j]
<1>1. /\ StoreTypes /\ mainQueue \in Seq(Waiting) /\ ResultsMatch
      /\ Completion \subseteq Waiting /\ Len(mainQueue) \in Nat
    BY WaitingKinds, LenProperties DEF StorePart, Closures
<1>2. ASSUME results # <<>>, NEW ok \in BOOLEAN, NotifyUser(ok)
      PROVE  \E j \in 1 .. Len(mainQueue) : mainQueue'[k] = mainQueue[j]
    <2>1. queue[user] # <<>>
        BY <1>1, <1>2, AnswerFacts
    <2>2. \/ mainQueue' = mainQueue
          \/ /\ Len(mainQueue') = Len(mainQueue) + 1
             /\ \A j \in 1 .. Len(mainQueue) : mainQueue'[j] = mainQueue[j]
             /\ mainQueue'[Len(mainQueue) + 1] =
                    Done(queue[user][1].caller, queue[user][1].doc, ok)
        BY <1>1, <1>2, <2>1, NotifyFacts
    <2>3. Done(queue[user][1].caller, queue[user][1].doc, ok).kind = "written"
        BY DEF Done
    <2> QED BY <1>1, <2>2, <2>3
<1>3. CASE HandleSuccessfulWrite \/ HandleRejectedWrite
    BY <1>2, <1>3 DEF HandleSuccessfulWrite, HandleRejectedWrite
<1>4. CASE RunCompletion
    <2>1. mainQueue # <<>> /\ mainQueue' = Tail(mainQueue)
        BY <1>4 DEF RunCompletion
    <2> QED BY <1>1, <2>1, TailFacts
<1>5. CASE Restart
    <2>1. mainQueue' = <<>>
        BY <1>5 DEF Restart
    <2> QED BY <2>1
<1>6. CASE UNCHANGED mainQueue
    BY <1>6
<1> QED BY <1>3, <1>4, <1>5, <1>6 DEF Next, vars, AddDocument, DeleteDocument, Commit, Refuse,
          OtherDevice, SendSnapshot, ApplyRemoteEvent, Connect, LoseConnection,
          HandleCredentialChange

(* after a query is answered or its closure has run,                          *)
LEMMA ClosureStep ==
    ASSUME StorePart,
           UNCHANGED <<user, queue, online, results, watch, server, author, refused, drops>>,
           cache' \in [Docs -> Nat], \A d \in Docs : cache'[d] <= Len(server[d]),
           \/ mainQueue # <<>> /\ mainQueue' = Tail(mainQueue)
           \/ \E a \in QueryAnswer : mainQueue' = Append(mainQueue, a)
    PROVE  /\ StorePart'
           /\ \A k \in 1 .. Len(mainQueue') :
                 \/ \E j \in 1 .. Len(mainQueue) : mainQueue'[k] = mainQueue[j]
                 \/ \E a \in QueryAnswer :
                       mainQueue' = Append(mainQueue, a) /\ mainQueue'[k] = a
<1>1. mainQueue \in Seq(Waiting) /\ Len(mainQueue) \in Nat
    BY LenProperties DEF StorePart
<1>2. ASSUME NEW a \in QueryAnswer, mainQueue' = Append(mainQueue, a)
      PROVE  /\ mainQueue' \in Seq(Waiting) /\ a.kind # "written"
             /\ Len(mainQueue') = Len(mainQueue) + 1
             /\ \A k \in 1 .. Len(mainQueue) : mainQueue'[k] = mainQueue[k]
             /\ mainQueue'[Len(mainQueue) + 1] = a
    <2>1. a \in Waiting /\ a.kind # "written"
        BY DEF Waiting, QueryAnswer
    <2> QED BY <1>1, <1>2, <2>1, AppendProperties
<1>3. PICK k0 \in {0, 1} :
          /\ mainQueue' \in Seq(Waiting) /\ Len(mainQueue') \in Nat
          /\ \A k \in 1 .. Len(mainQueue') :
                \/ k + k0 \in 1 .. Len(mainQueue) /\ mainQueue'[k] = mainQueue[k + k0]
                \/ \E a \in QueryAnswer : mainQueue' = Append(mainQueue, a) /\ mainQueue'[k] = a
    <2>1. CASE mainQueue # <<>> /\ mainQueue' = Tail(mainQueue)
        BY <1>1, <2>1, TailFacts
    <2>2. CASE \E a \in QueryAnswer : mainQueue' = Append(mainQueue, a)
        <3>1. PICK a \in QueryAnswer : mainQueue' = Append(mainQueue, a)
            BY <2>2
        <3>2. /\ mainQueue' \in Seq(Waiting) /\ Len(mainQueue') = Len(mainQueue) + 1
              /\ \A k \in 1 .. Len(mainQueue) : mainQueue'[k] = mainQueue[k]
              /\ mainQueue'[Len(mainQueue) + 1] = a
            BY <1>2, <3>1
        <3>3. \A k \in 1 .. Len(mainQueue') :
                  \/ k + 0 \in 1 .. Len(mainQueue) /\ mainQueue'[k] = mainQueue[k + 0]
                  \/ mainQueue'[k] = a
            BY <1>1, <3>2
        <3> QED BY <1>1, <3>1, <3>2, <3>3
    <2> QED BY <2>1, <2>2
<1>4. \A k \in 1 .. Len(mainQueue') :
          \/ mainQueue'[k].kind # "written"
          \/ k + k0 \in 1 .. Len(mainQueue) /\ mainQueue'[k] = mainQueue[k + k0]
    BY <1>2, <1>3
<1>5. /\ \A u \in Users : \A e \in Docs : SetPending(u, e)' => SetPending(u, e)
      /\ \A u \in Users : \A i \in 1 .. Len(queue'[u]) :
             queue'[u][i].op = "delete" => queue'[u][i].caller = NoCaller
    BY DEF SetPending, StorePart, Reports, CallersOfSets
<1>6. Reports'
    <2>1. Closures(Waiting) /\ Reports
        BY WaitingKinds DEF StorePart
    <2> QED BY <1>1, <1>3, <1>4, <1>5, <2>1, ReportsKept
<1>7. StoreTypes'
    BY DEF StorePart, StoreTypes
<1>8. ResultsMatch' /\ Streams' /\ OneSetEach' /\ DocumentsHaveAuthors' /\ NothingLost'
    BY DEF StorePart, ResultsMatch, Streams, OneSetEach, DocumentsHaveAuthors, NothingLost,
           SetPending, Wanted
<1>9. BehindServer'
    BY DEF StorePart, BehindServer
<1> QED BY <1>3, <1>6, <1>7, <1>8, <1>9 DEF StorePart

(* and after the closure of an unlike, which deletes what somebody added.     *)
LEMMA UnlikeStep ==
    ASSUME StorePart, mainQueue # <<>>, mainQueue' = Tail(mainQueue),
           NEW found \in SUBSET Docs, \A d \in found : author[d] # None, Grown(found),
           UNCHANGED <<user, cache, online, results, watch, server, author, refused, drops>>
    PROVE  /\ StorePart'
           /\ \A u \in Users, d \in Docs : SetPending(u, d)' <=> SetPending(u, d)
<1>1. mainQueue \in Seq(Waiting) /\ Len(mainQueue) \in Nat
    BY LenProperties DEF StorePart
<1>2. /\ Tail(mainQueue) \in Seq(Waiting) /\ Len(Tail(mainQueue)) \in Nat
      /\ \A k \in 1 .. Len(Tail(mainQueue)) :
            k + 1 \in 1 .. Len(mainQueue) /\ Tail(mainQueue)[k] = mainQueue[k + 1]
    BY <1>1, TailFacts
<1>3. ASSUME NEW u \in Users, NEW i \in 1 .. Len(queue'[u])
      PROVE  \/ i \in 1 .. Len(queue[u]) /\ queue'[u][i] = queue[u][i]
             \/ /\ queue'[u][i].op = "delete" /\ queue'[u][i].caller = NoCaller
                /\ queue'[u][i].doc \in found
    BY DEF Grown
<1>4. \A u \in Users : /\ Len(queue[u]) \in Nat /\ Len(queue'[u]) \in Nat
                       /\ Len(queue'[u]) >= Len(queue[u])
                       /\ \A i \in 1 .. Len(queue[u]) :
                             i \in 1 .. Len(queue'[u]) /\ queue'[u][i] = queue[u][i]
    BY DEF Grown
<1>5. \A u \in Users, d \in Docs : SetPending(u, d)' <=> SetPending(u, d)
    BY <1>3, <1>4 DEF SetPending
<1>6. StoreTypes' /\ user \in Users /\ Len(results) \in Nat
    BY LenProperties DEF Grown, StorePart, StoreTypes
<1>7. ResultsMatch'
    <2>1. Len(results) <= Len(queue[user])
        BY DEF StorePart, ResultsMatch
    <2>2. Len(results) <= Len(queue'[user])
        BY <1>4, <1>6, <2>1
    <2>3. \A i \in 1 .. Len(results) : queue'[user][i] = queue[user][i]
        BY <1>4, <1>6, <2>1
    <2> QED BY <2>2, <2>3 DEF StorePart, ResultsMatch, Wanted
<1>8. BehindServer' /\ Streams'
    BY DEF StorePart, BehindServer, Streams
<1>9. NothingLost'
    BY <1>5 DEF StorePart, NothingLost, Users
<1>10. DocumentsHaveAuthors'
    BY <1>3 DEF StorePart, DocumentsHaveAuthors
<1>11. OneSetEach'
    <2>1. ASSUME NEW u \in Users, NEW i \in 1 .. Len(queue'[u]), queue'[u][i].op = "set"
          PROVE  i \in 1 .. Len(queue[u]) /\ queue'[u][i] = queue[u][i]
        BY <1>3, <2>1
    <2> QED BY <2>1 DEF StorePart, OneSetEach
<1>12. Reports'
    <2>1. Closures(Waiting) /\ Reports
        BY WaitingKinds DEF StorePart
    <2>2. \A u \in Users : \A i \in 1 .. Len(queue'[u]) :
              queue'[u][i].op = "delete" => queue'[u][i].caller = NoCaller
        BY <1>3 DEF StorePart, Reports, CallersOfSets
    <2>3. \A k \in 1 .. Len(mainQueue') :
              k + 1 \in 1 .. Len(mainQueue) /\ mainQueue'[k] = mainQueue[k + 1]
        BY <1>2
    <2> QED BY <1>1, <1>2, <1>5, <2>1, <2>2, <2>3, ReportsKept
<1> QED BY <1>2, <1>5, <1>6, <1>7, <1>8, <1>9, <1>10, <1>11, <1>12 DEF StorePart

-----------------------------------------------------------------------------
(* The screens and their queries                                              *)

AllQueries == [QueryIds -> Query \cup {NoQuery}]

ViewTypes ==
    /\ screen \in Views \cup {NoView}
    /\ title \in [Views -> {"Item", "Liked", "UnLiked"}]
    /\ queries \in AllQueries

LEMMA QueryParts ==
    ASSUME queries \in AllQueries, NEW q \in QueryIds
    PROVE  /\ queries[q].sent \in [Docs -> Nat]
           /\ queries[q].served \in BOOLEAN
           /\ queries[q] # NoQuery =>
                 /\ queries[q] \in Query
                 /\ queries[q].kind \in {"isLiked", "unlike"} /\ queries[q].view \in Views
                 /\ queries[q].view # NoView
           /\ queries[q] = NoQuery =>
                 queries[q].kind = "none" /\ queries[q].view = NoView /\ ~queries[q].served
<1>1. queries[q] \in Query \cup {NoQuery}
    BY DEF AllQueries
<1>2. Nothing \in [Docs -> Nat]
    BY DEF Nothing
<1>3. NoView \notin Views
    BY StoreAssumption DEF NoView, Views
<1>4. CASE queries[q] \in Query
    BY <1>3, <1>4 DEF Query, NoQuery
<1>5. CASE queries[q] = NoQuery
    BY <1>2, <1>5 DEF NoQuery
<1> QED BY <1>1, <1>4, <1>5

(* A step that tells the queries no more than what the backend holds.         *)
SentKept ==
    /\ queries' \in AllQueries
    /\ \A q \in QueryIds, d \in Docs :
          queries'[q].sent[d] \in {0, queries[q].sent[d], Len(server[d])}

LEMMA AsksFacts ==
    ASSUME queries \in AllQueries, NEW kind \in {"isLiked", "unlike"}, NEW v \in Views,
           GetDocuments(kind, v)
    PROVE  /\ SentKept
           /\ \E q \in QueryIds :
                 /\ queries[q] = NoQuery
                 /\ queries'[q] # NoQuery /\ queries'[q].kind = kind /\ queries'[q].view = v
                 /\ \A p \in QueryIds : p # q => queries'[p] = queries[p]
<1> DEFINE new == [kind |-> kind, view |-> v, served |-> FALSE, sent |-> Nothing]
<1>1. PICK q \in QueryIds : queries[q] = NoQuery /\ queries' = [queries EXCEPT ![q] = new]
    BY DEF GetDocuments
<1>2. /\ new \in Query /\ new # NoQuery /\ new.kind = kind /\ new.view = v
      /\ \A d \in Docs : new.sent[d] = 0
    BY DEF Query, NoQuery, Nothing
<1> HIDE DEF new
<1>3. /\ queries' \in AllQueries /\ queries'[q] = new
      /\ \A p \in QueryIds : p # q => queries'[p] = queries[p]
    BY <1>1, <1>2 DEF AllQueries
<1>4. \A p \in QueryIds, d \in Docs : queries'[p].sent[d] \in {0, queries[p].sent[d]}
    BY <1>2, <1>3
<1> QED BY <1>1, <1>2, <1>3, <1>4 DEF SentKept

(* Served or asked again, a query is for the same screen.                     *)
SameQueries ==
    \A q \in QueryIds :
        /\ queries'[q] = NoQuery <=> queries[q] = NoQuery
        /\ queries'[q].kind = queries[q].kind /\ queries'[q].view = queries[q].view

LEMMA ServeFacts ==
    ASSUME StoreTypes, queries \in AllQueries, NEW q \in QueryIds, ServeQuery(q)
    PROVE  SentKept /\ SameQueries
<1>1. PICK D \in Told(queries[q].kind) :
          queries' = [queries EXCEPT ![q].served = TRUE,
                          ![q].sent = [d \in Docs |-> IF d \in D THEN Len(server[d]) ELSE 0]]
    BY DEF ServeQuery
<1> DEFINE sent == [d \in Docs |-> IF d \in D THEN Len(server[d]) ELSE 0]
           new == [queries[q] EXCEPT !.served = TRUE, !.sent = sent]
<1>2. queries[q] # NoQuery /\ queries[q] \in Query
    BY QueryParts DEF ServeQuery
<1>3. sent \in [Docs -> Nat] /\ \A d \in Docs : sent[d] \in {0, Len(server[d])}
    BY LenProperties DEF StoreTypes
<1>4. queries' = [queries EXCEPT ![q] = new]
    BY <1>1, <1>2 DEF AllQueries, Query
<1> HIDE DEF sent
<1>5. /\ new \in Query /\ new.kind = queries[q].kind /\ new.view = queries[q].view
      /\ new.sent = sent
    BY <1>2, <1>3 DEF Query
<1>6. new # NoQuery
    BY <1>5 DEF Query, NoQuery
<1> HIDE DEF new
<1>7. /\ queries' \in AllQueries /\ queries'[q] = new
      /\ \A p \in QueryIds : p # q => queries'[p] = queries[p]
    BY <1>4, <1>5 DEF AllQueries
<1>8. SentKept
    BY <1>3, <1>5, <1>7 DEF SentKept
<1>9. SameQueries
    BY <1>2, <1>5, <1>6, <1>7 DEF SameQueries
<1> QED BY <1>8, <1>9

LEMMA AskAgainFacts ==
    ASSUME queries \in AllQueries, AskAgain
    PROVE  SentKept /\ SameQueries
<1>1. ASSUME NEW q \in QueryIds
      PROVE  /\ queries'[q] \in Query \cup {NoQuery}
             /\ queries'[q] = NoQuery <=> queries[q] = NoQuery
             /\ queries'[q].kind = queries[q].kind /\ queries'[q].view = queries[q].view
             /\ \A d \in Docs : queries'[q].sent[d] = 0
    <2>1. queries'[q] = [queries[q] EXCEPT !.served = FALSE, !.sent = Nothing]
        BY DEF AskAgain
    <2>2. Nothing \in [Docs -> Nat] /\ \A d \in Docs : Nothing[d] = 0
        BY DEF Nothing
    <2>3. CASE queries[q] = NoQuery
        <3> DEFINE Blank == [kind : {"none"}, view : {NoView}, served : {FALSE}, sent : {Nothing}]
        <3>1. NoQuery \in Blank
            BY DEF NoQuery
        <3>2. [NoQuery EXCEPT !.served = FALSE, !.sent = Nothing] \in Blank
            BY <3>1
        <3>3. ASSUME NEW r \in Blank PROVE r = NoQuery
            <4>1. r = [kind |-> r.kind, view |-> r.view, served |-> r.served, sent |-> r.sent]
                OBVIOUS
            <4>2. r.kind = "none" /\ r.view = NoView /\ r.served = FALSE /\ r.sent = Nothing
                OBVIOUS
            <4>3. [kind |-> r.kind, view |-> r.view, served |-> r.served, sent |-> r.sent] = NoQuery
                BY <4>2 DEF NoQuery
            <4> QED BY <4>1, <4>3
        <3>4. queries'[q] = NoQuery
            BY <2>1, <2>3, <3>1, <3>2, <3>3
        <3> QED BY <2>2, <2>3, <3>4 DEF NoQuery
    <2>4. CASE queries[q] \in Query
        <3>1. /\ queries'[q] \in Query /\ queries'[q].sent = Nothing
              /\ queries'[q].kind = queries[q].kind /\ queries'[q].view = queries[q].view
            BY <2>1, <2>2, <2>4 DEF Query
        <3>2. NoQuery \notin Query
            BY DEF Query, NoQuery
        <3> QED BY <2>2, <2>4, <3>1, <3>2
    <2>5. queries[q] \in Query \cup {NoQuery}
        BY DEF AllQueries
    <2> QED BY <2>3, <2>4, <2>5
<1>2. queries' \in AllQueries
    BY <1>1 DEF AskAgain, AllQueries
<1> QED BY <1>1, <1>2 DEF SentKept, SameQueries

(* An answer ends its query.                                                  *)
LEMMA DeliverFacts ==
    ASSUME queries \in AllQueries, NEW q \in QueryIds, queries[q] # NoQuery,
           NEW found \in SUBSET Docs, NEW ok \in BOOLEAN, Deliver(q, found, ok)
    PROVE  /\ SentKept
           /\ queries'[q] = NoQuery /\ \A p \in QueryIds : p # q => queries'[p] = queries[p]
           /\ \E a \in QueryAnswer :
                 /\ mainQueue' = Append(mainQueue, a)
                 /\ a.kind = queries[q].kind /\ a.caller = queries[q].view
                 /\ a.found = found /\ a.ok = ok
<1>1. Answer(q, found, ok) \in QueryAnswer
    BY QueryParts DEF Answer, QueryAnswer
<1>2. \A d \in Docs : NoQuery.sent[d] = 0
    BY DEF NoQuery, Nothing
<1>3. /\ queries' \in AllQueries
      /\ queries'[q] = NoQuery /\ \A p \in QueryIds : p # q => queries'[p] = queries[p]
    BY DEF Deliver, AllQueries
<1>4. SentKept
    BY <1>2, <1>3 DEF SentKept
<1> QED BY <1>1, <1>3, <1>4 DEF Deliver, Answer

-----------------------------------------------------------------------------
(* The inductive invariant in any setting                                     *)

(* Every document of the local view was added by somebody, also when the      *)
(* cache has just been brought up to date.                                    *)
LEMMA FoundHaveAuthors ==
    ASSUME StoreTypes, BehindServer, DocumentsHaveAuthors,
           NEW cached \in [Docs -> Nat], \A d \in Docs : cached[d] <= Len(server[d])
    PROVE  /\ FoundWith(cached) \in SUBSET Docs
           /\ \A d \in FoundWith(cached) : author[d] # None
BY ExistingHasAuthor, VisibleHasAuthor DEF FoundWith

(* An answer, as what it does to the client: the cache may learn what the     *)
(* backend had told the query.                                                *)
LEMMA AnswersFacts ==
    ASSUME StorePart, AnswersHaveAuthors, queries \in AllQueries, NEW q \in QueryIds, Answers(q)
    PROVE  /\ queries[q] # NoQuery
           /\ UNCHANGED <<user, queue, online, results, watch, server, author, refused, drops,
                          screen, title>>
           /\ cache' \in [Docs -> Nat]
           /\ \A d \in Docs : cache'[d] <= Len(server[d]) /\ cache'[d] >= cache[d]
           /\ \E found \in SUBSET Docs, ok \in BOOLEAN :
                 /\ Deliver(q, found, ok)
                 /\ \A d \in found : author[d] # None
                 /\ ok => found = FoundWith(cache')
                 /\ ok \/ setting = "rough"
<1>1. /\ cache \in [Docs -> Nat] /\ \A d \in Docs : cache[d] <= Len(server[d])
      /\ StoreTypes /\ BehindServer /\ DocumentsHaveAuthors
    BY DEF StorePart, StoreTypes, BehindServer
<1>2. CASE AnswerQuery(q)
    <2>1. /\ queries[q].served
          /\ cache' = [d \in Docs |-> IF queries[q].sent[d] > cache[d]
                                      THEN queries[q].sent[d] ELSE cache[d]]
          /\ Deliver(q, FoundWith(cache'), TRUE)
          /\ UNCHANGED <<user, queue, online, results, watch, server, author, refused, drops,
                         screen, title>>
        BY <1>2 DEF AnswerQuery
    <2>2. queries[q] # NoQuery /\ queries[q].sent \in [Docs -> Nat]
        BY <2>1, QueryParts
    <2>3. \A d \in Docs : queries[q].sent[d] <= Len(server[d])
        BY DEF AnswersHaveAuthors
    <2>4. /\ cache' \in [Docs -> Nat]
          /\ \A d \in Docs : cache'[d] <= Len(server[d]) /\ cache'[d] >= cache[d]
        BY <1>1, <2>1, <2>2, <2>3
    <2> QED BY <1>1, <2>1, <2>2, <2>4, FoundHaveAuthors
<1>3. CASE AnswerFromCache(q)
    <2>1. /\ queries[q] # NoQuery /\ Deliver(q, FoundWith(cache), TRUE) /\ cache' = cache
          /\ UNCHANGED <<user, queue, online, results, watch, server, author, refused, drops,
                         screen, title>>
        BY <1>3 DEF AnswerFromCache
    <2>2. \A d \in Docs : cache'[d] >= cache[d]
        BY <1>1, <2>1
    <2>3. FoundWith(cache) = FoundWith(cache')
        BY <2>1 DEF FoundWith
    <2> QED BY <1>1, <2>1, <2>2, <2>3, FoundHaveAuthors
<1>4. CASE FailQuery(q)
    <2>1. /\ queries[q] # NoQuery /\ Deliver(q, {}, FALSE) /\ cache' = cache
          /\ setting = "rough"
          /\ UNCHANGED <<user, queue, online, results, watch, server, author, refused, drops,
                         screen, title>>
        BY <1>4 DEF FailQuery
    <2>2. \A d \in Docs : cache'[d] >= cache[d]
        BY <1>1, <2>1
    <2>3. {} \in SUBSET Docs /\ FALSE \in BOOLEAN /\ \A d \in {} : author[d] # None
        OBVIOUS
    <2>4. \E found \in SUBSET Docs, ok \in BOOLEAN :
              /\ Deliver(q, found, ok)
              /\ \A d \in found : author[d] # None
              /\ ok => found = FoundWith(cache')
              /\ ok \/ setting = "rough"
        BY <2>1, <2>3
    <2> QED BY <1>1, <2>1, <2>2, <2>4
<1> QED BY <1>2, <1>3, <1>4 DEF Answers

(* A completion tells the screen that asked for it.                           *)
LEMMA CompletionFacts ==
    ASSUME ToggleTypeOK, mainQueue # <<>>
    PROVE  /\ Head(mainQueue) = mainQueue[1] /\ mainQueue[1] \in Waiting
           /\ 1 \in 1 .. Len(mainQueue) /\ mainQueue[1].caller \in Views
<1>1. Head(mainQueue) = mainQueue[1] /\ mainQueue[1] \in Waiting /\ 1 \in 1 .. Len(mainQueue)
    BY TailFacts DEF ToggleTypeOK, Waiting
<1>2. mainQueue[1].caller \in Views
    BY <1>1, WaitingKinds DEF Completion, QueryAnswer, Views
<1> QED BY <1>1, <1>2

LEMMA ViewStep ==
    ASSUME ToggleIInv, [ToggleNext /\ UNCHANGED setting]_allVars
    PROVE  ViewTypes' /\ SentKept /\ setting' = setting
<1> DEFINE Shown == /\ screen' \in Views \cup {NoView}
                    /\ title' \in [Views -> {"Item", "Liked", "UnLiked"}]
<1>1. /\ screen \in Views \cup {NoView} /\ title \in [Views -> {"Item", "Liked", "UnLiked"}]
      /\ queries \in AllQueries /\ StoreTypes /\ ToggleTypeOK
    BY DEF ToggleIInv, ToggleTypeOK, AllQueries
<1>2. ASSUME UNCHANGED queries PROVE SentKept
    BY <1>1, <1>2 DEF SentKept
<1>3. ASSUME Open PROVE Shown /\ SentKept
    <2>1. PICK v \in Views : /\ screen' = v /\ title' = [title EXCEPT ![v] = "Item"]
                             /\ GetDocuments("isLiked", v)
        BY <1>3 DEF Open
    <2>2. SentKept
        BY <1>1, <2>1, AsksFacts
    <2> QED BY <1>1, <2>1, <2>2
<1>4. ASSUME Back PROVE Shown /\ SentKept
    BY <1>1, <1>2, <1>4 DEF Back
<1>5. ASSUME UnlikeTap PROVE Shown /\ SentKept
    <2>1. /\ screen \in Views /\ screen' = screen
          /\ title' = [title EXCEPT ![screen] = "UnLiked"] /\ GetDocuments("unlike", screen)
        BY <1>1, <1>5 DEF UnlikeTap
    <2>2. SentKept
        BY <1>1, <2>1, AsksFacts
    <2> QED BY <1>1, <2>1, <2>2
<1>6. ASSUME RunIsLiked \/ RunWritten PROVE Shown /\ SentKept
    <2>1. /\ mainQueue # <<>> /\ UNCHANGED <<screen, queries>>
          /\ \/ title' = title
             \/ \E t \in {"Liked", "UnLiked"} :
                   title' = [title EXCEPT ![Head(mainQueue).caller] = t]
        BY <1>6 DEF RunIsLiked, RunWritten
    <2>2. Head(mainQueue).caller \in Views
        BY <1>1, <2>1, CompletionFacts
    <2>3. title' \in [Views -> {"Item", "Liked", "UnLiked"}]
        BY <1>1, <2>1, <2>2
    <2> QED BY <1>1, <1>2, <2>1, <2>3
<1>7. ASSUME RunUnlike PROVE Shown /\ SentKept
    BY <1>1, <1>2, <1>7 DEF RunUnlike
<1>8. ASSUME NEW q \in QueryIds, ServeQuery(q) PROVE Shown /\ SentKept
    <2>1. SentKept /\ UNCHANGED <<screen, title>>
        BY <1>1, <1>8, ServeFacts DEF ServeQuery
    <2> QED BY <1>1, <2>1
<1>9. ASSUME NEW q \in QueryIds, Answers(q) PROVE Shown /\ SentKept
    <2>1. /\ queries[q] # NoQuery /\ UNCHANGED <<screen, title>>
          /\ \E found \in SUBSET Docs, ok \in BOOLEAN : Deliver(q, found, ok)
        BY <1>1, <1>9, AnswersFacts, StorePartHolds DEF ToggleIInv
    <2>2. SentKept
        BY <1>1, <2>1, DeliverFacts
    <2> QED BY <1>1, <2>1, <2>2
<1>10. ASSUME ToggleLoseConnection \/ \E u \in Users : ToggleCredentialChange(u)
       PROVE  Shown /\ SentKept
    <2>1. AskAgain /\ UNCHANGED <<screen, title>>
        BY <1>10 DEF ToggleLoseConnection, ToggleCredentialChange
    <2>2. SentKept
        BY <1>1, <2>1, AskAgainFacts
    <2> QED BY <1>1, <2>1, <2>2
<1>11. ASSUME ToggleRestart PROVE Shown /\ SentKept
    <2>1. /\ screen' = NoView /\ title' = [v \in Views |-> "Item"]
          /\ queries' = [q \in QueryIds |-> NoQuery]
        BY <1>11 DEF ToggleRestart
    <2>2. \A d \in Docs : NoQuery.sent[d] = 0
        BY DEF NoQuery, Nothing
    <2>3. SentKept
        BY <2>1, <2>2 DEF SentKept, AllQueries
    <2> QED BY <2>1, <2>3
<1>12. ASSUME UNCHANGED viewVars PROVE Shown /\ SentKept
    BY <1>1, <1>2, <1>12 DEF viewVars
<1>13. setting' = setting
    BY DEF allVars
<1>14. Shown /\ SentKept
    <2>1. ASSUME UNCHANGED allVars PROVE UNCHANGED viewVars
        BY <2>1 DEF allVars, viewVars
    <2> HIDE DEF Shown
    <2>2. ASSUME ToggleNext PROVE Shown /\ SentKept
        BY <1>3, <1>4, <1>5, <1>6, <1>7, <1>8, <1>9, <1>10, <1>11, <1>12, <2>2
        DEF ToggleNext, Answers, LikeTap
    <2> QED BY <1>12, <2>1, <2>2
<1>15. queries' \in AllQueries
    BY <1>14 DEF SentKept
<1> QED BY <1>13, <1>14, <1>15 DEF ViewTypes

(* What the queries are told stays behind the backend.                        *)
LEMMA SentStep ==
    ASSUME StoreTypes, StoreTypes', queries \in AllQueries, AnswersHaveAuthors, SentKept,
           \A d \in Docs : Len(server'[d]) >= Len(server[d])
    PROVE  \A q \in QueryIds, d \in Docs : queries'[q].sent[d] <= Len(server'[d])
<1> SUFFICES ASSUME NEW q \in QueryIds, NEW d \in Docs
             PROVE  queries'[q].sent[d] <= Len(server'[d])
    OBVIOUS
<1>1. queries[q].sent[d] \in Nat /\ Len(server[d]) \in Nat /\ Len(server'[d]) \in Nat
    BY QueryParts, LenProperties DEF StoreTypes
<1>2. queries[q].sent[d] <= Len(server[d]) /\ Len(server'[d]) >= Len(server[d])
    BY DEF AnswersHaveAuthors
<1>3. queries'[q].sent[d] \in {0, queries[q].sent[d], Len(server[d])}
    BY DEF SentKept
<1> QED BY <1>1, <1>2, <1>3

LEMMA ToggleInvInit == ToggleInit => ToggleIInv
<1> SUFFICES ASSUME ToggleInit PROVE ToggleIInv
    OBVIOUS
<1>1. IInv
    BY InvInit DEF ToggleInit
<1>2. mainQueue \in Seq(Completion \cup QueryAnswer)
    BY DEF ToggleInit, Init
<1>3. ToggleTypeOK
    BY <1>1, <1>2 DEF ToggleInit, ToggleTypeOK, IInv
<1>4. AnswersHaveAuthors
    BY DEF ToggleInit, Init, AnswersHaveAuthors, NoQuery, Nothing
<1> QED BY <1>1, <1>3, <1>4 DEF IInv, ToggleIInv

LEMMA ToggleInvStep == ToggleIInv /\ [ToggleNext /\ UNCHANGED setting]_allVars => ToggleIInv'
<1> SUFFICES ASSUME ToggleIInv, [ToggleNext /\ UNCHANGED setting]_allVars PROVE ToggleIInv'
    OBVIOUS
<1> DEFINE AnswersAdded(k) == \A d \in mainQueue[k].found : author[d] # None
<1>1. /\ StorePart /\ StoreTypes /\ queries \in AllQueries /\ AnswersHaveAuthors
      /\ screen \in Views \cup {NoView} /\ ToggleTypeOK
    BY StorePartHolds DEF ToggleIInv, ToggleTypeOK, AllQueries
<1>2. ViewTypes' /\ SentKept /\ setting' = setting
    BY ViewStep
<1>3. \A k \in 1 .. Len(mainQueue) :
          mainQueue[k].kind # "written" => \A d \in mainQueue[k].found : d \in Docs /\ author[d] # None
    <2>1. \A k \in 1 .. Len(mainQueue) : mainQueue[k] \in Waiting
        BY <1>1, ElementOfSeq DEF StorePart
    <2>2. \A k \in 1 .. Len(mainQueue) :
              mainQueue[k].kind # "written" => mainQueue[k].found \subseteq Docs
        BY <2>1, WaitingKinds DEF QueryAnswer
    <2> QED BY <1>1, <2>2 DEF AnswersHaveAuthors
<1>4. ASSUME StorePart', \A d \in Docs : author[d] # None => author'[d] # None,
             \A d \in Docs : Len(server'[d]) >= Len(server[d]),
             \A k \in 1 .. Len(mainQueue') : mainQueue'[k].kind # "written" =>
                 \/ \E j \in 1 .. Len(mainQueue) : mainQueue'[k] = mainQueue[j]
                 \/ \A d \in mainQueue'[k].found : author'[d] # None
      PROVE  ToggleIInv'
    <2>1. \A q \in QueryIds, d \in Docs : queries'[q].sent[d] <= Len(server'[d])
        BY <1>1, <1>2, <1>4, SentStep DEF StorePart
    <2>2. \A k \in 1 .. Len(mainQueue') :
              mainQueue'[k].kind # "written" => \A d \in mainQueue'[k].found : author'[d] # None
        BY <1>3, <1>4
    <2>3. AnswersHaveAuthors'
        BY <2>1, <2>2 DEF AnswersHaveAuthors
    <2>4. ToggleTypeOK'
        BY <1>1, <1>2, <1>4 DEF ToggleTypeOK, ViewTypes, AllQueries, StorePart, Waiting
    <2> QED BY <1>4, <2>3, <2>4 DEF ToggleIInv, StorePart, Reports
<1>5. CASE [Next]_vars
    <2>1. \A k \in 1 .. Len(mainQueue') : mainQueue'[k].kind # "written" =>
              \E j \in 1 .. Len(mainQueue) : mainQueue'[k] = mainQueue[j]
        BY <1>1, <1>5, StoreStepWaiting
    <2> QED BY <1>1, <1>4, <1>5, <2>1, StoreStep
<1>6. \A d \in Docs : Len(server[d]) \in Nat
    BY <1>1, LenProperties DEF StoreTypes
<1>7. CASE RunIsLiked
    <2>1. /\ mainQueue # <<>> /\ mainQueue' = Tail(mainQueue)
          /\ UNCHANGED <<user, queue, cache, online, results, watch, server, author, refused, drops>>
        BY <1>7 DEF RunIsLiked
    <2>2. cache' \in [Docs -> Nat] /\ \A d \in Docs : cache'[d] <= Len(server[d])
        BY <1>1, <2>1 DEF StoreTypes, StorePart, BehindServer
    <2>3. StorePart'
        BY <1>1, <2>1, <2>2, ClosureStep
    <2>4. \A k \in 1 .. Len(mainQueue') : \E j \in 1 .. Len(mainQueue) : mainQueue'[k] = mainQueue[j]
        BY <1>1, <2>1, TailFacts DEF StorePart
    <2> QED BY <1>4, <1>6, <2>1, <2>3, <2>4
<1>8. CASE RunUnlike
    <2> DEFINE found == IF mainQueue[1].ok THEN mainQueue[1].found ELSE {}
    <2>1. /\ mainQueue # <<>> /\ mainQueue' = Tail(mainQueue)
          /\ mainQueue[1].found \subseteq Docs /\ mainQueue[1].kind = "unlike"
          /\ 1 \in 1 .. Len(mainQueue)
          /\ Grown(found)
          /\ UNCHANGED <<user, cache, online, results, watch, server, author, refused, drops>>
        BY <1>1, <1>8, UnlikeRuns
    <2>2. found \in SUBSET Docs /\ \A d \in found : author[d] # None
        BY <1>3, <2>1
    <2> HIDE DEF found
    <2>3. StorePart'
        BY <1>1, <2>1, <2>2, UnlikeStep
    <2>4. \A k \in 1 .. Len(mainQueue') : \E j \in 1 .. Len(mainQueue) : mainQueue'[k] = mainQueue[j]
        BY <1>1, <2>1, TailFacts DEF StorePart
    <2> QED BY <1>4, <1>6, <2>1, <2>3, <2>4
<1>9. ASSUME NEW q \in QueryIds, Answers(q) PROVE ToggleIInv'
    <2>1. /\ queries[q] # NoQuery
          /\ UNCHANGED <<user, queue, online, results, watch, server, author, refused, drops>>
          /\ cache' \in [Docs -> Nat] /\ \A d \in Docs : cache'[d] <= Len(server[d])
        BY <1>1, <1>9, AnswersFacts
    <2>2. PICK found \in SUBSET Docs, ok \in BOOLEAN :
              Deliver(q, found, ok) /\ \A d \in found : author[d] # None
        BY <1>1, <1>9, AnswersFacts
    <2>3. PICK a \in QueryAnswer : mainQueue' = Append(mainQueue, a) /\ a.found = found
        <3>1. queries[q] \in Query
            BY <1>1, <2>1, QueryParts
        <3>2. mainQueue' = Append(mainQueue, Answer(q, found, ok))
            BY <2>2 DEF Deliver
        <3>3. Answer(q, found, ok) \in QueryAnswer /\ Answer(q, found, ok).found = found
            BY ONLY <3>1, found \in SUBSET Docs, ok \in BOOLEAN DEF Answer, QueryAnswer, Query
        <3> QED BY ONLY <3>2, <3>3
    <2>4. StorePart'
        BY <1>1, <2>1, <2>3, ClosureStep
    <2>5. mainQueue \in Seq(Waiting) /\ Len(mainQueue) \in Nat /\ a \in Waiting
        BY <1>1, LenProperties DEF StorePart, Waiting
    <2>6. \A k \in 1 .. Len(mainQueue') :
              \/ \E j \in 1 .. Len(mainQueue) : mainQueue'[k] = mainQueue[j]
              \/ mainQueue'[k] = a
        <3>1. /\ Len(mainQueue') = Len(mainQueue) + 1
              /\ \A k \in 1 .. Len(mainQueue) : mainQueue'[k] = mainQueue[k]
              /\ mainQueue'[Len(mainQueue) + 1] = a
            BY <2>3, <2>5, AppendProperties
        <3> QED BY <2>5, <3>1
    <2> QED BY <1>4, <1>6, <2>1, <2>2, <2>3, <2>4, <2>6
<1> QED BY <1>1, <1>5, <1>7, <1>8, <1>9, ToggleSteps

(* The invariant of the client holds beside the screen, and no query finds    *)
(* what nobody added.                                                         *)
THEOREM ToggleInvariant == ToggleSpec => []ToggleIInv
BY ToggleInvInit, ToggleInvStep, PTL DEF ToggleSpec

(* Every execution of the like button is well typed.                          *)
THEOREM ToggleTypeCorrect == ToggleSpec => []ToggleTypeOK
<1>1. ToggleIInv => ToggleTypeOK
    BY DEF ToggleIInv
<1> QED BY <1>1, ToggleInvariant, PTL

(* However impatient the user and bad the connection, a like is reported once. *)
THEOREM LikesAreReportedOnce == ToggleSpec => []ReportedOnce
<1>1. ToggleIInv => ReportedOnce
    BY DEF ToggleIInv
<1> QED BY <1>1, ToggleInvariant, PTL

(* No like is lost, whatever the user touches and whatever becomes of him.    *)
THEOREM NoLikeIsLost == ToggleSpec => []NothingLost
<1>1. ToggleIInv => NothingLost
    BY DEF ToggleIInv
<1> QED BY <1>1, ToggleInvariant, PTL

-----------------------------------------------------------------------------
(* The calm setting, on a device with one account                             *)

AllQuiet == \A v \in Views : Quiet(v)

ScreenAgrees ==
    screen # NoView /\ AllQuiet => title[screen] = IF Liked THEN "Liked" ELSE "UnLiked"

Calm ==
    /\ OneAtATime /\ NobodyWaits /\ NewsIsNew /\ TidingsAreTrue /\ ScreenAgrees
    /\ \A k \in 1 .. Len(mainQueue) : mainQueue[k].ok

LEMMA CalmParts == CalmIInv <=> (setting = "calm" => Calm)
<1>1. TitleAgrees <=> (setting = "calm" => ScreenAgrees)
    BY DEF TitleAgrees, ScreenAgrees, AllQuiet
<1> DEFINE AllOk == \A k \in 1 .. Len(mainQueue) : mainQueue[k].ok
<1>2. CalmIInv <=> (setting = "calm" => /\ OneAtATime /\ NobodyWaits /\ NewsIsNew
                                         /\ TidingsAreTrue /\ TitleAgrees /\ AllOk)
    BY DEF CalmIInv
<1>3. Calm <=> /\ OneAtATime /\ NobodyWaits /\ NewsIsNew
               /\ TidingsAreTrue /\ ScreenAgrees /\ AllOk
    BY DEF Calm
<1> HIDE DEF AllOk
<1> QED BY <1>1, <1>2, <1>3

(* Everything under way is for a screen, which is therefore not quiet.        *)
LEMMA UnderWay ==
    ToggleTypeOK =>
        /\ \A q \in QueryIds : queries[q] # NoQuery =>
               queries[q].view \in Views /\ ~Quiet(queries[q].view)
        /\ Len(mainQueue) \in Nat
        /\ \A k \in 1 .. Len(mainQueue) :
               mainQueue[k].caller \in Views /\ ~Quiet(mainQueue[k].caller)
        /\ \A u \in Users : \A i \in Calls(u) :
               /\ queue[u][i] \in Mutation /\ queue[u][i].caller \in Views
               /\ ~Quiet(queue[u][i].caller)
<1> SUFFICES ASSUME ToggleTypeOK
             PROVE  /\ \A q \in QueryIds : queries[q] # NoQuery =>
                           queries[q].view \in Views /\ ~Quiet(queries[q].view)
                    /\ Len(mainQueue) \in Nat
                    /\ \A k \in 1 .. Len(mainQueue) :
                           mainQueue[k].caller \in Views /\ ~Quiet(mainQueue[k].caller)
                    /\ \A u \in Users : \A i \in Calls(u) :
                           /\ queue[u][i] \in Mutation /\ queue[u][i].caller \in Views
                           /\ ~Quiet(queue[u][i].caller)
    OBVIOUS
<1>1. queries \in AllQueries /\ mainQueue \in Seq(Waiting) /\ StoreTypes
    BY DEF ToggleTypeOK, AllQueries, Waiting
<1>2. \A q \in QueryIds : queries[q] # NoQuery =>
          queries[q].view \in Views /\ ~Quiet(queries[q].view)
    BY <1>1, QueryParts DEF Quiet
<1>3. Len(mainQueue) \in Nat /\ \A k \in 1 .. Len(mainQueue) : mainQueue[k] \in Waiting
    BY <1>1, ElementOfSeq, LenProperties
<1>4. \A k \in 1 .. Len(mainQueue) : mainQueue[k].caller \in Views
    BY <1>3, WaitingKinds DEF Completion, QueryAnswer, Views
<1>5. \A k \in 1 .. Len(mainQueue) : ~Quiet(mainQueue[k].caller)
    BY DEF Quiet
<1>6. ASSUME NEW u \in Users, NEW i \in Calls(u)
      PROVE  /\ queue[u][i] \in Mutation /\ queue[u][i].caller \in Views
             /\ ~Quiet(queue[u][i].caller)
    <2>1. i \in 1 .. Len(queue[u]) /\ queue[u][i].caller # NoCaller
        BY DEF Calls
    <2>2. queue[u][i] \in Mutation
        BY <1>1, <2>1, QueueTypes
    <2>3. queue[u][i].caller \in Views
        BY <2>1, <2>2 DEF Mutation, Views
    <2>4. ~Quiet(queue[u][i].caller)
        BY <2>1 DEF Quiet
    <2> QED BY <2>2, <2>3, <2>4
<1> QED BY <1>2, <1>3, <1>4, <1>5, <1>6

Idle ==
    /\ mainQueue = <<>>
    /\ \A q \in QueryIds : queries[q] = NoQuery
    /\ \A u \in Users : Calls(u) = {}

LEMMA QuietIsIdle == ToggleTypeOK => (AllQuiet <=> Idle)
<1> SUFFICES ASSUME ToggleTypeOK PROVE AllQuiet <=> Idle
    OBVIOUS
<1>1. ASSUME AllQuiet PROVE Idle
    <2>1. \A q \in QueryIds : queries[q] = NoQuery
        BY <1>1, UnderWay DEF AllQuiet
    <2>2. \A u \in Users : Calls(u) = {}
        BY <1>1, UnderWay DEF AllQuiet
    <2>3. ASSUME mainQueue # <<>> PROVE FALSE
        <3>1. 1 \in 1 .. Len(mainQueue)
            BY <2>3, CompletionFacts
        <3> QED BY <1>1, <3>1, UnderWay DEF AllQuiet
    <2> QED BY <2>1, <2>2, <2>3 DEF Idle
<1>2. ASSUME Idle, NEW v \in Views PROVE Quiet(v)
    <2>1. v # NoCaller /\ NoQuery.view # v
        BY StoreAssumption DEF Views, NoQuery, NoView
    <2>2. \A q \in QueryIds : queries[q].view # v
        BY <1>2, <2>1 DEF Idle
    <2>3. Len(mainQueue) = 0
        BY <1>2 DEF Idle
    <2>4. \A u \in Users : \A i \in 1 .. Len(queue[u]) : queue[u][i].caller # v
        BY <1>2, <2>1 DEF Idle, Calls
    <2> QED BY <2>2, <2>3, <2>4 DEF Quiet
<1> QED BY <1>1, <1>2 DEF AllQuiet

(* Whoever waits, or has a write pending, is signed in with the one account.  *)
LEMMA TheUser ==
    ASSUME OneAccount, ToggleTypeOK, NobodyWaits
    PROVE  /\ user \in Users /\ None \notin Accounts
           /\ ~Idle => user \in Accounts
           /\ \A u \in Users : queue[u] # <<>> => u \in Accounts
           /\ user \in Accounts => \A u \in Accounts : u = user
<1>1. user \in Users
    BY DEF ToggleTypeOK, StoreTypes
<1>2. user = None => Idle
    BY QuietIsIdle DEF NobodyWaits, AllQuiet
<1> QED BY <1>1, <1>2, StoreAssumption DEF Users, NobodyWaits, OneAccount

(* A closure that runs was the only thing under way.                          *)
LEMMA LastCall ==
    ASSUME ToggleTypeOK, OneAtATime, mainQueue # <<>>
    PROVE  /\ Tail(mainQueue) = <<>> /\ Len(mainQueue) = 1
           /\ Head(mainQueue) = mainQueue[1] /\ 1 \in 1 .. Len(mainQueue)
           /\ \A q \in QueryIds : queries[q] = NoQuery
           /\ \A u \in Users : Calls(u) = {}
<1>1. mainQueue \in Seq(Waiting)
    BY DEF ToggleTypeOK, Waiting
<1>2. /\ Len(mainQueue) \in Nat /\ Len(mainQueue) # 0 /\ Len(mainQueue) <= 1
      /\ Tail(mainQueue) \in Seq(Waiting) /\ Len(Tail(mainQueue)) = Len(mainQueue) - 1
      /\ Head(mainQueue) = mainQueue[1] /\ 1 \in 1 .. Len(mainQueue)
    BY <1>1, LenProperties, TailFacts DEF OneAtATime
<1>3. Tail(mainQueue) = <<>>
    BY <1>2, EmptySeq
<1> QED BY <1>2, <1>3 DEF OneAtATime

(* What is new stays new: while queues and backend stay as they are,          *)
LEMMA NewsKept ==
    ASSUME StoreTypes, NewsIsNew, UNCHANGED <<queue, server>>,
           results' = <<>> \/ UNCHANGED <<user, results>>,
           cache' \in [Docs -> Nat],
           \A d \in Docs : cache'[d] <= Len(server[d]) /\ cache'[d] >= cache[d]
    PROVE  NewsIsNew'
<1>1. \A u \in Users, d \in Docs : Touches(u, d)' = Touches(u, d)
    BY DEF Touches
<1>2. \A d \in Docs : cache[d] \in Nat /\ cache'[d] \in Nat /\ Len(server[d]) \in Nat
    BY LenProperties DEF StoreTypes
<1>3. \A u \in Accounts, d \in Docs : Touches(u, d)' = {} => cache'[d] = Len(server'[d])
    BY <1>1, <1>2 DEF NewsIsNew, Users
<1>4. \A i \in 1 .. Len(results') :
          /\ results'[i] # Refused
          /\ \/ \E j \in i + 1 .. Len(results') : queue'[user'][j].doc = queue'[user'][i].doc
             \/ results'[i] = Len(server'[queue'[user'][i].doc])
    BY DEF NewsIsNew
<1> QED BY <1>3, <1>4 DEF NewsIsNew

(* ... so that the user sees what he saw,                                     *)
LEMMA SeenKept ==
    ASSUME StoreTypes, BehindServer, NewsIsNew, user \in Accounts,
           UNCHANGED <<user, queue, server>>, cache' \in [Docs -> Nat],
           \A d \in Docs : cache'[d] <= Len(server[d]) /\ cache'[d] >= cache[d]
    PROVE  \A d \in Docs : Visible(d)' <=> Visible(d)
<1>1. \A d \in Docs : cache[d] \in Nat /\ cache'[d] \in Nat /\ Len(server[d]) \in Nat
    BY LenProperties DEF StoreTypes
<1>2. Grows
    BY <1>1 DEF Grows
<1>3. \A d \in Docs : Touches(user, d) = {} => cache'[d] = cache[d]
    BY <1>1 DEF NewsIsNew
<1> QED BY <1>2, <1>3, VisibleKept

(* when the app writes,                                                       *)
LEMMA NewsGrown ==
    ASSUME StoreTypes, ResultsMatch, NewsIsNew, UNCHANGED <<user, cache, server, results>>,
           \A u \in Users : /\ Len(queue'[u]) \in Nat /\ Len(queue'[u]) >= Len(queue[u])
                            /\ \A i \in 1 .. Len(queue[u]) : queue'[u][i] = queue[u][i]
    PROVE  NewsIsNew'
<1>1. /\ user \in Users /\ Len(results) \in Nat /\ Len(results) <= Len(queue[user])
      /\ \A u \in Users : Len(queue[u]) \in Nat
    BY QueueTypes, LenProperties DEF StoreTypes, ResultsMatch
<1>2. \A i \in 1 .. Len(results) : queue'[user][i] = queue[user][i]
    BY <1>1
<1>3. \A u \in Accounts, d \in Docs : Touches(u, d)' = {} => Touches(u, d) = {}
    BY <1>1 DEF Touches, Users
<1>4. ASSUME NEW i \in 1 .. Len(results')
      PROVE  /\ results'[i] # Refused
             /\ \/ \E j \in i + 1 .. Len(results') : queue'[user'][j].doc = queue'[user'][i].doc
                \/ results'[i] = Len(server'[queue'[user'][i].doc])
    <2>1. i \in 1 .. Len(results) /\ results'[i] = results[i] /\ user' = user /\ server' = server
        BY <1>4
    <2>2. CASE \E j \in i + 1 .. Len(results) : queue[user][j].doc = queue[user][i].doc
        <3>1. PICK j \in i + 1 .. Len(results) : queue[user][j].doc = queue[user][i].doc
            BY <2>2
        <3>2. j \in 1 .. Len(results) /\ j \in i + 1 .. Len(results')
            BY <1>1, <2>1
        <3> QED BY <1>2, <2>1, <3>1, <3>2 DEF NewsIsNew
    <2>3. CASE results[i] = Len(server[queue[user][i].doc])
        BY <1>2, <2>1, <2>3 DEF NewsIsNew
    <2> QED BY <2>1, <2>2, <2>3 DEF NewsIsNew
<1> QED BY <1>3, <1>4 DEF NewsIsNew

(* when the backend commits a write,                                          *)
LEMMA NewsCommitted ==
    ASSUME OneAccount, ToggleTypeOK, NobodyWaits, ResultsMatch, NewsIsNew, Commit
    PROVE  NewsIsNew' /\ Grows
<1> DEFINE n == Len(results) + 1
           m == queue[user][n]
<1>1. /\ StoreTypes /\ results \in Seq(Nat) /\ Len(results) \in Nat /\ user \in Users
      /\ Len(queue[user]) \in Nat /\ Len(results) < Len(queue[user])
      /\ server' = Committed(m) /\ results' = Append(results, Len(server'[m.doc]))
      /\ UNCHANGED <<user, queue, cache>>
    BY QueueTypes, LenProperties DEF ToggleTypeOK, StoreTypes, Commit
<1>2. n \in 1 .. Len(queue[user])
    BY <1>1
<1>3. m \in Mutation /\ m.doc \in Docs
    BY <1>1, <1>2, QueueTypes
<1>4. /\ Grows /\ Len(server'[m.doc]) \in Nat \ {0}
      /\ \A e \in Docs : e # m.doc => server'[e] = server[e]
    BY <1>1, <1>3, CommitFacts
<1>5. /\ Len(results') = n /\ results'[n] = Len(server'[m.doc])
      /\ \A i \in 1 .. Len(results) : results'[i] = results[i]
    BY <1>1, <1>4, AppendProperties
<1>6. ASSUME NEW i \in 1 .. Len(results')
      PROVE  /\ results'[i] # Refused
             /\ \/ \E j \in i + 1 .. Len(results') : queue'[user'][j].doc = queue'[user'][i].doc
                \/ results'[i] = Len(server'[queue'[user'][i].doc])
    <2>1. CASE i = n
        <3>1. results'[i] # Refused
            BY <1>4, <1>5, <2>1 DEF Refused
        <3>2. results'[i] = Len(server'[queue'[user'][i].doc])
            BY <1>1, <1>5, <2>1
        <3> QED BY <3>1, <3>2
    <2>2. CASE i # n
        <3>1. i \in 1 .. Len(results) /\ i \in 1 .. Len(queue[user]) /\ n \in i + 1 .. Len(results')
            BY <1>1, <1>5, <2>2
        <3>2. queue[user][i].doc \in Docs
            BY <1>1, <3>1, QueueTypes
        <3>3. CASE queue[user][i].doc = m.doc
            BY <1>1, <1>5, <3>1, <3>3 DEF NewsIsNew
        <3>4. CASE queue[user][i].doc # m.doc
            <4>1. server'[queue[user][i].doc] = server[queue[user][i].doc]
                BY <1>4, <3>2, <3>4
            <4>2. \A j \in i + 1 .. Len(results) : j \in i + 1 .. Len(results')
                BY <1>1, <1>5, <3>1
            <4> QED BY <1>1, <1>5, <3>1, <4>1, <4>2 DEF NewsIsNew
        <3> QED BY <3>3, <3>4
    <2> QED BY <2>1, <2>2
<1>7. ASSUME NEW u \in Accounts, NEW d \in Docs, Touches(u, d)' = {}
      PROVE  cache'[d] = Len(server'[d])
    <2>1. u = user
        <3>1. queue[user] # <<>>
            BY <1>1, QueueTypes
        <3> QED BY <1>1, <3>1, TheUser
    <2>2. Touches(u, d) = {}
        BY <1>1, <1>7 DEF Touches
    <2>3. d # m.doc
        BY <1>2, <2>1, <2>2 DEF Touches
    <2> QED BY <1>1, <1>4, <2>2, <2>3 DEF NewsIsNew
<1> QED BY <1>4, <1>6, <1>7 DEF NewsIsNew

(* and when the client hears that a write has been committed.                 *)
LEMMA NewsWritten ==
    ASSUME OneAccount, ToggleTypeOK, NobodyWaits, ResultsMatch, BehindServer, DocumentsHaveAuthors,
           NewsIsNew, HandleSuccessfulWrite
    PROVE  /\ NewsIsNew' /\ user \in Accounts
           /\ \A d \in Docs : Visible(d)' <=> Visible(d)
<1> DEFINE m == queue[user][1]
<1>1. /\ StoreTypes /\ results # <<>> /\ RemoveBatch /\ results' = Tail(results)
      /\ ApplyBatchResult(Head(queue[user]).doc, Head(results))
      /\ UNCHANGED <<user, server>>
    BY DEF ToggleTypeOK, HandleSuccessfulWrite
<1>2. /\ user \in Users /\ queue[user] # <<>> /\ 1 \in 1 .. Len(queue[user])
      /\ Head(queue[user]) = m /\ m.doc \in Docs /\ m.op \in {"set", "delete"}
      /\ Head(results) = results[1] /\ results[1] \in Nat /\ 1 \in 1 .. Len(results)
      /\ results \in Seq(Nat) /\ Len(results) \in Nat
      /\ Len(results') = Len(results) - 1
      /\ \A i \in 1 .. Len(results') : i + 1 \in 1 .. Len(results) /\ results'[i] = results[i + 1]
    BY <1>1, AnswerFacts, QueueTypes, LenProperties DEF StoreTypes
<1>3. /\ Len(queue[user]) \in Nat /\ Len(results) <= Len(queue[user])
      /\ Len(queue'[user]) = Len(queue[user]) - 1
      /\ \A i \in 1 .. Len(queue'[user]) :
            i + 1 \in 1 .. Len(queue[user]) /\ queue'[user][i] = queue[user][i + 1]
    BY <1>1, <1>2, QueueTypes, RemoveFacts DEF ResultsMatch
<1>4. /\ user \in Accounts /\ \A u \in Accounts : u = user
    BY <1>2, TheUser
<1>5. \A d \in Docs : /\ cache[d] \in Nat /\ Len(server[d]) \in Nat /\ cache[d] <= Len(server[d])
                      /\ d # m.doc => cache'[d] = cache[d]
    BY <1>1, <1>2, LenProperties DEF StoreTypes, BehindServer, ApplyBatchResult
<1>6. /\ results[1] # Refused /\ results[1] <= Len(server[m.doc])
      /\ server[m.doc][results[1]] = Wanted(m)
    BY <1>2 DEF ResultsMatch, NewsIsNew
<1>7. ASSUME NEW d \in Docs, d = m.doc, Touches(user, d)' = {}
      PROVE  results[1] = Len(server[d]) /\ cache'[d] = Len(server[d])
    <2>1. ASSUME NEW j \in 2 .. Len(results), queue[user][j].doc = d PROVE FALSE
        <3>1. /\ j - 1 \in 1 .. Len(queue'[user]) /\ (j - 1) + 1 = j
            BY <1>2, <1>3
        <3>2. queue'[user][j - 1].doc = d
            BY <1>3, <2>1, <3>1
        <3>3. j - 1 \in Touches(user, d)'
            BY <1>1, <3>1, <3>2 DEF Touches
        <3> QED BY <1>7, <3>3
    <2>2. results[1] = Len(server[d])
        BY <1>2, <1>7, <2>1 DEF NewsIsNew
    <2>3. cache' = IF cache[d] < results[1] THEN [cache EXCEPT ![d] = results[1]] ELSE cache
        BY <1>1, <1>2, <1>7 DEF ApplyBatchResult
    <2>4. cache'[d] = Len(server[d])
        <3>1. cache \in [Docs -> Nat]
            BY <1>1 DEF StoreTypes
        <3> QED BY <1>2, <1>5, <2>2, <2>3, <3>1
    <2> QED BY <2>2, <2>4
<1>8. ASSUME NEW i \in 1 .. Len(results')
      PROVE  /\ results'[i] # Refused
             /\ \/ \E j \in i + 1 .. Len(results') : queue'[user'][j].doc = queue'[user'][i].doc
                \/ results'[i] = Len(server'[queue'[user'][i].doc])
    <2>1. /\ i + 1 \in 1 .. Len(results) /\ results'[i] = results[i + 1]
          /\ i \in 1 .. Len(queue'[user]) /\ queue'[user][i] = queue[user][i + 1]
        <3>1. i + 1 \in 1 .. Len(results) /\ results'[i] = results[i + 1]
            BY <1>2
        <3>2. i \in 1 .. Len(queue'[user])
            BY <1>2, <1>3
        <3> QED BY <1>3, <3>1, <3>2
    <2>2. CASE \E j \in i + 2 .. Len(results) : queue[user][j].doc = queue[user][i + 1].doc
        <3>1. PICK j \in i + 2 .. Len(results) : queue[user][j].doc = queue[user][i + 1].doc
            BY <2>2
        <3>2. /\ j - 1 \in i + 1 .. Len(results') /\ j - 1 \in 1 .. Len(queue'[user])
              /\ (j - 1) + 1 = j
            BY <1>2, <1>3, <2>1, <3>1
        <3>3. queue'[user][j - 1] = queue[user][j]
            BY <1>3, <3>2
        <3>4. queue'[user'][j - 1].doc = queue'[user'][i].doc
            BY <1>1, <2>1, <3>1, <3>3
        <3>5. results'[i] # Refused
            BY <2>1 DEF NewsIsNew
        <3> QED BY <3>2, <3>4, <3>5
    <2>3. (i + 1) + 1 = i + 2
        BY <1>2
    <2>4. /\ results[i + 1] # Refused
          /\ \/ \E j \in i + 2 .. Len(results) : queue[user][j].doc = queue[user][i + 1].doc
             \/ results[i + 1] = Len(server[queue[user][i + 1].doc])
        BY <2>1, <2>3 DEF NewsIsNew
    <2> QED BY <1>1, <2>1, <2>2, <2>4
<1>9. ASSUME NEW d \in Docs
      PROVE  /\ Touches(user, d)' = {} => cache'[d] = Len(server'[d])
             /\ Visible(d)' <=> Visible(d)
    <2>1. CASE Touches(user, d)' # {} /\ (Visible(d)' <=> Visible(d))
        BY <2>1
    <2>2. CASE Touches(user, d)' = {} /\ d # m.doc /\ Touches(user, d) = {}
        <3>1. cache'[d] = cache[d] /\ cache[d] = Len(server[d]) /\ server' = server
            BY <1>1, <1>4, <1>5, <2>2 DEF NewsIsNew
        <3>2. Visible(d)' <=> Visible(d)
            BY <2>2, <3>1 DEF Visible, VisibleTo, ExistsAt
        <3> QED BY <3>1, <3>2
    <2>3. CASE Touches(user, d)' = {} /\ d = m.doc /\ (Visible(d) <=> m.op = "set")
        <3>1. /\ results[1] = Len(server[d]) /\ cache'[d] = Len(server[d]) /\ server' = server
              /\ server[d][results[1]] = Wanted(m)
            BY <1>1, <1>6, <1>7, <2>3
        <3>2. Visible(d)' <=> (cache'[d] > 0 /\ server'[d][cache'[d]] = "present")
            BY <2>3 DEF Visible, VisibleTo, ExistsAt
        <3>3. cache'[d] > 0
            BY <1>2, <1>5, <1>6, <3>1 DEF Refused
        <3>4. Wanted(m) = "present" <=> m.op = "set"
            BY <1>2 DEF Wanted
        <3> QED BY <2>3, <3>1, <3>2, <3>3, <3>4
    <2> QED BY <1>1, <1>2, <2>1, <2>2, <2>3, VisibleAfterRemove
<1>10. \A u \in Accounts, d \in Docs : Touches(u, d)' = {} => cache'[d] = Len(server'[d])
    BY <1>1, <1>4, <1>9 DEF Touches
<1> QED BY <1>4, <1>8, <1>9, <1>10 DEF NewsIsNew

-----------------------------------------------------------------------------
(* The calm setting is idle, or one thing is under way for the screen.        *)

TitleIsTrue == title[screen] = IF Liked THEN "Liked" ELSE "UnLiked"

LEMMA CalmIdle ==
    /\ ToggleTypeOK /\ Idle /\ queue[None] = <<>> /\ NewsIsNew
    /\ screen # NoView => user # None /\ TitleIsTrue
    => Calm
<1> SUFFICES ASSUME ToggleTypeOK, Idle, queue[None] = <<>>, NewsIsNew,
                    screen # NoView => user # None /\ TitleIsTrue
             PROVE  Calm
    OBVIOUS
<1>1. \A v \in Views : Quiet(v)
    BY QuietIsIdle DEF AllQuiet
<1>a. NoQuery.kind = "none"
    BY DEF NoQuery
<1>2. /\ Len(mainQueue) = 0 /\ mainQueue = <<>> /\ \A q \in QueryIds : queries[q].kind = "none"
      /\ \A u \in Users : Calls(u) = {}
      /\ \A q \in QueryIds : queries[q] = NoQuery
    BY <1>a DEF Idle
<1>3. OneAtATime
    BY <1>2 DEF OneAtATime
<1>4. TidingsAreTrue
    BY <1>1, <1>2 DEF TidingsAreTrue
<1>5. ScreenAgrees /\ NobodyWaits
    BY <1>1 DEF ScreenAgrees, TitleIsTrue, NobodyWaits
<1> QED BY <1>2, <1>3, <1>4, <1>5 DEF Calm

(* A query is under way.                                                      *)
AskedBy(q) ==
    /\ queries[q] # NoQuery /\ queries[q].view = screen
    /\ queries[q].kind = "unlike" => title[screen] = "UnLiked"
    /\ \A p \in QueryIds : p # q => queries[p] = NoQuery

Asked == \E q \in QueryIds : AskedBy(q)

LEMMA CalmAsked ==
    /\ ToggleTypeOK /\ screen # NoView /\ user # None /\ queue[None] = <<>> /\ NewsIsNew
    /\ mainQueue = <<>> /\ (\A u \in Users : Calls(u) = {})
    /\ Asked
    => Calm
<1> SUFFICES ASSUME ToggleTypeOK, screen # NoView, user # None, queue[None] = <<>>, NewsIsNew,
                    mainQueue = <<>>, \A u \in Users : Calls(u) = {},
                    NEW q \in QueryIds, AskedBy(q)
             PROVE  Calm
    BY DEF Asked
<1>1. ~Quiet(screen) /\ screen \in Views /\ Len(mainQueue) = 0
    BY UnderWay DEF AskedBy
<1>2. ASSUME NEW v \in Views, v # screen PROVE Quiet(v)
    <2>1. NoQuery.view # v /\ v # NoCaller
        BY StoreAssumption DEF NoQuery, NoView, Views
    <2>2. \A p \in QueryIds : queries[p].view # v
        BY <1>2, <2>1 DEF AskedBy
    <2> QED BY <1>1, <2>1, <2>2 DEF Quiet, Calls
<1>3. \A p \in QueryIds : queries[p].kind = "unlike" => title[screen] = "UnLiked"
    <2>1. NoQuery.kind # "unlike"
        BY DEF NoQuery
    <2> QED BY <2>1 DEF AskedBy
<1>4. OneAtATime
    BY <1>1 DEF OneAtATime, AskedBy
<1>5. TidingsAreTrue
    BY <1>1, <1>2, <1>3 DEF TidingsAreTrue
<1>6. ScreenAgrees /\ NobodyWaits
    BY <1>1 DEF ScreenAgrees, AllQuiet, NobodyWaits
<1> QED BY <1>1, <1>4, <1>5, <1>6 DEF Calm

(* A closure waits for the main thread.                                       *)
TrueTiding(c) ==
    /\ c.caller = screen
    /\ c.kind = "isLiked" => (c.found # {} <=> Liked)
    /\ c.kind = "unlike" => title[screen] = "UnLiked" /\ c.found = {d \in Docs : Visible(d)}
    /\ c.kind = "written" => Liked

OneTiding ==
    /\ Len(mainQueue) = 1 /\ mainQueue[1].ok
    /\ (\A q \in QueryIds : queries[q] = NoQuery) /\ (\A u \in Users : Calls(u) = {})
    /\ screen # NoView => TrueTiding(mainQueue[1])

LEMMA CalmTiding ==
    ToggleTypeOK /\ user # None /\ queue[None] = <<>> /\ NewsIsNew /\ OneTiding => Calm
<1> SUFFICES ASSUME ToggleTypeOK, user # None, queue[None] = <<>>, NewsIsNew,
                    Len(mainQueue) = 1, mainQueue[1].ok,
                    \A q \in QueryIds : queries[q] = NoQuery, \A u \in Users : Calls(u) = {},
                    screen # NoView => TrueTiding(mainQueue[1])
             PROVE  Calm
    BY DEF OneTiding
<1>1. \A k \in 1 .. Len(mainQueue) : k = 1
    OBVIOUS
<1>2. ~AllQuiet
    BY UnderWay DEF AllQuiet
<1>3. ASSUME screen # NoView, NEW v \in Views, v # screen PROVE Quiet(v)
    <2>1. NoQuery.view # v /\ v # NoCaller
        BY StoreAssumption DEF NoQuery, NoView, Views
    <2>2. \A k \in 1 .. Len(mainQueue) : mainQueue[k].caller # v
        BY <1>1, <1>3 DEF TrueTiding
    <2> QED BY <2>1, <2>2 DEF Quiet, Calls
<1>4. \A q \in QueryIds : queries[q].kind # "unlike"
    BY DEF NoQuery
<1>5. OneAtATime
    BY DEF OneAtATime
<1>6. TidingsAreTrue
    BY <1>1, <1>3, <1>4 DEF TidingsAreTrue, TrueTiding
<1>7. ScreenAgrees /\ NobodyWaits
    BY <1>2 DEF ScreenAgrees, NobodyWaits
<1> QED BY <1>1, <1>5, <1>6, <1>7 DEF Calm

(* A like is on its way to the backend.                                       *)
LEMMA CalmWriting ==
    /\ ToggleTypeOK /\ screen # NoView /\ user # None /\ queue[None] = <<>> /\ NewsIsNew /\ Liked
    /\ mainQueue = <<>> /\ (\A q \in QueryIds : queries[q] = NoQuery)
    /\ (\E i \in Calls(user) : queue[user][i].caller = screen /\ \A j \in Calls(user) : j = i)
    /\ \A u \in Users : u # user => Calls(u) = {}
    => Calm
<1> SUFFICES ASSUME ToggleTypeOK, screen # NoView, user # None, queue[None] = <<>>, NewsIsNew,
                    Liked, mainQueue = <<>>, \A q \in QueryIds : queries[q] = NoQuery,
                    NEW i \in Calls(user), queue[user][i].caller = screen,
                    \A j \in Calls(user) : j = i, \A u \in Users : u # user => Calls(u) = {}
             PROVE  Calm
    OBVIOUS
<1>1. user \in Users /\ Len(mainQueue) = 0
    BY DEF ToggleTypeOK, StoreTypes
<1>2. ~Quiet(screen) /\ screen \in Views
    BY <1>1, UnderWay
<1>3. ASSUME NEW v \in Views, v # screen PROVE Quiet(v)
    <2>1. NoQuery.view # v /\ v # NoCaller
        BY StoreAssumption DEF NoQuery, NoView, Views
    <2>2. ASSUME NEW u \in Users, NEW j \in 1 .. Len(queue[u]), queue[u][j].caller = v PROVE FALSE
        <3>1. j \in Calls(u)
            BY <2>1, <2>2 DEF Calls
        <3> QED BY <1>3, <2>2, <3>1
    <2> QED BY <1>1, <2>1, <2>2 DEF Quiet
<1>4. \A q \in QueryIds : queries[q].kind # "unlike"
    BY DEF NoQuery
<1>5. OneAtATime
    <2>1. ASSUME NEW u \in Users, NEW j \in Calls(u), NEW w \in Users, NEW k \in Calls(w)
          PROVE  w = u /\ k = j
        BY <1>1
    <2> QED BY <1>1, <2>1 DEF OneAtATime
<1>6. TidingsAreTrue
    BY <1>1, <1>3, <1>4 DEF TidingsAreTrue
<1>7. ScreenAgrees /\ NobodyWaits
    BY <1>2 DEF ScreenAgrees, AllQuiet, NobodyWaits
<1> QED BY <1>1, <1>5, <1>6, <1>7 DEF Calm

(* A step that nobody waits for, which may take a write off a queue.          *)
LEMMA CalmKept ==
    ASSUME Calm, ToggleTypeOK, NewsIsNew', queue'[None] = <<>>,
           UNCHANGED <<user, mainQueue, screen, title>>, SameQueries,
           \A d \in Docs : user \in Accounts => (Visible(d)' <=> Visible(d)),
           NEW gone \in [Users -> {0, 1}],
           \A u \in Users :
               /\ Len(queue[u]) \in Nat
               /\ \A i \in 1 .. Len(queue'[u]) :
                     /\ i + gone[u] \in 1 .. Len(queue[u])
                     /\ queue'[u][i].caller = queue[u][i + gone[u]].caller
               /\ \A i \in 1 .. Len(queue[u]) : queue[u][i].caller # NoCaller =>
                     i - gone[u] \in 1 .. Len(queue'[u])
    PROVE  Calm'
<1>1. /\ OneAtATime /\ NobodyWaits /\ TidingsAreTrue /\ ScreenAgrees
      /\ \A k \in 1 .. Len(mainQueue) : mainQueue[k].ok
    BY DEF Calm
<1>2. \A u \in Users : \A i \in Calls(u)' : i \in Int /\ i + gone[u] \in Calls(u)
    BY DEF Calls
<1>3. ASSUME NEW u \in Users, NEW i \in Calls(u)
      PROVE  /\ i \in Int /\ gone[u] \in Int /\ i - gone[u] \in Calls(u)'
             /\ queue'[u][i - gone[u]].caller = queue[u][i].caller
    <2>1. /\ i \in 1 .. Len(queue[u]) /\ queue[u][i].caller # NoCaller /\ gone[u] \in Int
          /\ i \in Int
        BY DEF Calls
    <2>2. i - gone[u] \in 1 .. Len(queue'[u]) /\ (i - gone[u]) + gone[u] = i
        BY <2>1
    <2>3. queue'[u][i - gone[u]].caller = queue[u][i].caller
        BY <2>2
    <2> QED BY <2>1, <2>2, <2>3 DEF Calls
<1>4. ASSUME NEW v \in Views PROVE Quiet(v)' <=> Quiet(v)
    <2>1. (\A q \in QueryIds : queries'[q].view # v) <=> (\A q \in QueryIds : queries[q].view # v)
        BY DEF SameQueries
    <2>2. v # NoCaller
        BY StoreAssumption DEF Views
    <2>3. ASSUME NEW u \in Users
          PROVE  (\A i \in 1 .. Len(queue'[u]) : queue'[u][i].caller # v)
                     <=> (\A i \in 1 .. Len(queue[u]) : queue[u][i].caller # v)
        <3>1. ASSUME NEW i \in 1 .. Len(queue[u]), queue[u][i].caller = v
              PROVE  \E j \in 1 .. Len(queue'[u]) : queue'[u][j].caller = v
            <4>1. i \in Calls(u)
                BY <2>2, <3>1 DEF Calls
            <4>2. PICK j \in Calls(u)' : queue'[u][j].caller = v
                BY <1>3, <3>1, <4>1
            <4>3. j \in 1 .. Len(queue'[u])
                BY DEF Calls
            <4> QED BY <4>2, <4>3
        <3>2. ASSUME NEW i \in 1 .. Len(queue'[u]), queue'[u][i].caller = v
              PROVE  \E j \in 1 .. Len(queue[u]) : queue[u][j].caller = v
            <4>1. i + gone[u] \in 1 .. Len(queue[u]) /\ queue[u][i + gone[u]].caller = v
                BY <3>2
            <4> QED BY <4>1
        <3> QED BY <3>1, <3>2
    <2> QED BY <2>1, <2>3 DEF Quiet
<1>5. \A u \in Users : Calls(u)' # {} => Calls(u) # {}
    BY <1>2
<1>6. OneAtATime'
    <2>1. ASSUME NEW u \in Users, NEW i \in Calls(u)'
          PROVE  /\ mainQueue' = <<>> /\ \A q \in QueryIds : queries'[q] = NoQuery
                 /\ \A w \in Users : \A j \in Calls(w)' : w = u /\ j = i
        <3>1. mainQueue' = <<>> /\ \A q \in QueryIds : queries'[q] = NoQuery
            BY <1>1, <1>2 DEF OneAtATime, SameQueries
        <3>2. ASSUME NEW w \in Users, NEW j \in Calls(w)' PROVE w = u /\ j = i
            <4>1. /\ i \in Int /\ j \in Int /\ gone[u] \in Int /\ gone[w] \in Int
                  /\ i + gone[u] \in Calls(u) /\ j + gone[w] \in Calls(w)
                BY <1>2
            <4>2. w = u /\ j + gone[w] = i + gone[u]
                BY <1>1, <4>1 DEF OneAtATime
            <4> QED BY <4>1, <4>2
        <3> QED BY <3>1, <3>2
    <2> QED BY <1>1, <2>1 DEF OneAtATime, SameQueries
<1>7. NobodyWaits'
    BY <1>1, <1>4 DEF NobodyWaits
<1>8. ASSUME screen # NoView PROVE (Liked' <=> Liked) /\ \A d \in Docs : Visible(d)' <=> Visible(d)
    <2>1. user \in Accounts
        BY <1>1, <1>8 DEF TidingsAreTrue, ToggleTypeOK, StoreTypes, Users
    <2> QED BY <2>1 DEF Liked
<1>9. TidingsAreTrue'
    <2> SUFFICES ASSUME screen # NoView PROVE TidingsAreTrue'
        BY DEF TidingsAreTrue
    <2>1. {d \in Docs : Visible(d)}' = {d \in Docs : Visible(d)}
        BY <1>8
    <2>2. \A q \in QueryIds : queries'[q].kind = queries[q].kind
        BY DEF SameQueries
    <2> QED BY <1>1, <1>4, <1>5, <1>8, <2>1, <2>2 DEF TidingsAreTrue
<1>10. ScreenAgrees'
    <2> SUFFICES ASSUME screen # NoView PROVE ScreenAgrees'
        BY DEF ScreenAgrees
    <2>1. AllQuiet' <=> AllQuiet
        BY <1>4 DEF AllQuiet
    <2> QED BY <1>1, <1>8, <2>1 DEF ScreenAgrees
<1> QED BY <1>1, <1>6, <1>7, <1>9, <1>10 DEF Calm

-----------------------------------------------------------------------------
(* Each step keeps the calm setting calm: touches,                            *)

LEMMA CalmTouch ==
    ASSUME ToggleIInv, ToggleIInv', setting = "calm", Calm,
           Open \/ Back \/ UnlikeTap \/ \E d \in Docs : LikeTap(d)
    PROVE  Calm'
<1>1. /\ ToggleTypeOK /\ ToggleTypeOK' /\ StoreTypes /\ user \in Users /\ ResultsMatch
      /\ queries \in AllQueries /\ screen \in Views \cup {NoView}
      /\ title \in [Views -> {"Item", "Liked", "UnLiked"}]
    BY DEF ToggleIInv, ToggleTypeOK, StoreTypes, AllQueries
<1>2. OneAtATime /\ NobodyWaits /\ NewsIsNew /\ TidingsAreTrue /\ ScreenAgrees
    BY DEF Calm
<1>3. MayTouch => Idle
    BY <1>1, QuietIsIdle DEF MayTouch, AllQuiet
<1>4. ASSUME UNCHANGED vars PROVE NewsIsNew' /\ queue'[None] = <<>>
    <2>1. NewsIsNew'
        BY <1>2, <1>4 DEF vars, NewsIsNew, Touches
    <2> QED BY <1>2, <1>4, <2>1 DEF vars, NobodyWaits
<1>asked. (/\ ToggleTypeOK /\ screen # NoView /\ user # None /\ queue[None] = <<>> /\ NewsIsNew
       /\ mainQueue = <<>> /\ (\A u \in Users : Calls(u) = {})
       /\ Asked
       => Calm)'
    BY CalmAsked, PTL
<1>5. ASSUME UNCHANGED vars, Idle, user # None, NEW kind \in {"isLiked", "unlike"},
             GetDocuments(kind, screen'), screen' \in Views,
             kind = "unlike" => title'[screen'] = "UnLiked"
      PROVE  Calm'
    <2>1. PICK q \in QueryIds :
              /\ queries'[q] # NoQuery /\ queries'[q].kind = kind /\ queries'[q].view = screen'
              /\ \A p \in QueryIds : p # q => queries'[p] = queries[p]
        BY <1>1, <1>5, AsksFacts
    <2>2. AskedBy(q)'
        BY <1>5, <2>1 DEF AskedBy, Idle
    <2>3. /\ screen' # NoView /\ user' # None /\ mainQueue' = <<>>
          /\ \A u \in Users : Calls(u)' = {}
        BY <1>5, StoreAssumption DEF vars, Idle, Calls, Views, NoView
    <2> QED BY <1>1, <1>4, <1>asked, <1>5, <2>2, <2>3 DEF Asked
<1>6. CASE Open
    <2>1. PICK v \in Views : screen' = v /\ GetDocuments("isLiked", v)
        BY <1>6 DEF Open
    <2> QED BY <1>3, <1>5, <1>6, <2>1 DEF Open
<1>7. CASE Back
    <2>1. screen' = NoView /\ UNCHANGED <<title, queries>> /\ UNCHANGED vars
        BY <1>7 DEF Back
    <2>2. OneAtATime' /\ NobodyWaits'
        BY <1>2, <2>1 DEF vars, OneAtATime, NobodyWaits, Calls, Quiet
    <2>3. TidingsAreTrue' /\ ScreenAgrees'
        BY <2>1 DEF TidingsAreTrue, ScreenAgrees
    <2> QED BY <1>4, <2>1, <2>2, <2>3 DEF Calm, vars
<1>8. CASE UnlikeTap
    <2>1. /\ screen \in Views /\ screen' = screen /\ GetDocuments("unlike", screen)
          /\ title' = [title EXCEPT ![screen] = "UnLiked"] /\ MayTouch /\ UNCHANGED vars
        BY <1>1, <1>8 DEF UnlikeTap
    <2>2. title'[screen'] = "UnLiked" /\ user # None
        BY <1>1, <1>2, <1>8, <2>1 DEF TidingsAreTrue, UnlikeTap
    <2> QED BY <1>3, <1>5, <2>1, <2>2
<1>9. ASSUME NEW d \in Docs, LikeTap(d) PROVE Calm'
    <2> DEFINE n == Len(queue[user]) + 1
    <2>1. /\ screen \in Views /\ UNCHANGED viewVars /\ Idle /\ user # None
          /\ WriteMutations("set", d, screen)
          /\ UNCHANGED <<user, cache, results, server, mainQueue>>
        BY <1>1, <1>3, <1>9 DEF LikeTap, AddDocument
    <2>2. /\ \A u \in Users : Len(queue[u]) \in Nat
          /\ \A u \in Users : u # user => queue'[u] = queue[u]
          /\ Len(queue'[user]) = n
          /\ \A i \in 1 .. Len(queue[user]) : queue'[user][i] = queue[user][i]
          /\ queue'[user][n] = [op |-> "set", doc |-> d, caller |-> screen]
        BY <1>1, <2>1, QueueTypes, WriteFacts DEF Views
    <2>3. NewsIsNew'
        BY <1>1, <1>2, <2>1, <2>2, NewsGrown
    <2>4. queue'[None] = <<>>
        BY <1>2, <2>1, <2>2 DEF NobodyWaits, Users
    <2> HIDE DEF n
    <2>a. n \in Nat /\ n = Len(queue[user]) + 1 /\ n \in 1 .. Len(queue'[user])
        BY <1>1, <2>2 DEF n
    <2>5. Liked'
        <3>1. n \in Touches(user, d)' /\ \A i \in Touches(user, d)' : i <= n
            BY <2>1, <2>2, <2>a DEF Touches
        <3>2. Visible(d)'
            BY <2>1, <2>2, <3>1 DEF Visible, VisibleTo, IsLast
        <3> QED BY <3>2 DEF Liked
    <2>6. \A u \in Users : u # user => Calls(u)' = {}
        BY <2>1, <2>2 DEF Idle, Calls
    <2>7. n \in Calls(user)' /\ queue'[user][n].caller = screen /\ \A j \in Calls(user)' : j = n
        <3>1. screen # NoCaller
            BY <2>1, StoreAssumption DEF Views
        <3>2. \A j \in 1 .. Len(queue'[user]) : j = n \/ j \in 1 .. Len(queue[user])
            BY <1>1, <2>2, <2>a
        <3>3. \A j \in 1 .. Len(queue[user]) : queue[user][j].caller = NoCaller
            BY <1>1, <2>1 DEF Idle, Calls
        <3>4. \A j \in Calls(user)' : j = n
            BY <2>1, <2>2, <3>2, <3>3 DEF Calls
        <3> QED BY <2>1, <2>2, <2>a, <3>1, <3>4 DEF Calls
    <2>8. /\ screen' = screen /\ screen' # NoView /\ user' = user /\ mainQueue' = <<>>
          /\ \A q \in QueryIds : queries'[q] = NoQuery
        BY <2>1, StoreAssumption DEF viewVars, Idle, Views, NoView
    <2>9. (/\ ToggleTypeOK /\ screen # NoView /\ user # None /\ queue[None] = <<>>
           /\ NewsIsNew /\ Liked
           /\ mainQueue = <<>> /\ (\A q \in QueryIds : queries[q] = NoQuery)
           /\ (\E i \in Calls(user) : queue[user][i].caller = screen /\ \A j \in Calls(user) : j = i)
           /\ \A u \in Users : u # user => Calls(u) = {}
           => Calm)'
        BY CalmWriting, PTL
    <2> QED BY <1>1, <2>1, <2>3, <2>4, <2>5, <2>6, <2>7, <2>8, <2>9
<1> QED BY <1>6, <1>7, <1>8, <1>9

(* closures,                                                                  *)
LEMMA CalmClosure ==
    ASSUME ToggleIInv, ToggleIInv', setting = "calm", Calm, RunIsLiked \/ RunUnlike \/ RunWritten
    PROVE  Calm'
<1> DEFINE c == mainQueue[1]
<1>1. /\ ToggleTypeOK /\ ToggleTypeOK' /\ StoreTypes /\ user \in Users /\ ResultsMatch
      /\ title \in [Views -> {"Item", "Liked", "UnLiked"}]
    BY DEF ToggleIInv, ToggleTypeOK, StoreTypes
<1>2. /\ OneAtATime /\ NobodyWaits /\ NewsIsNew /\ TidingsAreTrue
      /\ \A k \in 1 .. Len(mainQueue) : mainQueue[k].ok
    BY DEF Calm
<1>3. /\ mainQueue # <<>> /\ mainQueue' = Tail(mainQueue)
      /\ UNCHANGED <<user, cache, results, server, screen, queries>>
    BY DEF RunIsLiked, RunUnlike, RunWritten, RunCompletion
<1>4. /\ mainQueue' = <<>> /\ Head(mainQueue) = c /\ c.ok /\ 1 \in 1 .. Len(mainQueue)
      /\ \A q \in QueryIds : queries'[q] = NoQuery
      /\ \A u \in Users : Calls(u) = {}
    BY <1>1, <1>2, <1>3, LastCall
<1>5. c.caller \in Views /\ ~Quiet(c.caller) /\ c \in Waiting
    BY <1>1, <1>3, <1>4, UnderWay, CompletionFacts
<1>6. user # None
    BY <1>2, <1>5 DEF NobodyWaits
<1>7. screen # NoView =>
          /\ c.caller = screen
          /\ c.kind = "isLiked" => (c.found # {} <=> Liked)
          /\ c.kind = "unlike" =>
                 title[screen] = "UnLiked" /\ c.found = {d \in Docs : Visible(d)}
          /\ c.kind = "written" => Liked
    BY <1>2, <1>4, <1>5 DEF TidingsAreTrue
<1>8. ASSUME NewsIsNew', queue'[None] = <<>>, \A u \in Users : Calls(u)' = {},
             screen # NoView => TitleIsTrue'
      PROVE  Calm'
    <2>1. (/\ ToggleTypeOK /\ Idle /\ queue[None] = <<>> /\ NewsIsNew
           /\ screen # NoView => user # None /\ TitleIsTrue
           => Calm)'
        BY CalmIdle, PTL
    <2>2. Idle'
        BY <1>4, <1>8 DEF Idle
    <2> QED BY <1>1, <1>3, <1>6, <1>8, <2>1, <2>2
<1>9. ASSUME UNCHANGED queue, screen # NoView => title'[screen] = IF Liked THEN "Liked" ELSE "UnLiked"
      PROVE  Calm'
    <2>1. \A u \in Users, d \in Docs : Touches(u, d)' = Touches(u, d)
        BY <1>9 DEF Touches
    <2>2. NewsIsNew'
        BY <1>2, <1>3, <1>9, <2>1 DEF NewsIsNew, Users
    <2>3. \A u \in Users : Calls(u)' = {}
        BY <1>4, <1>9 DEF Calls
    <2>4. Liked' <=> Liked
        <3>1. \A d \in Docs : Visible(d)' <=> Visible(d)
            BY <1>3, <1>9 DEF Visible, VisibleTo, Touches, IsLast, ExistsAt
        <3> QED BY <3>1 DEF Liked
    <2>5. queue'[None] = <<>>
        BY <1>2, <1>9 DEF NobodyWaits
    <2> QED BY <1>3, <1>8, <1>9, <2>2, <2>3, <2>4, <2>5 DEF TitleIsTrue
<1>10. CASE RunIsLiked
    <2>1. /\ c.kind = "isLiked" /\ UNCHANGED queue
          /\ title' = [title EXCEPT ![c.caller] = IF c.found = {} THEN "UnLiked" ELSE "Liked"]
        BY <1>4, <1>10 DEF RunIsLiked
    <2>2. screen # NoView => title'[screen] = IF Liked THEN "Liked" ELSE "UnLiked"
        BY <1>1, <1>5, <1>7, <2>1
    <2> QED BY <1>9, <2>1, <2>2
<1>11. CASE RunWritten
    <2>1. /\ c.kind = "written" /\ UNCHANGED queue
          /\ title' = [title EXCEPT ![c.caller] = "Liked"]
        BY <1>4, <1>11 DEF RunWritten, RunCompletion
    <2>2. screen # NoView => title'[screen] = IF Liked THEN "Liked" ELSE "UnLiked"
        BY <1>1, <1>5, <1>7, <2>1
    <2> QED BY <1>9, <2>1, <2>2
<1>12. CASE RunUnlike
    <2>1. c.kind = "unlike" /\ title' = title /\ c.found \subseteq Docs /\ Grown(c.found)
        BY <1>1, <1>4, <1>12, UnlikeRuns
    <2> DEFINE found == c.found
    <2>2. found \subseteq Docs /\ Grown(found)
        BY <2>1
    <2> HIDE DEF found
    <2>3. \A u \in Users :
              /\ Len(queue[u]) \in Nat /\ Len(queue'[u]) \in Nat /\ Len(queue'[u]) >= Len(queue[u])
              /\ \A i \in 1 .. Len(queue[u]) : queue'[u][i] = queue[u][i]
              /\ \A i \in 1 .. Len(queue'[u]) :
                    \/ i \in 1 .. Len(queue[u])
                    \/ /\ u = user /\ i > Len(queue[u]) /\ queue'[u][i].op = "delete"
                       /\ queue'[u][i].doc \in found /\ queue'[u][i].caller = NoCaller
        BY <2>2 DEF Grown
    <2>4. NewsIsNew'
        BY <1>1, <1>2, <1>3, <2>3, NewsGrown
    <2>5. queue'[None] = <<>>
        <3>1. None \in Users /\ None # user /\ Len(queue[None]) = 0
            BY <1>2, <1>6 DEF Users, NobodyWaits
        <3>2. Len(queue'[None]) = 0
            BY <2>3, <3>1
        <3>3. queue'[None] \in Seq(Mutation)
            BY <2>2, <3>1 DEF Grown
        <3> QED BY <3>2, <3>3, EmptySeq
    <2>6. \A u \in Users : Calls(u)' = {}
        BY <1>4, <2>3 DEF Calls
    <2>7. ASSUME screen # NoView, NEW d \in Docs PROVE ~Visible(d)'
        <3>1. found = {e \in Docs : Visible(e)}
            BY <1>7, <2>1, <2>7 DEF found
        <3>2. CASE d \in found
            <4>1. PICK i \in 1 .. Len(queue'[user]) :
                      i > Len(queue[user]) /\ queue'[user][i].doc = d
                BY <2>2, <3>2 DEF Grown
            <4>2. i \in Touches(user, d)'
                BY <1>3, <4>1 DEF Touches
            <4>3. ASSUME NEW j \in Touches(user, d)', IsLast(j, Touches(user, d)')
                  PROVE  queue'[user][j].op = "delete"
                <5>1. j \in 1 .. Len(queue'[user]) /\ i <= j
                    BY <1>3, <4>2, <4>3 DEF IsLast, Touches
                <5>2. j \notin 1 .. Len(queue[user])
                    BY <1>1, <2>3, <4>1, <5>1
                <5> QED BY <1>1, <2>3, <5>1, <5>2
            <4> QED BY <1>3, <4>2, <4>3 DEF Visible, VisibleTo
        <3>3. CASE d \notin found
            <4>1. \A i \in 1 .. Len(queue[user]) : i \in 1 .. Len(queue'[user])
                BY <1>1, <2>3
            <4>2. \A i \in Touches(user, d) : i \in Touches(user, d)'
                BY <1>1, <1>3, <2>3, <4>1 DEF Touches
            <4>3. \A i \in Touches(user, d)' : i \in Touches(user, d)
                BY <1>1, <1>3, <2>3, <3>3 DEF Touches
            <4>4. Touches(user, d)' = Touches(user, d)
                BY <4>2, <4>3
            <4>5. \A i \in Touches(user, d) : queue'[user][i] = queue[user][i]
                BY <1>1, <2>3 DEF Touches
            <4>6. Visible(d)' <=> Visible(d)
                BY <1>3, <4>4, <4>5 DEF Visible, VisibleTo, ExistsAt
            <4> QED BY <3>1, <3>3, <4>6
        <3> QED BY <3>2, <3>3
    <2>8. screen # NoView => TitleIsTrue'
        BY <1>3, <1>7, <2>1, <2>7 DEF TitleIsTrue, Liked
    <2> QED BY <1>8, <2>4, <2>5, <2>6, <2>8
<1> QED BY <1>10, <1>11, <1>12

(* answers,                                                                   *)
LEMMA CalmAnswer ==
    ASSUME OneAccount, ToggleIInv, ToggleIInv', setting = "calm", Calm, NEW q \in QueryIds, Answers(q)
    PROVE  Calm'
<1>1. /\ ToggleTypeOK /\ ToggleTypeOK' /\ StoreTypes /\ user \in Users /\ BehindServer
      /\ queries \in AllQueries /\ StorePart /\ AnswersHaveAuthors
    BY StorePartHolds DEF ToggleIInv, ToggleTypeOK, StoreTypes, AllQueries
<1>2. OneAtATime /\ NobodyWaits /\ NewsIsNew /\ TidingsAreTrue
    BY DEF Calm
<1>3. /\ queries[q] # NoQuery
      /\ UNCHANGED <<user, queue, online, results, watch, server, author, refused, drops,
                     screen, title>>
      /\ cache' \in [Docs -> Nat]
      /\ \A d \in Docs : cache'[d] <= Len(server[d]) /\ cache'[d] >= cache[d]
      /\ \E found \in SUBSET Docs : Deliver(q, found, TRUE) /\ found = FoundWith(cache')
    BY <1>1, AnswersFacts
<1>4. PICK found \in SUBSET Docs : Deliver(q, found, TRUE) /\ found = FoundWith(cache')
    BY <1>3
<1>5. PICK a \in QueryAnswer :
          /\ mainQueue' = Append(mainQueue, a)
          /\ a.kind = queries[q].kind /\ a.caller = queries[q].view
          /\ a.found = found /\ a.ok = TRUE
    BY <1>1, <1>3, <1>4, DeliverFacts
<1>6. queries'[q] = NoQuery /\ \A p \in QueryIds : p # q => queries'[p] = queries[p]
    BY <1>1, <1>3, <1>4, DeliverFacts
<1>7. /\ mainQueue = <<>> /\ \A p \in QueryIds : p # q => queries[p] = NoQuery
      /\ \A u \in Users : Calls(u) = {}
    BY <1>2, <1>3 DEF OneAtATime
<1>8. Len(mainQueue') = 1 /\ mainQueue'[1] = a
    BY <1>5, <1>7
<1>9. queries[q].view \in Views /\ ~Quiet(queries[q].view)
    BY <1>1, <1>3, UnderWay
<1>10. user # None /\ user \in Accounts
    BY <1>1, <1>2, <1>9 DEF NobodyWaits, Users
<1>11. NewsIsNew' /\ \A d \in Docs : Visible(d)' <=> Visible(d)
    BY <1>1, <1>2, <1>3, <1>10, NewsKept, SeenKept
<1>12. Liked' <=> Liked
    BY <1>11 DEF Liked
<1>13. found = {d \in Docs : Visible(d)'}
    <2>1. \A d \in Docs : Touches(user, d)' = Touches(user, d)
        BY <1>3 DEF Touches
    <2>2. ASSUME NEW d \in Docs, Touches(user, d) = {}
          PROVE  Visible(d)' <=> ExistsAt(d, cache'[d])
        BY <1>3, <2>1, <2>2 DEF Visible, VisibleTo, ExistsAt
    <2> QED BY <1>4, <1>11, <2>2 DEF FoundWith
<1>14. ASSUME screen # NoView PROVE TrueTiding(mainQueue[1])'
    <2>1. queries[q].view = screen
        BY <1>2, <1>9, <1>14 DEF TidingsAreTrue
    <2>2. a.kind = "unlike" => title[screen] = "UnLiked"
        BY <1>2, <1>5, <1>14 DEF TidingsAreTrue
    <2>3. a.kind # "written"
        BY DEF QueryAnswer
    <2>4. found # {} <=> Liked'
        BY <1>13 DEF Liked
    <2> QED BY <1>3, <1>5, <1>8, <1>13, <2>1, <2>2, <2>3, <2>4 DEF TrueTiding
<1>15. /\ \A p \in QueryIds : queries'[p] = NoQuery
       /\ \A u \in Users : Calls(u)' = {}
       /\ queue'[None] = <<>> /\ user' # None
    BY <1>2, <1>3, <1>6, <1>7, <1>10 DEF Calls, NobodyWaits
<1>16. OneTiding'
    BY <1>3, <1>5, <1>8, <1>14, <1>15 DEF OneTiding
<1>told. (ToggleTypeOK /\ user # None /\ queue[None] = <<>> /\ NewsIsNew /\ OneTiding => Calm)'
    BY CalmTiding, PTL
<1> QED BY <1>1, <1>11, <1>15, <1>16, <1>told

(* a user who comes or goes while nothing is under way,                       *)
LEMMA CalmUser ==
    ASSUME ToggleIInv, ToggleIInv', setting = "calm", Calm,
           NEW u \in Users, ToggleCredentialChange(u)
    PROVE  Calm'
<1>1. /\ ToggleTypeOK /\ ToggleTypeOK' /\ StoreTypes /\ BehindServer /\ queries \in AllQueries
    BY DEF ToggleIInv, ToggleTypeOK, AllQueries
<1>2. NobodyWaits /\ NewsIsNew
    BY DEF Calm
<1>3. /\ screen = NoView /\ MayTouch /\ results' = <<>> /\ AskAgain
      /\ UNCHANGED <<queue, cache, server, mainQueue, screen, title>>
    BY DEF ToggleCredentialChange, HandleCredentialChange, DropStreams
<1>4. Idle
    BY <1>1, <1>3, QuietIsIdle DEF MayTouch, AllQuiet
<1>5. Idle'
    BY <1>1, <1>3, <1>4, AskAgainFacts DEF Idle, SameQueries, Calls
<1>6. \A d \in Docs : /\ cache[d] \in Nat /\ cache[d] <= Len(server[d]) /\ cache[d] >= cache[d]
    BY <1>1 DEF StoreTypes, BehindServer
<1>7. NewsIsNew'
    <2>1. cache' \in [Docs -> Nat]
        BY <1>1, <1>3 DEF StoreTypes
    <2> QED BY <1>1, <1>2, <1>3, <1>6, <2>1, NewsKept
<1>8. queue'[None] = <<>>
    BY <1>2, <1>3 DEF NobodyWaits
<1>idle. (/\ ToggleTypeOK /\ Idle /\ queue[None] = <<>> /\ NewsIsNew
          /\ screen # NoView => user # None /\ TitleIsTrue
          => Calm)'
    BY CalmIdle, PTL
<1> QED BY <1>1, <1>3, <1>5, <1>7, <1>8, <1>idle

(* a restart, after which nothing is under way,                               *)
LEMMA CalmRestart ==
    ASSUME ToggleIInv, ToggleIInv', setting = "calm", Calm, ToggleRestart
    PROVE  Calm'
<1>1. ToggleTypeOK' /\ StoreTypes
    BY DEF ToggleIInv, ToggleTypeOK
<1>2. NobodyWaits /\ NewsIsNew
    BY DEF Calm
<1>3. /\ Restart /\ screen' = NoView /\ mainQueue' = <<>> /\ results' = <<>>
      /\ UNCHANGED <<cache, server>>
      /\ \A q \in QueryIds : queries'[q] = NoQuery
    BY DEF ToggleRestart, Restart, DropStreams
<1>4. /\ queue' \in [Users -> Seq(Mutation)]
      /\ \A u \in Users :
            /\ Len(queue'[u]) = Len(queue[u])
            /\ \A i \in 1 .. Len(queue[u]) :
                  queue'[u][i].doc = queue[u][i].doc /\ queue'[u][i].caller = NoCaller
    BY <1>1, <1>3, RestartFacts
<1>5. Idle'
    BY <1>3, <1>4 DEF Idle, Calls
<1>6. NewsIsNew'
    <2>1. ASSUME NEW u \in Accounts, NEW d \in Docs, Touches(u, d)' = {}
          PROVE  cache'[d] = Len(server'[d])
        <3>1. Touches(u, d) = {}
            BY <1>4, <2>1 DEF Touches, Users
        <3> QED BY <1>2, <1>3, <3>1 DEF NewsIsNew
    <2>2. Len(results') = 0
        BY <1>3
    <2> QED BY <2>1, <2>2 DEF NewsIsNew
<1>7. queue'[None] = <<>>
    <2>1. None \in Users /\ Len(queue[None]) = 0
        BY <1>2 DEF Users, NobodyWaits
    <2> QED BY <1>4, <2>1, EmptySeq
<1>idle. (/\ ToggleTypeOK /\ Idle /\ queue[None] = <<>> /\ NewsIsNew
          /\ screen # NoView => user # None /\ TitleIsTrue
          => Calm)'
    BY CalmIdle, PTL
<1> QED BY <1>1, <1>3, <1>5, <1>6, <1>7, <1>idle

(* and what the client does in the background.                                *)
LEMMA CalmBackground ==
    ASSUME OneAccount, ToggleIInv, ToggleIInv', setting = "calm", Calm,
           \/ /\ Commit \/ HandleSuccessfulWrite \/ SendSnapshot \/ ApplyRemoteEvent \/ Connect
              /\ UNCHANGED viewVars
           \/ \E q \in QueryIds : ServeQuery(q)
           \/ ToggleLoseConnection
           \/ UNCHANGED allVars
    PROVE  Calm'
<1>1. /\ ToggleTypeOK /\ ToggleTypeOK' /\ StoreTypes /\ user \in Users /\ StorePart
      /\ queries \in AllQueries /\ ResultsMatch /\ BehindServer /\ DocumentsHaveAuthors
      /\ CallersOfSets /\ mainQueue \in Seq(Waiting)
    BY StorePartHolds DEF ToggleIInv, ToggleTypeOK, StoreTypes, AllQueries, Waiting
<1>2. OneAtATime /\ NobodyWaits /\ NewsIsNew /\ TidingsAreTrue
    BY DEF Calm
<1>3. \A u \in Users : Len(queue[u]) \in Nat
    BY <1>1, QueueTypes
<1>4. \A d \in Docs : /\ cache[d] \in Nat /\ Len(server[d]) \in Nat /\ watch[d] \in Nat
                      /\ cache[d] <= Len(server[d]) /\ watch[d] <= Len(server[d])
    BY <1>1, LenProperties DEF StoreTypes, BehindServer
<1>5. ASSUME UNCHANGED viewVars \/ AskAgain \/ \E q \in QueryIds : ServeQuery(q) PROVE SameQueries
    BY <1>1, <1>5, ServeFacts, AskAgainFacts DEF viewVars, SameQueries
<1>6. ASSUME UNCHANGED <<user, queue, mainQueue, screen, title>>, SameQueries, NewsIsNew',
             \A d \in Docs : user \in Accounts => (Visible(d)' <=> Visible(d))
      PROVE  Calm'
    <2> DEFINE gone == [u \in Users |-> 0]
    <2>1. gone \in [Users -> {0, 1}] /\ \A u \in Users : gone[u] = 0
        OBVIOUS
    <2> HIDE DEF gone
    <2>2. \A u \in Users :
              /\ Len(queue[u]) \in Nat
              /\ \A i \in 1 .. Len(queue'[u]) :
                    /\ i + gone[u] \in 1 .. Len(queue[u])
                    /\ queue'[u][i].caller = queue[u][i + gone[u]].caller
              /\ \A i \in 1 .. Len(queue[u]) : queue[u][i].caller # NoCaller =>
                    i - gone[u] \in 1 .. Len(queue'[u])
        BY <1>3, <1>6, <2>1
    <2>3. queue'[None] = <<>>
        BY <1>2, <1>6 DEF NobodyWaits
    <2> QED BY <1>1, <1>6, <2>1, <2>2, <2>3, CalmKept
<1>7. ASSUME UNCHANGED <<user, queue, mainQueue, server, screen, title>>, SameQueries,
             results' = <<>> \/ UNCHANGED results, cache' \in [Docs -> Nat],
             \A d \in Docs : cache'[d] <= Len(server[d]) /\ cache'[d] >= cache[d]
      PROVE  Calm'
    <2>1. NewsIsNew'
        BY <1>1, <1>2, <1>7, NewsKept
    <2>2. \A d \in Docs : user \in Accounts => (Visible(d)' <=> Visible(d))
        BY <1>1, <1>2, <1>7, SeenKept
    <2> QED BY <1>6, <1>7, <2>1, <2>2
<1>8. ASSUME cache' = cache
      PROVE  /\ cache' \in [Docs -> Nat]
             /\ \A d \in Docs : cache'[d] <= Len(server[d]) /\ cache'[d] >= cache[d]
    BY <1>1, <1>4, <1>8 DEF StoreTypes
<1>9. CASE (SendSnapshot \/ Connect) /\ UNCHANGED viewVars
    BY <1>5, <1>7, <1>8, <1>9 DEF SendSnapshot, Connect, viewVars
<1>10. ASSUME NEW q \in QueryIds, ServeQuery(q) PROVE Calm'
    BY <1>5, <1>7, <1>8, <1>10 DEF ServeQuery, vars
<1>11. CASE ToggleLoseConnection
    BY <1>5, <1>7, <1>8, <1>11 DEF ToggleLoseConnection, LoseConnection, DropStreams
<1>12. CASE ApplyRemoteEvent /\ UNCHANGED viewVars
    <2>1. cache' = [d \in Docs |-> IF watch[d] > cache[d] THEN watch[d] ELSE cache[d]]
        BY <1>12 DEF ApplyRemoteEvent
    <2>2. /\ cache' \in [Docs -> Nat]
          /\ \A d \in Docs : cache'[d] <= Len(server[d]) /\ cache'[d] >= cache[d]
        BY <1>4, <2>1
    <2> QED BY <1>5, <1>7, <1>12, <2>2 DEF ApplyRemoteEvent, viewVars
<1>13. CASE Commit /\ UNCHANGED viewVars
    <2>1. NewsIsNew' /\ Grows
        BY <1>1, <1>2, <1>13, NewsCommitted
    <2>2. UNCHANGED <<user, queue, cache, mainQueue, screen, title>> /\ SameQueries
        BY <1>5, <1>13 DEF Commit, viewVars
    <2>3. \A d \in Docs : Visible(d)' <=> Visible(d)
        BY <1>1, <2>1, <2>2, VisibleKept
    <2> QED BY <1>6, <2>1, <2>2, <2>3
<1>14. CASE HandleSuccessfulWrite /\ UNCHANGED viewVars
    <2> DEFINE m == queue[user][1]
    <2>1. /\ results # <<>> /\ RemoveBatch /\ NotifyUser(TRUE)
          /\ UNCHANGED <<user, screen, title, queries>>
        BY <1>14 DEF HandleSuccessfulWrite, viewVars
    <2>2. /\ NewsIsNew' /\ user \in Accounts /\ \A d \in Docs : Visible(d)' <=> Visible(d)
        BY <1>1, <1>2, <1>14, NewsWritten
    <2>3. /\ queue[user] # <<>> /\ 1 \in 1 .. Len(queue[user]) /\ Head(queue[user]) = m
        BY <1>1, <2>1, AnswerFacts
    <2>4. /\ \A u \in Users : u # user => queue'[u] = queue[u]
          /\ Len(queue'[user]) = Len(queue[user]) - 1
          /\ \A i \in 1 .. Len(queue'[user]) :
                i + 1 \in 1 .. Len(queue[user]) /\ queue'[user][i] = queue[user][i + 1]
        BY <1>1, <2>1, <2>3, RemoveFacts
    <2>5. user # None /\ queue'[None] = <<>>
        BY <1>1, <1>2, <2>2, <2>4, StoreAssumption DEF NobodyWaits, Users
    <2>6. CASE m.caller = NoCaller
        <3> DEFINE gone == [u \in Users |-> IF u = user THEN 1 ELSE 0]
        <3>1. gone \in [Users -> {0, 1}] /\ \A u \in Users : gone[u] = IF u = user THEN 1 ELSE 0
            OBVIOUS
        <3> HIDE DEF gone
        <3>2. ASSUME NEW u \in Users
              PROVE  /\ Len(queue[u]) \in Nat
                     /\ \A i \in 1 .. Len(queue'[u]) :
                           /\ i + gone[u] \in 1 .. Len(queue[u])
                           /\ queue'[u][i].caller = queue[u][i + gone[u]].caller
                     /\ \A i \in 1 .. Len(queue[u]) : queue[u][i].caller # NoCaller =>
                           i - gone[u] \in 1 .. Len(queue'[u])
            <4>1. CASE u # user
                BY <1>3, <2>4, <3>1, <4>1
            <4>2. CASE u = user
                <5>1. gone[u] = 1 /\ Len(queue[user]) \in Nat
                    BY <1>3, <3>1, <4>2
                <5>2. \A i \in 1 .. Len(queue[user]) : queue[user][i].caller # NoCaller =>
                          i - 1 \in 1 .. Len(queue'[user])
                    BY <2>4, <2>6, <5>1
                <5> QED BY <2>4, <4>2, <5>1, <5>2
            <4> QED BY <4>1, <4>2
        <3>3. mainQueue' = mainQueue
            BY <2>1, <2>3, <2>6 DEF NotifyUser
        <3>4. SameQueries
            BY <2>1 DEF SameQueries
        <3> QED BY <1>1, <2>1, <2>2, <2>5, <3>1, <3>2, <3>3, <3>4, CalmKept
    <2>7. CASE m.caller # NoCaller
        <3> DEFINE done == Done(m.caller, m.doc, TRUE)
        <3>1. 1 \in Calls(user)
            BY <2>3, <2>7 DEF Calls
        <3>2. /\ mainQueue = <<>> /\ \A q \in QueryIds : queries[q] = NoQuery
              /\ \A w \in Users : \A j \in Calls(w) : w = user /\ j = 1
            BY <1>1, <1>2, <3>1 DEF OneAtATime
        <3>3. mainQueue' = <<done>>
            <4>1. mainQueue' = Append(mainQueue, done)
                BY <2>1, <2>3, <2>7 DEF NotifyUser
            <4> HIDE DEF done
            <4>2. Append(<<>>, done) = <<done>>
                OBVIOUS
            <4> QED BY <3>2, <4>1, <4>2
        <3>4. /\ Len(mainQueue') = 1 /\ mainQueue'[1] = done
              /\ done.ok /\ done.caller = m.caller /\ done.kind = "written"
            BY <3>3 DEF Done
        <3>5. ASSUME NEW u \in Users, NEW i \in Calls(u)' PROVE FALSE
            <4>1. CASE u # user
                BY <2>4, <3>2, <3>5, <4>1 DEF Calls
            <4>2. CASE u = user
                <5>1. i \in 1 .. Len(queue'[user]) /\ queue'[user][i].caller # NoCaller
                    BY <3>5, <4>2 DEF Calls
                <5>2. i + 1 \in Calls(user)
                    BY <2>4, <5>1 DEF Calls
                <5>3. i + 1 = 1 /\ i >= 1 /\ i \in Int
                    BY <1>1, <3>2, <5>1, <5>2
                <5> QED BY <5>3
            <4> QED BY <4>1, <4>2
        <3>6. ASSUME screen # NoView PROVE TrueTiding(mainQueue[1])'
            <4>1. m.caller \in Views /\ ~Quiet(m.caller)
                BY <1>1, <3>1, UnderWay
            <4>2. m.caller = screen /\ Liked
                BY <1>1, <1>2, <3>1, <3>6, <4>1 DEF TidingsAreTrue
            <4>3. Liked'
                BY <2>2, <4>2 DEF Liked
            <4> QED BY <2>1, <3>4, <4>2, <4>3 DEF TrueTiding
        <3>7. OneTiding'
            BY <2>1, <3>2, <3>4, <3>5, <3>6 DEF OneTiding
        <3>8. (ToggleTypeOK /\ user # None /\ queue[None] = <<>> /\ NewsIsNew /\ OneTiding => Calm)'
            BY CalmTiding, PTL
        <3> QED BY <1>1, <2>1, <2>2, <2>5, <3>7, <3>8
    <2> QED BY <2>6, <2>7
<1>15. CASE UNCHANGED allVars
    BY <1>5, <1>7, <1>8, <1>15 DEF allVars, viewVars
<1> QED BY <1>9, <1>10, <1>11, <1>12, <1>13, <1>14, <1>15

LEMMA CalmInit == ToggleInit => CalmIInv
<1> SUFFICES ASSUME ToggleInit PROVE Calm
    BY CalmParts
<1>1. ToggleTypeOK
    BY ToggleInvInit DEF ToggleIInv
<1>2. /\ mainQueue = <<>> /\ results = <<>> /\ screen = NoView /\ queue = [u \in Users |-> <<>>]
      /\ cache = [d \in Docs |-> 0] /\ server = [d \in Docs |-> <<>>]
      /\ queries = [q \in QueryIds |-> NoQuery]
    BY DEF ToggleInit, Init
<1>3. Idle /\ queue[None] = <<>>
    BY <1>2 DEF Idle, Calls, Users
<1>4. NewsIsNew
    BY <1>2 DEF NewsIsNew
<1> QED BY <1>1, <1>2, <1>3, <1>4, CalmIdle

LEMMA CalmStep ==
    ASSUME OneAccount
    PROVE  ToggleIInv /\ ToggleIInv' /\ CalmIInv /\ [ToggleNext /\ UNCHANGED setting]_allVars
               => CalmIInv'
<1> SUFFICES ASSUME ToggleIInv, ToggleIInv', CalmIInv,
                    [ToggleNext /\ UNCHANGED setting]_allVars
             PROVE  CalmIInv'
    OBVIOUS
<1>1. setting' = setting
    BY DEF allVars
<1>2. (CalmIInv <=> (setting = "calm" => Calm))'
    BY CalmParts, PTL
<1> SUFFICES ASSUME setting = "calm" PROVE Calm'
    BY <1>1, <1>2
<1>3. Calm
    BY CalmParts
<1>4. setting # "rough"
    OBVIOUS
<1>5. ASSUME UNCHANGED allVars PROVE Calm'
    BY <1>3, <1>5, CalmBackground
<1>6. ~HandleRejectedWrite
    <2>1. NewsIsNew /\ StoreTypes /\ ResultsMatch
        BY <1>3 DEF Calm, ToggleIInv, ToggleTypeOK
    <2>2. results # <<>> => Head(results) = results[1] /\ 1 \in 1 .. Len(results)
        BY <2>1, AnswerFacts
    <2> QED BY <2>1, <2>2 DEF NewsIsNew, HandleRejectedWrite
<1>7. CASE ToggleNext
    BY <1>3, <1>4, <1>6, <1>7, CalmTouch, CalmClosure, CalmAnswer, CalmUser, CalmRestart,
       CalmBackground
    DEF ToggleNext, Answers
<1> QED BY <1>5, <1>7

(* A user who waits for his touches, alone with his account on a backend that *)
(* accepts his writes, is shown the truth, whatever connection and process do. *)
THEOREM TheTitleIsTrue == ASSUME OneAccount PROVE ToggleSpec => []TitleAgrees
<1>1. CalmIInv => TitleAgrees
    BY DEF CalmIInv, TitleAgrees
<1>2. ToggleSpec => []CalmIInv
    BY CalmInit, CalmStep, ToggleInvariant, PTL DEF ToggleSpec
<1> QED BY <1>1, <1>2, PTL
=============================================================================
