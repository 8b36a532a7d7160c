-------------------------- MODULE CloudStoreProofs --------------------------
(* Proofs of the safety properties of CloudStore, and that it implements      *)
(* DocumentLife, for every set of accounts, documents and callers and every   *)
(* bound.                                                                     *)
EXTENDS CloudStore, SequenceTheorems, FiniteSetTheorems, TLAPS

(* SetToSeq lists a finite set: in as many places as it has elements, each    *)
(* in some place.                                                             *)
LEMMA ListOfSet ==
    ASSUME NEW S, IsFiniteSet(S)
    PROVE  /\ SetToSeq(S) \in Seq(S)
           /\ Len(SetToSeq(S)) = Cardinality(S) /\ Cardinality(S) \in Nat
           /\ \A x \in S : \E i \in 1 .. Cardinality(S) : SetToSeq(S)[i] = x
<1> DEFINE n == Cardinality(S)
<1>1. n \in Nat /\ ExistsBijection(1 .. n, S)
    BY FS_CardinalityType
<1>2. PICK f \in [1 .. n -> S] : IsInjective(f)
    BY <1>1, Zenon DEF ExistsBijection, Bijection, Injection
<1>3. SetToSeq(S) \in [1 .. n -> S] /\ IsInjective(SetToSeq(S))
    BY <1>2, Zenon DEF SetToSeq
<1>4. SetToSeq(S) \in Seq(S) /\ Len(SetToSeq(S)) = n
    BY <1>1, <1>3, SeqDef
<1>5. SetToSeq(S) \in Injection(1 .. n, S)
    BY <1>3 DEF Injection
<1>6. SetToSeq(S) \in Surjection(1 .. n, S)
    <2>1. IsFiniteSet(1 .. n) /\ Cardinality(1 .. n) = n
        BY <1>1, FS_Interval
    <2> QED BY <1>1, <1>5, <2>1, FS_Injection
<1> QED BY <1>1, <1>4, <1>6 DEF Surjection

(* Two sequences joined.                                                       *)
LEMMA JoinFacts ==
    ASSUME NEW S, NEW s \in Seq(S), NEW t \in Seq(S)
    PROVE  /\ s \o t \in Seq(S)
           /\ Len(s) \in Nat /\ Len(t) \in Nat /\ Len(s \o t) = Len(s) + Len(t)
           /\ \A i \in 1 .. Len(s) : i \in 1 .. Len(s \o t) /\ (s \o t)[i] = s[i]
           /\ \A i \in 1 .. Len(t) :
                  Len(s) + i \in 1 .. Len(s \o t) /\ (s \o t)[Len(s) + i] = t[i]
           /\ \A i \in 1 .. Len(s \o t) :
                  \/ i \in 1 .. Len(s) /\ (s \o t)[i] = s[i]
                  \/ i - Len(s) \in 1 .. Len(t) /\ (s \o t)[i] = t[i - Len(s)]
<1>1. Len(s) \in Nat /\ Len(t) \in Nat
    BY LenProperties
<1>2. /\ s \o t \in Seq(S) /\ Len(s \o t) = Len(s) + Len(t)
      /\ \A i \in 1 .. Len(s) + Len(t) :
             (s \o t)[i] = IF i <= Len(s) THEN s[i] ELSE t[i - Len(s)]
    BY ConcatProperties
<1> QED BY <1>1, <1>2

(* The front of a sequence leaves it.                                          *)
LEMMA TailFacts ==
    ASSUME NEW S, NEW s \in Seq(S), s # <<>>
    PROVE  /\ Head(s) = s[1] /\ s[1] \in S /\ 1 \in 1 .. Len(s)
           /\ Tail(s) \in Seq(S) /\ Len(Tail(s)) \in Nat /\ Len(Tail(s)) = Len(s) - 1
           /\ \A k \in 1 .. Len(Tail(s)) :
                  k + 1 \in 1 .. Len(s) /\ Tail(s)[k] = s[k + 1]
           /\ \A k \in 1 .. Len(s) :
                  k # 1 => k - 1 \in 1 .. Len(Tail(s)) /\ Tail(s)[k - 1] = s[k]
<1>1. Len(s) \in Nat /\ Len(s) # 0
    BY LenProperties, EmptySeq
<1>2. /\ Head(s) \in S /\ Tail(s) \in Seq(S)
      /\ Len(Tail(s)) = Len(s) - 1
      /\ \A k \in 1 .. Len(Tail(s)) : Tail(s)[k] = s[k + 1]
    BY HeadTailProperties
<1>3. Head(s) = s[1]
    OBVIOUS
<1>4. \A k \in 1 .. Len(Tail(s)) : k + 1 \in 1 .. Len(s) /\ Tail(s)[k] = s[k + 1]
    BY <1>1, <1>2
<1>5. ASSUME NEW k \in 1 .. Len(s), k # 1
      PROVE  k - 1 \in 1 .. Len(Tail(s)) /\ Tail(s)[k - 1] = s[k]
    <2>1. k - 1 \in 1 .. Len(Tail(s)) /\ (k - 1) + 1 = k
        BY <1>1, <1>2, <1>5
    <2> QED BY <1>2, <2>1
<1> QED BY <1>1, <1>2, <1>3, <1>4, <1>5


(* A write of a queue, as its parts.                                          *)
LEMMA QueueTypes ==
    ASSUME StoreTypes, NEW u \in Users
    PROVE  /\ queue[u] \in Seq(Mutation)
           /\ Len(queue[u]) \in Nat
           /\ queue[u] = <<>> <=> Len(queue[u]) = 0
           /\ \A i \in 1 .. Len(queue[u]) :
                 /\ queue[u][i] \in Mutation
                 /\ queue[u][i].op \in {"set", "delete"}
                 /\ queue[u][i].doc \in Docs
                 /\ queue[u][i].caller \in Callers \cup {NoCaller}
<1>1. queue[u] \in Seq(Mutation)
    BY DEF StoreTypes
<1>2. \A i \in 1 .. Len(queue[u]) : queue[u][i] \in Mutation
    BY <1>1, ElementOfSeq
<1> QED BY <1>1, <1>2, LenProperties, EmptySeq DEF Mutation

(* What happens to the queues: a write at the end of one, the front taken      *)
(* away, the closures forgotten.                                               *)
LEMMA WriteFacts ==
    ASSUME StoreTypes, NEW op \in {"set", "delete"}, NEW d \in Docs,
           NEW caller \in Callers \cup {NoCaller}, WriteMutations(op, d, caller)
    PROVE  /\ queue' \in [Users -> Seq(Mutation)]
           /\ \A u \in Users : u # user => queue'[u] = queue[u]
           /\ Len(queue'[user]) = Len(queue[user]) + 1
           /\ \A i \in 1 .. Len(queue[user]) : queue'[user][i] = queue[user][i]
           /\ queue'[user][Len(queue[user]) + 1] = [op |-> op, doc |-> d, caller |-> caller]
<1>1. user \in Users /\ queue \in [Users -> Seq(Mutation)]
    BY DEF StoreTypes
<1>2. [op |-> op, doc |-> d, caller |-> caller] \in Mutation
    BY DEF Mutation
<1>3. queue' = [queue EXCEPT ![user] =
                   Append(queue[user], [op |-> op, doc |-> d, caller |-> caller])]
    BY DEF WriteMutations
<1> QED BY <1>1, <1>2, <1>3, AppendProperties

LEMMA RemoveFacts ==
    ASSUME StoreTypes, queue[user] # <<>>, RemoveBatch
    PROVE  /\ queue' \in [Users -> Seq(Mutation)]
           /\ \A u \in Users : u # user => queue'[u] = queue[u]
           /\ Head(queue[user]) = queue[user][1]
           /\ 1 \in 1 .. Len(queue[user])
           /\ Len(queue'[user]) = Len(queue[user]) - 1
           /\ \A i \in 1 .. Len(queue'[user]) :
                 /\ i + 1 \in 1 .. Len(queue[user])
                 /\ queue'[user][i] = queue[user][i + 1]
<1>1. user \in Users /\ queue \in [Users -> Seq(Mutation)] /\ queue[user] \in Seq(Mutation)
    BY DEF StoreTypes
<1>2. queue' = [queue EXCEPT ![user] = Tail(queue[user])]
    BY DEF RemoveBatch
<1>3. /\ Tail(queue[user]) \in Seq(Mutation)
      /\ Len(Tail(queue[user])) = Len(queue[user]) - 1
      /\ \A i \in 1 .. Len(Tail(queue[user])) : Tail(queue[user])[i] = queue[user][i + 1]
    BY <1>1, HeadTailProperties
<1>4. Len(queue[user]) \in Nat /\ Len(queue[user]) # 0
    BY <1>1, LenProperties, EmptySeq
<1>5. Head(queue[user]) = queue[user][1]
    OBVIOUS
<1>6. /\ queue' \in [Users -> Seq(Mutation)]
      /\ \A u \in Users : u # user => queue'[u] = queue[u]
      /\ queue'[user] = Tail(queue[user])
    BY <1>1, <1>2, <1>3
<1> QED BY <1>3, <1>4, <1>5, <1>6

LEMMA RestartFacts ==
    ASSUME StoreTypes, Restart
    PROVE  /\ queue' \in [Users -> Seq(Mutation)]
           /\ \A u \in Users :
                 /\ Len(queue'[u]) = Len(queue[u])
                 /\ \A i \in 1 .. Len(queue[u]) :
                       /\ queue'[u][i].op = queue[u][i].op
                       /\ queue'[u][i].doc = queue[u][i].doc
                       /\ queue'[u][i].caller = NoCaller
<1>1. \A m \in Mutation : /\ Forget(m) \in Mutation
                          /\ Forget(m).op = m.op /\ Forget(m).doc = m.doc
                          /\ Forget(m).caller = NoCaller
    BY DEF Forget, Mutation
<1>2. ASSUME NEW u \in Users
      PROVE  /\ queue'[u] \in Seq(Mutation)
             /\ Len(queue'[u]) = Len(queue[u])
             /\ \A i \in 1 .. Len(queue[u]) : queue'[u][i] = Forget(queue[u][i])
    <2>1. /\ Len(queue[u]) \in Nat
          /\ \A i \in 1 .. Len(queue[u]) : Forget(queue[u][i]) \in Mutation
        BY <1>1, QueueTypes
    <2>2. queue'[u] = [i \in 1 .. Len(queue[u]) |-> Forget(queue[u][i])]
        BY DEF Restart
    <2> QED BY <2>1, <2>2
<1>3. queue' \in [Users -> Seq(Mutation)]
    BY <1>2 DEF Restart
<1> QED BY <1>1, <1>2, <1>3, QueueTypes

(* What a completion for the front of the queue does to the main queue.        *)
LEMMA NotifyFacts ==
    ASSUME StoreTypes, NEW S, Completion \subseteq S, mainQueue \in Seq(S),
           queue[user] # <<>>, NEW ok \in BOOLEAN, NotifyUser(ok)
    PROVE  /\ mainQueue' \in Seq(S)
           /\ \/ mainQueue' = mainQueue
              \/ /\ queue[user][1].caller # NoCaller
                 /\ Len(mainQueue') = Len(mainQueue) + 1
                 /\ \A k \in 1 .. Len(mainQueue) : mainQueue'[k] = mainQueue[k]
                 /\ mainQueue'[Len(mainQueue) + 1] =
                        Done(queue[user][1].caller, queue[user][1].doc, ok)
<1>1. user \in Users
    BY DEF StoreTypes
<1>2. Head(queue[user]) = queue[user][1] /\ 1 \in 1 .. Len(queue[user])
    BY <1>1, QueueTypes
<1>3. CASE queue[user][1].caller = NoCaller
    BY <1>1, <1>2, <1>3 DEF NotifyUser
<1>4. CASE queue[user][1].caller # NoCaller
    <2>1. Done(queue[user][1].caller, queue[user][1].doc, ok) \in S
        <3>1. /\ queue[user][1].caller \in Callers
              /\ queue[user][1].doc \in Docs
            BY <1>1, <1>2, <1>4, QueueTypes
        <3>2. Done(queue[user][1].caller, queue[user][1].doc, ok) \in Completion
            BY <3>1 DEF Done, Completion
        <3> QED BY <3>2
    <2>2. mainQueue' = Append(mainQueue, Done(queue[user][1].caller, queue[user][1].doc, ok))
        BY <1>2, <1>4 DEF NotifyUser
    <2> QED BY <1>1, <1>4, <2>1, <2>2, AppendProperties
<1> QED BY <1>3, <1>4

(* The backend's histories are only added to.                                  *)
Grows ==
    \A d \in Docs :
        /\ Len(server'[d]) >= Len(server[d])
        /\ \A v \in 1 .. Len(server[d]) : server'[d][v] = server[d][v]

Histories == [Docs -> Seq({"present", "gone"})]

LEMMA AppendHistory ==
    ASSUME server \in Histories, NEW d \in Docs, NEW what \in {"present", "gone"},
           server' = [server EXCEPT ![d] = Append(@, what)]
    PROVE  /\ server' \in Histories
           /\ Grows
           /\ Len(server'[d]) = Len(server[d]) + 1
           /\ server'[d][Len(server[d]) + 1] = what
           /\ \A e \in Docs : e # d => server'[e] = server[e]
BY AppendProperties, LenProperties DEF Grows, Histories

LEMMA CommitFacts ==
    ASSUME StoreTypes, NEW m \in Mutation, server' = Committed(m)
    PROVE  /\ server' \in Histories
           /\ Grows
           /\ Len(server'[m.doc]) \in Nat \ {0}
           /\ server'[m.doc][Len(server'[m.doc])] = Wanted(m)
           /\ \A e \in Docs : e # m.doc => server'[e] = server[e]
<1>1. m.doc \in Docs /\ Wanted(m) \in {"present", "gone"}
    BY DEF Mutation, Wanted
<1>2. server \in Histories /\ server[m.doc] \in Seq({"present", "gone"})
    BY <1>1 DEF StoreTypes, Histories
<1>3. Len(server[m.doc]) \in Nat /\ (server[m.doc] = <<>> <=> Len(server[m.doc]) = 0)
    BY <1>2, LenProperties, EmptySeq
<1>4. CASE server[m.doc] # <<>> /\ server[m.doc][Len(server[m.doc])] = Wanted(m)
    <2>1. server' = server
        BY <1>4 DEF Committed
    <2> QED BY <1>2, <1>3, <1>4, <2>1, LenProperties DEF Grows, Histories
<1>5. CASE ~(server[m.doc] # <<>> /\ server[m.doc][Len(server[m.doc])] = Wanted(m))
    <2>1. server' = [server EXCEPT ![m.doc] = Append(@, Wanted(m))]
        BY <1>5 DEF Committed
    <2>2. /\ server' \in Histories
          /\ Grows
          /\ Len(server'[m.doc]) = Len(server[m.doc]) + 1
          /\ server'[m.doc][Len(server[m.doc]) + 1] = Wanted(m)
          /\ \A e \in Docs : e # m.doc => server'[e] = server[e]
        BY <1>1, <1>2, <2>1, AppendHistory
    <2> QED BY <1>3, <2>2
<1> QED BY <1>4, <1>5

(* The front of the answers is for the front of the queue.                     *)
LEMMA AnswerFacts ==
    ASSUME StoreTypes, ResultsMatch, results # <<>>
    PROVE  /\ queue[user] # <<>>
           /\ 1 \in 1 .. Len(results) /\ 1 \in 1 .. Len(queue[user])
           /\ Head(results) = results[1] /\ results[1] \in Nat
           /\ Head(queue[user]) = queue[user][1]
           /\ Tail(results) \in Seq(Nat)
           /\ Len(Tail(results)) = Len(results) - 1
           /\ \A i \in 1 .. Len(Tail(results)) :
                 i + 1 \in 1 .. Len(results) /\ Tail(results)[i] = results[i + 1]
<1>1. user \in Users /\ results \in Seq(Nat)
    BY DEF StoreTypes
<1>2. Len(results) \in Nat /\ Len(results) # 0
    BY <1>1, LenProperties, EmptySeq
<1>3. /\ Tail(results) \in Seq(Nat)
      /\ Len(Tail(results)) = Len(results) - 1
      /\ \A i \in 1 .. Len(Tail(results)) : Tail(results)[i] = results[i + 1]
    BY <1>1, HeadTailProperties
<1>4. Len(queue[user]) \in Nat /\ Len(queue[user]) >= 1 /\ queue[user] # <<>>
    BY <1>1, <1>2, QueueTypes DEF ResultsMatch
<1>5. results[1] \in Nat
    BY <1>1, <1>2, ElementOfSeq
<1>6. Head(results) = results[1] /\ Head(queue[user]) = queue[user][1]
    OBVIOUS
<1> QED BY <1>2, <1>3, <1>4, <1>5, <1>6

LEMMA DropFacts ==
    ASSUME StoreTypes, DropStreams
    PROVE  /\ drops' \in 0 .. MaxDrops
           /\ online' = FALSE
           /\ results' = <<>> /\ results' \in Seq(Nat)
           /\ watch' = Nothing /\ watch' \in [Docs -> Nat]
BY StoreAssumption DEF StoreTypes, DropStreams, Nothing

-----------------------------------------------------------------------------
LEMMA TypeStep == StoreTypes /\ ResultsMatch /\ [Next]_vars => StoreTypes'
<1> SUFFICES ASSUME StoreTypes, ResultsMatch, [Next]_vars PROVE StoreTypes'
    OBVIOUS
<1>1. ASSUME NEW d \in Docs, NEW caller \in Callers, AddDocument(d, caller) PROVE StoreTypes'
    <2>1. queue' \in [Users -> Seq(Mutation)]
        BY <1>1, WriteFacts DEF AddDocument
    <2> QED BY <1>1, <2>1 DEF StoreTypes, AddDocument
<1>2. ASSUME NEW d \in Docs, DeleteDocument(d) PROVE StoreTypes'
    <2>1. queue' \in [Users -> Seq(Mutation)]
        BY <1>2, WriteFacts DEF DeleteDocument
    <2> QED BY <1>2, <2>1 DEF StoreTypes, DeleteDocument
<1>3. CASE RunCompletion
    BY <1>3 DEF StoreTypes, RunCompletion
<1>4. CASE Commit
    <2>1. Len(results) + 1 \in 1 .. Len(queue[user])
        BY <1>4, QueueTypes, LenProperties DEF StoreTypes, Commit
    <2>2. queue[user][Len(results) + 1] \in Mutation
        BY <2>1, QueueTypes DEF StoreTypes
    <2>3. PICK m \in Mutation : server' = Committed(m) /\ results' = Append(results, Len(server'[m.doc]))
        BY <1>4, <2>2 DEF Commit
    <2>4. server' \in Histories /\ Len(server'[m.doc]) \in Nat
        BY <2>3, CommitFacts
    <2>5. results' \in Seq(Nat)
        BY <2>3, <2>4, AppendProperties DEF StoreTypes
    <2> QED BY <1>4, <2>4, <2>5 DEF StoreTypes, Commit, Histories
<1>5. CASE Refuse
    <2>1. results' \in Seq(Nat)
        BY <1>5, AppendProperties DEF StoreTypes, Refuse, Refused
    <2> QED BY <1>5, <2>1 DEF StoreTypes, Refuse
<1>6. ASSUME NEW d \in Docs, OtherDevice(d) PROVE StoreTypes'
    <2>1. server' \in Histories
        <3>1. CASE author[d] = None /\ server' = [server EXCEPT ![d] = <<"present">>]
            BY <3>1 DEF StoreTypes, Histories
        <3>2. CASE server' = [server EXCEPT ![d] = Append(@, "gone")]
            BY <3>2, AppendHistory DEF StoreTypes, Histories
        <3> QED BY <1>6, <3>1, <3>2 DEF OtherDevice
    <2>2. author' \in [Docs -> Users \cup {Other}]
        BY <1>6 DEF StoreTypes, OtherDevice
    <2> QED BY <1>6, <2>1, <2>2 DEF StoreTypes, OtherDevice, Histories
<1>7. CASE SendSnapshot
    <2>1. watch' \in [Docs -> Nat]
        BY <1>7, LenProperties DEF StoreTypes, SendSnapshot
    <2> QED BY <1>7, <2>1 DEF StoreTypes, SendSnapshot
<1>8. CASE HandleSuccessfulWrite
    <2>1. queue' \in [Users -> Seq(Mutation)]
        BY <1>8, AnswerFacts, RemoveFacts DEF HandleSuccessfulWrite
    <2>2. cache' \in [Docs -> Nat] /\ results' \in Seq(Nat)
        BY <1>8, AnswerFacts DEF StoreTypes, HandleSuccessfulWrite, ApplyBatchResult
    <2> QED BY <1>8, <2>1, <2>2 DEF StoreTypes, HandleSuccessfulWrite
<1>9. CASE HandleRejectedWrite
    <2>1. queue' \in [Users -> Seq(Mutation)]
        BY <1>9, AnswerFacts, RemoveFacts DEF HandleRejectedWrite
    <2>2. Head(queue[user]).doc \in Docs
        BY <1>9, AnswerFacts, QueueTypes DEF StoreTypes, HandleRejectedWrite
    <2>3. refused' \subseteq Docs /\ results' \in Seq(Nat)
        BY <1>9, <2>2 DEF StoreTypes, HandleRejectedWrite
    <2> QED BY <1>9, <2>1, <2>3 DEF StoreTypes, HandleRejectedWrite
<1>10. CASE ApplyRemoteEvent
    <2>1. cache' \in [Docs -> Nat] /\ watch' \in [Docs -> Nat]
        BY <1>10 DEF StoreTypes, ApplyRemoteEvent, Nothing
    <2> QED BY <1>10, <2>1 DEF StoreTypes, ApplyRemoteEvent
<1>11. CASE Connect
    BY <1>11 DEF StoreTypes, Connect
<1>12. CASE LoseConnection
    BY <1>12, DropFacts DEF StoreTypes, LoseConnection
<1>13. ASSUME NEW u \in Users, HandleCredentialChange(u) PROVE StoreTypes'
    BY <1>13, DropFacts DEF StoreTypes, HandleCredentialChange
<1>14. CASE Restart
    <2>1. queue' \in [Users -> Seq(Mutation)]
        BY <1>14, RestartFacts
    <2>2. UNCHANGED <<user, cache, server, author, refused>>
        BY <1>14 DEF Restart
    <2>3. DropStreams
        BY <1>14 DEF Restart
    <2> QED BY <2>1, <2>2, <2>3, DropFacts DEF StoreTypes
<1>15. CASE UNCHANGED vars
    BY <1>15 DEF StoreTypes, vars
<1> QED BY <1>1, <1>2, <1>3, <1>4, <1>5, <1>6, <1>7, <1>8, <1>9, <1>10, <1>11, <1>12,
          <1>13, <1>14, <1>15 DEF Next

(* What waits for the main thread keeps its type, whatever else may wait there *)
(* beside completions.                                                         *)
LEMMA ClosuresStep ==
    ASSUME StoreTypes, ResultsMatch, [Next]_vars,
           NEW S, Completion \subseteq S, mainQueue \in Seq(S)
    PROVE  mainQueue' \in Seq(S)
<1>1. CASE HandleSuccessfulWrite
    <2>1. results # <<>> /\ NotifyUser(TRUE)
        BY <1>1 DEF HandleSuccessfulWrite
    <2> QED BY <2>1, AnswerFacts, NotifyFacts
<1>2. CASE HandleRejectedWrite
    <2>1. results # <<>> /\ NotifyUser(FALSE)
        BY <1>2 DEF HandleRejectedWrite
    <2> QED BY <2>1, AnswerFacts, NotifyFacts
<1>3. CASE RunCompletion
    BY <1>3, HeadTailProperties DEF RunCompletion
<1>4. CASE Restart
    BY <1>4 DEF Restart
<1>5. CASE UNCHANGED mainQueue
    BY <1>5
<1> QED BY <1>1, <1>2, <1>3, <1>4, <1>5 DEF Next, vars, AddDocument, DeleteDocument, Commit,
          Refuse, OtherDevice, SendSnapshot, ApplyRemoteEvent, Connect, LoseConnection,
          HandleCredentialChange

-----------------------------------------------------------------------------
(* No step rewrites the past of a document.                                    *)
LEMMA GrowsStep == StoreTypes /\ DocumentsHaveAuthors /\ [Next]_vars => Grows
<1> SUFFICES ASSUME StoreTypes, DocumentsHaveAuthors, [Next]_vars PROVE Grows
    OBVIOUS
<1>1. \A d \in Docs : Len(server[d]) \in Nat
    BY LenProperties DEF StoreTypes
<1>2. CASE Commit
    <2>1. Len(results) + 1 \in 1 .. Len(queue[user])
        BY <1>2, QueueTypes, LenProperties DEF StoreTypes, Commit
    <2>2. queue[user][Len(results) + 1] \in Mutation
        BY <2>1, QueueTypes DEF StoreTypes
    <2> QED BY <1>2, <2>2, CommitFacts DEF Commit
<1>3. ASSUME NEW d \in Docs, OtherDevice(d) PROVE Grows
    <2>1. CASE server' = [server EXCEPT ![d] = Append(@, "gone")]
        BY <2>1, AppendHistory DEF StoreTypes, Histories
    <2>2. CASE author[d] = None /\ server' = [server EXCEPT ![d] = <<"present">>]
        <3>1. server[d] = <<>> /\ Len(server[d]) = 0
            BY <2>2 DEF DocumentsHaveAuthors
        <3>2. Len(server'[d]) = 1 /\ \A e \in Docs : e # d => server'[e] = server[e]
            BY <2>2 DEF StoreTypes
        <3> QED BY <1>1, <3>1, <3>2 DEF Grows
    <2> QED BY <1>3, <2>1, <2>2 DEF OtherDevice
<1>4. CASE UNCHANGED server
    BY <1>1, <1>4 DEF Grows
<1> QED BY <1>2, <1>3, <1>4 DEF Next, vars, AddDocument, DeleteDocument, RunCompletion, Refuse,
          SendSnapshot, HandleSuccessfulWrite, HandleRejectedWrite, ApplyRemoteEvent, Connect,
          LoseConnection, HandleCredentialChange, Restart

(* A result that has come stays right while its write keeps its place.         *)
LEMMA ResultsKept ==
    ASSUME StoreTypes, ResultsMatch, Grows,
           NEW i \in 1 .. Len(results), results[i] # Refused
    PROVE  LET m == queue[user][i] IN
           /\ m.doc \in Docs
           /\ results[i] \in 1 .. Len(server[m.doc])
           /\ server[m.doc][results[i]] = Wanted(m)
           /\ results[i] <= Len(server'[m.doc])
           /\ server'[m.doc][results[i]] = Wanted(m)
<1>1. /\ user \in Users /\ results \in Seq(Nat) /\ Len(results) \in Nat
      /\ server \in [Docs -> Seq({"present", "gone"})]
    BY LenProperties DEF StoreTypes
<1>2. i \in 1 .. Len(queue[user]) /\ queue[user][i].doc \in Docs
    <2>1. Len(results) <= Len(queue[user])
        BY DEF ResultsMatch
    <2>2. Len(queue[user]) \in Nat
        BY <1>1, QueueTypes
    <2>3. i \in 1 .. Len(queue[user])
        BY <1>1, <2>1, <2>2
    <2> QED BY <1>1, <2>3, QueueTypes
<1>3. results[i] \in Nat /\ results[i] # 0
    BY <1>1, ElementOfSeq DEF Refused
<1>4. Len(server[queue[user][i].doc]) \in Nat
    BY <1>1, <1>2, LenProperties
<1>5. /\ results[i] <= Len(server[queue[user][i].doc])
      /\ server[queue[user][i].doc][results[i]] = Wanted(queue[user][i])
    BY DEF ResultsMatch
<1>6. results[i] \in 1 .. Len(server[queue[user][i].doc])
    BY <1>3, <1>4, <1>5
<1>7. /\ Len(server'[queue[user][i].doc]) >= Len(server[queue[user][i].doc])
      /\ server'[queue[user][i].doc][results[i]] = server[queue[user][i].doc][results[i]]
    BY <1>2, <1>6 DEF Grows
<1>8. results[i] <= Len(server'[queue[user][i].doc])
    BY <1>5, <1>7, <1>2, <1>4, <1>3
<1> QED BY <1>2, <1>5, <1>6, <1>7, <1>8

LEMMA ResultsStep ==
    StoreTypes /\ ResultsMatch /\ DocumentsHaveAuthors /\ [Next]_vars => ResultsMatch'
<1> SUFFICES ASSUME StoreTypes, ResultsMatch, DocumentsHaveAuthors, [Next]_vars
             PROVE  ResultsMatch'
    OBVIOUS
<1>1. Grows
    BY GrowsStep
<1>2. /\ user \in Users /\ results \in Seq(Nat) /\ Len(results) \in Nat
      /\ Len(queue[user]) \in Nat /\ Len(results) <= Len(queue[user])
    BY QueueTypes, LenProperties DEF StoreTypes, ResultsMatch
<1>3. ASSUME UNCHANGED <<user, results>>,
             Len(queue'[user]) \in Nat, Len(queue'[user]) >= Len(queue[user]),
             \A i \in 1 .. Len(queue[user]) :
                 queue'[user][i].doc = queue[user][i].doc /\ queue'[user][i].op = queue[user][i].op
      PROVE  ResultsMatch'
    <2>1. Len(results) <= Len(queue'[user])
        BY <1>2, <1>3
    <2>2. ASSUME NEW i \in 1 .. Len(results), results[i] # Refused
          PROVE  /\ results[i] <= Len(server'[queue'[user][i].doc])
                 /\ server'[queue'[user][i].doc][results[i]] = Wanted(queue'[user][i])
        <3>1. i \in 1 .. Len(queue[user])
            BY <1>2
        <3>2. queue'[user][i].doc = queue[user][i].doc /\ Wanted(queue'[user][i]) = Wanted(queue[user][i])
            BY <1>3, <3>1 DEF Wanted
        <3> QED BY <1>1, <2>2, <3>2, ResultsKept
    <2> QED BY <1>3, <2>1, <2>2 DEF ResultsMatch, Wanted
<1>4. ASSUME NEW op \in {"set", "delete"}, NEW d \in Docs, NEW caller \in Callers \cup {NoCaller},
             WriteMutations(op, d, caller), UNCHANGED <<user, results>>
      PROVE  ResultsMatch'
    <2>1. /\ Len(queue'[user]) = Len(queue[user]) + 1
          /\ \A i \in 1 .. Len(queue[user]) : queue'[user][i] = queue[user][i]
        BY <1>4, WriteFacts
    <2> QED BY <1>2, <1>3, <1>4, <2>1
<1>5. CASE Commit \/ Refuse
    <2>1. Len(results) + 1 \in 1 .. Len(queue[user]) /\ UNCHANGED <<user, queue>>
        BY <1>2, <1>5 DEF Commit, Refuse
    <2>2. queue[user][Len(results) + 1] \in Mutation
        BY <1>2, <2>1, QueueTypes
    <2>3. PICK v \in Nat :
              /\ results' = Append(results, v)
              /\ v # Refused =>
                    LET m == queue[user][Len(results) + 1] IN
                    v <= Len(server'[m.doc]) /\ server'[m.doc][v] = Wanted(m)
        <3>1. CASE Commit
            <4>1. PICK m \in Mutation : /\ m = queue[user][Len(results) + 1]
                                        /\ server' = Committed(m)
                                        /\ results' = Append(results, Len(server'[m.doc]))
                BY <2>2, <3>1 DEF Commit
            <4>2. Len(server'[m.doc]) \in Nat /\ server'[m.doc][Len(server'[m.doc])] = Wanted(m)
                BY <4>1, CommitFacts
            <4> DEFINE w == Len(server'[m.doc])
            <4>3. w \in Nat /\ results' = Append(results, w)
                BY <4>1, <4>2
            <4>4. w <= Len(server'[m.doc]) /\ server'[m.doc][w] = Wanted(m)
                BY <4>2
            <4> HIDE DEF w
            <4> QED BY <4>1, <4>3, <4>4
        <3>2. CASE Refuse
            BY <3>2 DEF Refuse, Refused
        <3> QED BY <1>5, <3>1, <3>2
    <2>4. /\ Len(results') = Len(results) + 1
          /\ \A i \in 1 .. Len(results) : results'[i] = results[i]
          /\ results'[Len(results) + 1] = v
        BY <1>2, <2>3, AppendProperties
    <2>5. ASSUME NEW i \in 1 .. Len(results'), results'[i] # Refused
          PROVE  /\ results'[i] <= Len(server'[queue[user][i].doc])
                 /\ server'[queue[user][i].doc][results'[i]] = Wanted(queue[user][i])
        <3>1. CASE i = Len(results) + 1
            BY <2>3, <2>4, <2>5, <3>1
        <3>2. CASE i \in 1 .. Len(results)
            BY <1>1, <2>4, <2>5, <3>2, ResultsKept
        <3> QED BY <1>2, <2>4, <3>1, <3>2
    <2>6. Len(results') <= Len(queue[user])
        BY <1>2, <2>1, <2>4
    <2> QED BY <2>1, <2>5, <2>6 DEF ResultsMatch, Wanted
<1>6. CASE HandleSuccessfulWrite
    <2>1. results # <<>> /\ RemoveBatch /\ results' = Tail(results) /\ UNCHANGED user
        BY <1>6 DEF HandleSuccessfulWrite
    <2>2. /\ Len(queue'[user]) = Len(queue[user]) - 1
          /\ \A i \in 1 .. Len(queue'[user]) : queue'[user][i] = queue[user][i + 1]
        BY <2>1, AnswerFacts, RemoveFacts
    <2>3. /\ Len(results') = Len(results) - 1
          /\ \A i \in 1 .. Len(results') :
                i + 1 \in 1 .. Len(results) /\ results'[i] = results[i + 1]
        BY <2>1, AnswerFacts
    <2>4. ASSUME NEW i \in 1 .. Len(results'), results'[i] # Refused
          PROVE  /\ results'[i] <= Len(server'[queue'[user][i].doc])
                 /\ server'[queue'[user][i].doc][results'[i]] = Wanted(queue'[user][i])
        <3>1. i + 1 \in 1 .. Len(results) /\ results[i + 1] # Refused
            BY <2>3, <2>4
        <3>2. queue'[user][i] = queue[user][i + 1]
            BY <1>2, <2>2, <2>3
        <3> QED BY <1>1, <2>3, <3>1, <3>2, ResultsKept
    <2>5. Len(results') <= Len(queue'[user])
        BY <1>2, <2>2, <2>3
    <2> QED BY <2>1, <2>4, <2>5 DEF ResultsMatch, Wanted
<1>7. CASE HandleRejectedWrite
    <2>1. results' = <<>> /\ user' = user /\ results # <<>> /\ RemoveBatch
        BY <1>7 DEF HandleRejectedWrite
    <2>2. Len(queue'[user]) \in Nat
        BY <1>2, <2>1, AnswerFacts, RemoveFacts, LenProperties
    <2> QED BY <2>1, <2>2 DEF ResultsMatch
<1>8. ASSUME DropStreams, queue' \in [Users -> Seq(Mutation)], user' \in Users PROVE ResultsMatch'
    <2>1. results' = <<>> /\ Len(queue'[user']) \in Nat
        BY <1>8, LenProperties DEF DropStreams
    <2> QED BY <2>1 DEF ResultsMatch
<1>9. CASE UNCHANGED <<user, queue, results>>
    BY <1>2, <1>3, <1>9
<1>10. CASE LoseConnection \/ Restart \/ \E u \in Users : HandleCredentialChange(u)
    <2>1. DropStreams /\ user' \in Users
        BY <1>2, <1>10 DEF LoseConnection, Restart, HandleCredentialChange
    <2>2. queue' \in [Users -> Seq(Mutation)]
        BY <1>10, RestartFacts DEF StoreTypes, LoseConnection, HandleCredentialChange
    <2> QED BY <1>8, <2>1, <2>2
<1>11. ASSUME NEW d \in Docs, NEW caller \in Callers, AddDocument(d, caller) PROVE ResultsMatch'
    BY <1>4, <1>11 DEF AddDocument
<1>12. ASSUME NEW d \in Docs, DeleteDocument(d) PROVE ResultsMatch'
    BY <1>4, <1>12 DEF DeleteDocument
<1> QED BY <1>5, <1>6, <1>7, <1>9, <1>10, <1>11, <1>12 DEF Next, vars, RunCompletion, OtherDevice,
          SendSnapshot, ApplyRemoteEvent, Connect

LEMMA StreamsStep ==
    StoreTypes /\ ResultsMatch /\ BehindServer /\ Streams /\ DocumentsHaveAuthors /\ [Next]_vars
        => BehindServer' /\ Streams'
<1> SUFFICES ASSUME StoreTypes, ResultsMatch, BehindServer, Streams, DocumentsHaveAuthors,
                    [Next]_vars
             PROVE  BehindServer' /\ Streams'
    OBVIOUS
<1>1. /\ Grows
      /\ \A d \in Docs : /\ cache[d] \in Nat /\ watch[d] \in Nat
                         /\ Len(server[d]) \in Nat /\ Len(server'[d]) \in Nat
                         /\ Len(server'[d]) >= Len(server[d])
    BY GrowsStep, TypeStep, LenProperties DEF StoreTypes, Grows
<1>2. ASSUME \A d \in Docs : cache'[d] = cache[d] \/ cache'[d] = watch[d],
             \A d \in Docs : watch'[d] \in {0, watch[d], Len(server[d])}
      PROVE  BehindServer'
    BY <1>1, <1>2 DEF BehindServer
<1>3. CASE HandleSuccessfulWrite
    <2>1. /\ results # <<>> /\ Head(results) # Refused
          /\ ApplyBatchResult(Head(queue[user]).doc, Head(results))
          /\ results' = Tail(results) /\ UNCHANGED <<online, watch, server>>
        BY <1>3 DEF HandleSuccessfulWrite
    <2>2. /\ 1 \in 1 .. Len(results) /\ Head(results) = results[1]
          /\ Head(queue[user]) = queue[user][1]
        BY <2>1, AnswerFacts
    <2>3. /\ queue[user][1].doc \in Docs
          /\ results[1] \in 1 .. Len(server[queue[user][1].doc])
        BY <1>1, <2>1, <2>2, ResultsKept
    <2>4. \A d \in Docs :
              \/ cache'[d] = cache[d]
              \/ d = queue[user][1].doc /\ cache'[d] = results[1]
        <3>1. cache \in [Docs -> Nat]
            BY DEF StoreTypes
        <3>2. cache' = cache \/ cache' = [cache EXCEPT ![Head(queue[user]).doc] = Head(results)]
            BY <2>1 DEF ApplyBatchResult
        <3> QED BY <2>2, <2>3, <3>1, <3>2
    <2>5. BehindServer'
        BY <1>1, <2>1, <2>3, <2>4 DEF BehindServer
    <2>6. online = TRUE
        BY <2>1 DEF Streams, StoreTypes
    <2> QED BY <2>1, <2>5, <2>6 DEF Streams
<1>4. CASE ApplyRemoteEvent
    <2>1. BehindServer'
        BY <1>2, <1>4 DEF ApplyRemoteEvent, Nothing
    <2>2. Streams'
        BY <1>4 DEF ApplyRemoteEvent, Streams
    <2> QED BY <2>1, <2>2
<1>5. CASE SendSnapshot
    <2>1. BehindServer'
        BY <1>2, <1>5 DEF SendSnapshot
    <2>2. Streams'
        BY <1>5 DEF SendSnapshot, Streams
    <2> QED BY <2>1, <2>2
<1>6. ASSUME DropStreams, UNCHANGED cache PROVE BehindServer' /\ Streams'
    BY <1>2, <1>6 DEF DropStreams, Streams, Nothing
<1>7. CASE LoseConnection \/ Restart \/ \E u \in Users : HandleCredentialChange(u)
    BY <1>6, <1>7 DEF LoseConnection, Restart, HandleCredentialChange
<1>8. ASSUME UNCHANGED <<cache, watch>> PROVE BehindServer'
    BY <1>2, <1>8
<1>9. CASE Commit \/ Refuse \/ HandleRejectedWrite
    <2>1. UNCHANGED <<cache, watch>> /\ online' = online
        BY <1>9 DEF Commit, Refuse, HandleRejectedWrite
    <2>2. online \/ results' = <<>>
        BY <1>9 DEF Commit, Refuse, HandleRejectedWrite
    <2> QED BY <1>8, <2>1, <2>2 DEF Streams
<1>10. CASE Connect
    BY <1>8, <1>10 DEF Connect, Streams
<1>11. CASE UNCHANGED <<cache, watch, online, results>>
    BY <1>8, <1>11 DEF Streams
<1> QED BY <1>3, <1>4, <1>5, <1>7, <1>9, <1>10, <1>11 DEF Next, vars, AddDocument,
          DeleteDocument, RunCompletion, OtherDevice

-----------------------------------------------------------------------------
(* Which creations wait, after each kind of change to the queues.              *)
LEMMA PendingAfterWrite ==
    ASSUME StoreTypes, NEW op \in {"set", "delete"}, NEW d \in Docs,
           NEW caller \in Callers \cup {NoCaller}, WriteMutations(op, d, caller),
           NEW u \in Users, NEW e \in Docs
    PROVE  SetPending(u, e)' <=> SetPending(u, e) \/ (op = "set" /\ e = d /\ u = user)
<1>1. user \in Users /\ Len(queue[user]) \in Nat
    BY QueueTypes DEF StoreTypes
<1>2. CASE u # user
    BY <1>2, WriteFacts DEF SetPending
<1>3. CASE u = user
    <2>1. /\ Len(queue'[user]) = Len(queue[user]) + 1
          /\ \A i \in 1 .. Len(queue[user]) : queue'[user][i] = queue[user][i]
          /\ queue'[user][Len(queue[user]) + 1].op = op
          /\ queue'[user][Len(queue[user]) + 1].doc = d
        <3>1. /\ Len(queue'[user]) = Len(queue[user]) + 1
              /\ \A i \in 1 .. Len(queue[user]) : queue'[user][i] = queue[user][i]
              /\ queue'[user][Len(queue[user]) + 1] = [op |-> op, doc |-> d, caller |-> caller]
            BY WriteFacts
        <3> QED BY <3>1
    <2>2. Len(queue[user]) + 1 \in 1 .. Len(queue'[user])
        BY <1>1, <2>1
    <2>3. SetPending(u, e) => SetPending(u, e)'
        BY <1>1, <1>3, <2>1 DEF SetPending
    <2>4. op = "set" /\ e = d => SetPending(u, e)'
        BY <1>3, <2>1, <2>2 DEF SetPending
    <2>5. ASSUME SetPending(u, e)' PROVE SetPending(u, e) \/ (op = "set" /\ e = d)
        <3>1. PICK i \in 1 .. Len(queue'[user]) : queue'[user][i].op = "set" /\ queue'[user][i].doc = e
            BY <1>3, <2>5 DEF SetPending
        <3>2. CASE i = Len(queue[user]) + 1
            BY <2>1, <3>1, <3>2
        <3>3. CASE i \in 1 .. Len(queue[user])
            BY <1>3, <2>1, <3>1, <3>3 DEF SetPending
        <3> QED BY <1>1, <2>1, <3>2, <3>3
    <2> QED BY <1>3, <2>3, <2>4, <2>5
<1> QED BY <1>2, <1>3

LEMMA PendingAfterRemove ==
    ASSUME StoreTypes, OneSetEach, queue[user] # <<>>, RemoveBatch,
           NEW u \in Users, NEW e \in Docs
    PROVE  SetPending(u, e)' <=>
               SetPending(u, e) /\ ~(queue[user][1].op = "set" /\ queue[user][1].doc = e)
<1>1. /\ user \in Users /\ Len(queue[user]) \in Nat
      /\ 1 \in 1 .. Len(queue[user])
      /\ Len(queue'[user]) = Len(queue[user]) - 1
      /\ \A i \in 1 .. Len(queue'[user]) :
            i + 1 \in 1 .. Len(queue[user]) /\ queue'[user][i] = queue[user][i + 1]
    BY QueueTypes, RemoveFacts DEF StoreTypes
<1>2. CASE u # user
    <2>1. queue'[u] = queue[u]
        BY <1>2, RemoveFacts
    <2>2. queue[user][1].op = "set" /\ queue[user][1].doc = e => ~SetPending(u, e)
        BY <1>1, <1>2 DEF SetPending, OneSetEach
    <2> QED BY <2>1, <2>2 DEF SetPending
<1>3. CASE u = user
    <2>1. ASSUME SetPending(u, e)'
          PROVE  SetPending(u, e) /\ ~(queue[user][1].op = "set" /\ queue[user][1].doc = e)
        <3>1. PICK i \in 1 .. Len(queue'[user]) : queue'[user][i].op = "set" /\ queue'[user][i].doc = e
            BY <1>3, <2>1 DEF SetPending
        <3>2. /\ i + 1 \in 1 .. Len(queue[user]) /\ i + 1 # 1
              /\ queue[user][i + 1].op = "set" /\ queue[user][i + 1].doc = e
            BY <1>1, <3>1
        <3> QED BY <1>1, <1>3, <3>2 DEF SetPending, OneSetEach
    <2>2. ASSUME SetPending(u, e), ~(queue[user][1].op = "set" /\ queue[user][1].doc = e)
          PROVE  SetPending(u, e)'
        <3>1. PICK i \in 1 .. Len(queue[user]) : queue[user][i].op = "set" /\ queue[user][i].doc = e
            BY <1>3, <2>2 DEF SetPending
        <3>2. i - 1 \in 1 .. Len(queue'[user]) /\ (i - 1) + 1 = i
            BY <1>1, <2>2, <3>1
        <3>3. queue'[user][i - 1] = queue[user][i]
            BY <1>1, <3>2
        <3> QED BY <1>3, <3>1, <3>2, <3>3 DEF SetPending
    <2> QED BY <2>1, <2>2
<1> QED BY <1>2, <1>3

LEMMA PendingAfterRestart ==
    ASSUME StoreTypes, Restart, NEW u \in Users, NEW e \in Docs
    PROVE  SetPending(u, e)' <=> SetPending(u, e)
BY RestartFacts DEF SetPending

-----------------------------------------------------------------------------
(* Who added a document is said once.                                          *)
LEMMA AuthorsStep ==
    ASSUME StoreTypes, [Next]_vars, NEW d \in Docs, author[d] # None
    PROVE  author'[d] = author[d]
BY DEF StoreTypes, Next, vars, AddDocument, DeleteDocument, RunCompletion, Commit, Refuse,
       OtherDevice, SendSnapshot, HandleSuccessfulWrite, HandleRejectedWrite,
       ApplyRemoteEvent, Connect, LoseConnection, HandleCredentialChange, Restart

LEMMA DocumentsStep ==
    StoreTypes /\ ResultsMatch /\ DocumentsHaveAuthors /\ OneSetEach /\ [Next]_vars
        => DocumentsHaveAuthors' /\ OneSetEach'
<1> SUFFICES ASSUME StoreTypes, ResultsMatch, DocumentsHaveAuthors, OneSetEach, [Next]_vars
             PROVE  DocumentsHaveAuthors' /\ OneSetEach'
    OBVIOUS
<1> DEFINE Entries(u) == 1 .. Len(queue[u])
           Kept ==
               \A u \in Users :
                   \E k \in {0, 1} :
                       \A i \in 1 .. Len(queue'[u]) :
                           /\ i + k \in Entries(u)
                           /\ queue'[u][i].op = queue[u][i + k].op
                           /\ queue'[u][i].doc = queue[u][i + k].doc
           Authored ==
               \A u \in Users : \A i \in 1 .. Len(queue'[u]) : author'[queue'[u][i].doc] # None
<1>1. /\ user \in Users
      /\ \A u \in Users : Len(queue[u]) \in Nat /\ \A i \in Entries(u) : queue[u][i].doc \in Docs
    BY QueueTypes DEF StoreTypes
<1>2. ASSUME Kept PROVE OneSetEach'
    <2>1. ASSUME NEW u \in Users, NEW i \in 1 .. Len(queue'[u]), queue'[u][i].op = "set"
          PROVE  /\ author'[queue'[u][i].doc] = u
                 /\ \A j \in 1 .. Len(queue'[u]) :
                        queue'[u][j].op = "set" /\ queue'[u][j].doc = queue'[u][i].doc => j = i
        <3>1. PICK k \in {0, 1} : \A j \in 1 .. Len(queue'[u]) :
                  /\ j + k \in Entries(u)
                  /\ queue'[u][j].op = queue[u][j + k].op
                  /\ queue'[u][j].doc = queue[u][j + k].doc
            BY <1>2
        <3>2. /\ queue[u][i + k].op = "set"
              /\ queue[u][i + k].doc \in Docs
              /\ author[queue[u][i + k].doc] = u
              /\ author[queue[u][i + k].doc] # None
            BY <1>1, <2>1, <3>1 DEF OneSetEach, DocumentsHaveAuthors
        <3>3. author'[queue'[u][i].doc] = u
            BY <2>1, <3>1, <3>2, AuthorsStep
        <3>4. ASSUME NEW j \in 1 .. Len(queue'[u]), queue'[u][j].op = "set",
                     queue'[u][j].doc = queue'[u][i].doc
              PROVE  j = i
            <4>1. /\ i + k \in 1 .. Len(queue[u]) /\ j + k \in 1 .. Len(queue[u])
                  /\ queue[u][i + k].op = "set" /\ queue[u][j + k].op = "set"
                  /\ queue[u][j + k].doc = queue[u][i + k].doc
                BY <2>1, <3>1, <3>4
            <4>2. j + k = i + k
                BY <4>1 DEF OneSetEach
            <4> QED BY <2>1, <3>1, <3>4, <4>2
        <3> QED BY <3>3, <3>4
    <2> QED BY <2>1 DEF OneSetEach
<1>3. ASSUME Kept PROVE Authored
    <2> SUFFICES ASSUME NEW u \in Users, NEW i \in 1 .. Len(queue'[u])
                 PROVE  author'[queue'[u][i].doc] # None
        OBVIOUS
    <2>1. PICK k \in {0, 1} : i + k \in Entries(u) /\ queue'[u][i].doc = queue[u][i + k].doc
        BY <1>3
    <2>2. queue[u][i + k].doc \in Docs
        BY <1>1, <2>1
    <2>3. author[queue[u][i + k].doc] # None
        BY <2>1 DEF DocumentsHaveAuthors
    <2>4. author'[queue[u][i + k].doc] = author[queue[u][i + k].doc]
        BY <2>2, <2>3, AuthorsStep
    <2> QED BY <2>1, <2>3, <2>4
<1>4. ASSUME NEW op \in {"set", "delete"}, NEW d \in Docs,
             NEW caller \in Callers \cup {NoCaller}, WriteMutations(op, d, caller),
             author'[d] # None,
             op = "set" => author[d] = None /\ author'[d] = user
      PROVE  OneSetEach' /\ Authored
    <2>1. ASSUME NEW u \in Users, NEW i \in 1 .. Len(queue'[u])
          PROVE  \/ /\ i \in Entries(u) /\ queue'[u][i] = queue[u][i]
                    /\ queue[u][i].doc \in Docs
                    /\ author'[queue[u][i].doc] = author[queue[u][i].doc]
                    /\ author[queue[u][i].doc] # None
                 \/ /\ u = user /\ i = Len(queue[u]) + 1
                    /\ queue'[u][i].op = op /\ queue'[u][i].doc = d
        <3>1. /\ \A v \in Users : v # user => queue'[v] = queue[v]
              /\ Len(queue'[user]) = Len(queue[user]) + 1
              /\ \A j \in 1 .. Len(queue[user]) : queue'[user][j] = queue[user][j]
              /\ queue'[user][Len(queue[user]) + 1] = [op |-> op, doc |-> d, caller |-> caller]
            BY <1>4, WriteFacts
        <3>2. CASE i \in Entries(u)
            <4>1. queue'[u][i] = queue[u][i]
                BY <3>1, <3>2
            <4> QED BY <1>1, <3>2, <4>1, AuthorsStep DEF DocumentsHaveAuthors
        <3>3. CASE i \notin Entries(u)
            BY <1>1, <2>1, <3>1, <3>3
        <3> QED BY <3>2, <3>3
    <2>2. Authored
        <3> SUFFICES ASSUME NEW u \in Users, NEW i \in 1 .. Len(queue'[u])
                     PROVE  author'[queue'[u][i].doc] # None
            OBVIOUS
        <3>1. CASE queue'[u][i] = queue[u][i] /\ author[queue[u][i].doc] # None
                   /\ author'[queue[u][i].doc] = author[queue[u][i].doc]
            BY <3>1
        <3>2. CASE queue'[u][i].doc = d
            BY <1>4, <3>2
        <3> QED BY <2>1, <3>1, <3>2
    <2>3. ASSUME NEW u \in Users, NEW i \in 1 .. Len(queue'[u]), queue'[u][i].op = "set"
          PROVE  author'[queue'[u][i].doc] = u
        BY <1>4, <2>1, <2>3 DEF OneSetEach
    <2>4. ASSUME NEW u \in Users, NEW i \in 1 .. Len(queue'[u]), NEW j \in 1 .. Len(queue'[u]),
                 queue'[u][i].op = "set", queue'[u][j].op = "set",
                 queue'[u][j].doc = queue'[u][i].doc
          PROVE  j = i
        <3>1. CASE i \in Entries(u) /\ j \in Entries(u)
                   /\ queue'[u][i] = queue[u][i] /\ queue'[u][j] = queue[u][j]
            BY <2>4, <3>1 DEF OneSetEach
        <3>2. CASE i = Len(queue[u]) + 1 /\ j = Len(queue[u]) + 1
            BY <3>2
        <3>3. ASSUME NEW k \in 1 .. Len(queue'[u]), queue'[u][k].op = "set", queue'[u][k].doc = d,
                     op = "set"
              PROVE  ~(queue'[u][k] = queue[u][k] /\ author[queue[u][k].doc] # None)
            BY <1>4, <3>3
        <3>4. CASE queue'[u][i].op = op /\ queue'[u][i].doc = d
            <4>1. op = "set" /\ queue'[u][j].doc = d
                BY <2>4, <3>4
            <4>2. j = Len(queue[u]) + 1
                BY <2>1, <2>4, <3>3, <4>1
            <4>3. i = Len(queue[u]) + 1
                BY <2>1, <2>4, <3>3, <3>4, <4>1
            <4> QED BY <4>2, <4>3
        <3>5. CASE queue'[u][j].op = op /\ queue'[u][j].doc = d
            <4>1. op = "set" /\ queue'[u][i].doc = d
                BY <2>4, <3>5
            <4>2. i = Len(queue[u]) + 1
                BY <2>1, <2>4, <3>3, <4>1
            <4>3. j = Len(queue[u]) + 1
                BY <2>1, <2>4, <3>3, <3>5, <4>1
            <4> QED BY <4>2, <4>3
        <3> QED BY <2>1, <3>1, <3>2, <3>4, <3>5
    <2> QED BY <2>2, <2>3, <2>4 DEF OneSetEach
<1>5. ASSUME NEW d \in Docs, NEW caller \in Callers, AddDocument(d, caller)
      PROVE  OneSetEach' /\ Authored
    <2>1. author[d] = None /\ author'[d] = user /\ user # None /\ WriteMutations("set", d, caller)
        BY <1>5 DEF AddDocument, StoreTypes
    <2> QED BY <1>4, <2>1
<1>6. ASSUME NEW d \in Docs, DeleteDocument(d)
      PROVE  OneSetEach' /\ Authored
    <2>1. author'[d] # None /\ WriteMutations("delete", d, NoCaller)
        BY <1>6 DEF DeleteDocument
    <2> QED BY <1>4, <2>1
<1>7. ASSUME HandleSuccessfulWrite \/ HandleRejectedWrite PROVE OneSetEach' /\ Authored
    <2>1. results # <<>> /\ RemoveBatch
        BY <1>7 DEF HandleSuccessfulWrite, HandleRejectedWrite
    <2>2. /\ \A u \in Users : u # user => queue'[u] = queue[u]
          /\ \A i \in 1 .. Len(queue'[user]) :
                i + 1 \in 1 .. Len(queue[user]) /\ queue'[user][i] = queue[user][i + 1]
        BY <2>1, AnswerFacts, RemoveFacts
    <2>3. ASSUME NEW u \in Users, u # user
          PROVE  \A i \in 1 .. Len(queue'[u]) :
                     /\ i + 0 \in Entries(u)
                     /\ queue'[u][i].op = queue[u][i + 0].op
                     /\ queue'[u][i].doc = queue[u][i + 0].doc
        BY <1>1, <2>2, <2>3
    <2>4. \A i \in 1 .. Len(queue'[user]) :
              /\ i + 1 \in Entries(user)
              /\ queue'[user][i].op = queue[user][i + 1].op
              /\ queue'[user][i].doc = queue[user][i + 1].doc
        BY <2>2
    <2>5. Kept
        BY <2>3, <2>4
    <2> QED BY <1>2, <1>3, <2>5
<1>8. ASSUME Restart PROVE OneSetEach' /\ Authored
    <2>1. Kept
        BY <1>1, <1>8, RestartFacts
    <2> QED BY <1>2, <1>3, <2>1
<1>9. ASSUME UNCHANGED queue PROVE OneSetEach' /\ Authored
    <2>1. Kept
        BY <1>1, <1>9
    <2> QED BY <1>2, <1>3, <2>1
<1>10. OneSetEach' /\ Authored
    BY <1>5, <1>6, <1>7, <1>8, <1>9 DEF Next, vars, RunCompletion, Commit, Refuse, OtherDevice,
       SendSnapshot, ApplyRemoteEvent, Connect, LoseConnection, HandleCredentialChange
<1>11. \A d \in Docs : server'[d] # <<>> => author'[d] # None
    <2>1. CASE Commit
        <3>1. Len(results) + 1 \in Entries(user)
            BY <1>1, <2>1, LenProperties DEF StoreTypes, Commit
        <3>2. PICK m \in Mutation : m = queue[user][Len(results) + 1] /\ server' = Committed(m)
            BY <1>1, <2>1, <3>1, QueueTypes DEF Commit
        <3>3. author[m.doc] # None
            BY <1>1, <3>1, <3>2 DEF DocumentsHaveAuthors
        <3>4. \A e \in Docs : e # m.doc => server'[e] = server[e]
            BY <3>2, CommitFacts
        <3> QED BY <3>3, <3>4, AuthorsStep DEF DocumentsHaveAuthors
    <2>2. ASSUME NEW d \in Docs, OtherDevice(d)
          PROVE  \A e \in Docs : server'[e] # <<>> => author'[e] # None
        <3>1. \A e \in Docs : e # d => server'[e] = server[e]
            BY <2>2 DEF OtherDevice, StoreTypes
        <3>2. CASE author' = [author EXCEPT ![d] = Other]
            BY <3>1, <3>2, AuthorsStep, StoreAssumption DEF DocumentsHaveAuthors, StoreTypes
        <3>3. CASE Exists(d)
            <4>1. server[d] # <<>>
                BY <3>3 DEF Exists, ExistsAt
            <4> QED BY <3>1, <4>1, AuthorsStep DEF DocumentsHaveAuthors
        <3> QED BY <2>2, <3>2, <3>3 DEF OtherDevice
    <2>3. CASE UNCHANGED server
        BY <2>3, AuthorsStep DEF DocumentsHaveAuthors
    <2> QED BY <2>1, <2>2, <2>3 DEF Next, vars, AddDocument, DeleteDocument, RunCompletion, Refuse,
          SendSnapshot, HandleSuccessfulWrite, HandleRejectedWrite, ApplyRemoteEvent, Connect,
          LoseConnection, HandleCredentialChange, Restart
<1> QED BY <1>10, <1>11 DEF DocumentsHaveAuthors

-----------------------------------------------------------------------------
(* Only what somebody added is in the local view.                             *)
LEMMA ExistingHasAuthor ==
    ASSUME StoreTypes, DocumentsHaveAuthors, NEW d \in Docs, NEW v \in Nat,
           v <= Len(server[d]), ExistsAt(d, v)
    PROVE  author[d] # None
<1>1. server[d] \in Seq({"present", "gone"}) /\ Len(server[d]) \in Nat
    BY LenProperties DEF StoreTypes
<1>2. Len(server[d]) # 0
    BY <1>1 DEF ExistsAt
<1>3. server[d] # <<>>
    BY <1>1, <1>2, EmptySeq
<1> QED BY <1>3 DEF DocumentsHaveAuthors

LEMMA VisibleHasAuthor ==
    ASSUME StoreTypes, BehindServer, DocumentsHaveAuthors, NEW d \in Docs, Visible(d)
    PROVE  author[d] # None
<1>1. user \in Users /\ cache[d] \in Nat
    BY DEF StoreTypes
<1>2. CASE Touches(user, d) = {}
    <2>1. ExistsAt(d, cache[d]) /\ cache[d] <= Len(server[d])
        BY <1>2 DEF Visible, VisibleTo, BehindServer
    <2> QED BY <1>1, <2>1, ExistingHasAuthor
<1>3. CASE Touches(user, d) # {}
    <2>1. PICK i \in 1 .. Len(queue[user]) : queue[user][i].doc = d
        BY <1>3 DEF Touches
    <2> QED BY <1>1, <2>1 DEF DocumentsHaveAuthors
<1> QED BY <1>2, <1>3

(* The local view hangs on the user, his queue and the cache alone: what the   *)
(* backend adds to a document leaves the version in the cache as it was.       *)
LEMMA VisibleKept ==
    ASSUME StoreTypes, BehindServer, Grows, UNCHANGED <<user, queue>>, NEW d \in Docs,
           Touches(user, d) # {} \/ cache'[d] = cache[d]
    PROVE  /\ Touches(user, d)' = Touches(user, d)
           /\ Visible(d)' <=> Visible(d)
<1>1. cache[d] \in Nat /\ Len(server[d]) \in Nat /\ cache[d] <= Len(server[d])
    BY LenProperties DEF StoreTypes, BehindServer
<1>2. cache[d] > 0 => server'[d][cache[d]] = server[d][cache[d]]
    BY <1>1 DEF Grows
<1>3. Touches(user, d)' = Touches(user, d)
    BY DEF Touches
<1>4. CASE Touches(user, d) = {}
    <2>1. (Visible(d)' <=> ExistsAt(d, cache[d])') /\ (Visible(d) <=> ExistsAt(d, cache[d]))
        BY <1>3, <1>4 DEF Visible, VisibleTo
    <2>2. cache'[d] = cache[d]
        BY <1>4
    <2>3. ExistsAt(d, cache[d])' <=> ExistsAt(d, cache[d])
        BY <1>2, <2>2 DEF ExistsAt
    <2> QED BY <1>3, <2>1, <2>3
<1>5. CASE Touches(user, d) # {}
    BY <1>3, <1>5 DEF Visible, VisibleTo, IsLast
<1> QED BY <1>4, <1>5

LEMMA StoredStays ==
    ASSUME StoreTypes, DocumentsHaveAuthors, ResultsMatch, [Next]_vars, NEW d \in Docs, server[d] # <<>>
    PROVE  server'[d] # <<>>
<1>1. server'[d] \in Seq({"present", "gone"}) /\ server[d] \in Seq({"present", "gone"})
    BY TypeStep DEF StoreTypes
<1>2. Len(server[d]) \in Nat /\ Len(server[d]) # 0
    BY <1>1, LenProperties, EmptySeq
<1>3. Len(server'[d]) >= Len(server[d])
    BY GrowsStep DEF Grows
<1> QED BY <1>1, <1>2, <1>3

Reports == CallersOfSets /\ SuccessMeansStored /\ ReportedOnce

(* What other closures may wait beside completions: they have another kind.    *)
Closures(S) == Completion \subseteq S /\ \A c \in S : c.kind = "written" => c \in Completion

LEMMA CompletionTypes ==
    ASSUME NEW S, Closures(S), mainQueue \in Seq(S)
    PROVE  /\ Len(mainQueue) \in Nat
           /\ \A k \in 1 .. Len(mainQueue) :
                 mainQueue[k].kind = "written" => mainQueue[k].doc \in Docs
<1>1. \A k \in 1 .. Len(mainQueue) : mainQueue[k] \in S
    BY ElementOfSeq
<1>2. \A k \in 1 .. Len(mainQueue) :
          mainQueue[k].kind = "written" => mainQueue[k] \in Completion
    BY <1>1 DEF Closures
<1> QED BY <1>2, LenProperties DEF Completion

(* The front of the queue leaves it, and its caller is told.                   *)
LEMMA ReportsAfterNotify ==
    ASSUME StoreTypes, NEW S, Closures(S), mainQueue \in Seq(S),
           ResultsMatch, OneSetEach, DocumentsHaveAuthors, Reports,
           results # <<>>, NEW ok \in BOOLEAN, NotifyUser(ok), RemoveBatch,
           UNCHANGED <<server, author>>,
           ok => server[queue[user][1].doc] # <<>>
    PROVE  Reports'
<1>1. /\ user \in Users /\ queue[user] # <<>> /\ 1 \in 1 .. Len(queue[user])
      /\ queue[user][1].doc \in Docs /\ queue[user][1].op \in {"set", "delete"}
    BY AnswerFacts, QueueTypes DEF StoreTypes
<1>2. \A u \in Users, e \in Docs :
          SetPending(u, e)' <=> SetPending(u, e) /\ ~(queue[user][1].op = "set" /\ queue[user][1].doc = e)
    BY <1>1, PendingAfterRemove
<1>3. \/ mainQueue' = mainQueue
      \/ /\ queue[user][1].caller # NoCaller
         /\ Len(mainQueue') = Len(mainQueue) + 1
         /\ \A k \in 1 .. Len(mainQueue) : mainQueue'[k] = mainQueue[k]
         /\ mainQueue'[Len(mainQueue) + 1] =
                Done(queue[user][1].caller, queue[user][1].doc, ok)
    BY <1>1, NotifyFacts DEF Closures
<1>4. \A u \in Users : \A i \in 1 .. Len(queue'[u]) :
          queue'[u][i].op = "delete" => queue'[u][i].caller = NoCaller
    <2>1. /\ \A u \in Users : u # user => queue'[u] = queue[u]
          /\ \A i \in 1 .. Len(queue'[user]) :
                i + 1 \in 1 .. Len(queue[user]) /\ queue'[user][i] = queue[user][i + 1]
        BY <1>1, RemoveFacts
    <2> QED BY <2>1 DEF Reports, CallersOfSets
<1>a. /\ Len(mainQueue) \in Nat
      /\ \A k \in 1 .. Len(mainQueue) :
            mainQueue[k].kind = "written" => mainQueue[k].doc \in Docs
    BY CompletionTypes
<1>5. CASE mainQueue' = mainQueue
    <2>1. CallersOfSets' /\ SuccessMeansStored'
        BY <1>4, <1>5 DEF Reports, CallersOfSets, SuccessMeansStored
    <2>2. ReportedOnce'
        BY <1>2, <1>5, <1>a DEF Reports, ReportedOnce
    <2> QED BY <2>1, <2>2 DEF Reports
<1>6. CASE /\ queue[user][1].caller # NoCaller
           /\ Len(mainQueue') = Len(mainQueue) + 1
           /\ \A k \in 1 .. Len(mainQueue) : mainQueue'[k] = mainQueue[k]
           /\ mainQueue'[Len(mainQueue) + 1] =
                  Done(queue[user][1].caller, queue[user][1].doc, ok)
    <2>1. queue[user][1].op = "set"
        BY <1>1, <1>6 DEF Reports, CallersOfSets
    <2>2. SetPending(user, queue[user][1].doc) /\ author[queue[user][1].doc] # None
        BY <1>1, <2>1 DEF SetPending, DocumentsHaveAuthors
    <2>3. \A k \in 1 .. Len(mainQueue') :
              \/ k \in 1 .. Len(mainQueue) /\ mainQueue'[k] = mainQueue[k]
              \/ /\ k = Len(mainQueue) + 1
                 /\ mainQueue'[k].kind = "written" /\ mainQueue'[k].ok = ok
                 /\ mainQueue'[k].doc = queue[user][1].doc
        BY <1>6, <1>a DEF Done
    <2>4. \A k \in 1 .. Len(mainQueue) :
              mainQueue[k].kind = "written" => mainQueue[k].doc # queue[user][1].doc
        BY <1>1, <2>2 DEF Reports, ReportedOnce
    <2>5. CallersOfSets'
        BY <1>4, <2>2, <2>3 DEF Reports, CallersOfSets
    <2>6. SuccessMeansStored'
        BY <2>3 DEF Reports, SuccessMeansStored
    <2>7. ASSUME NEW k \in 1 .. Len(mainQueue'), mainQueue'[k].kind = "written",
                 NEW u \in Users, NEW e \in Docs, e = mainQueue'[k].doc
          PROVE  ~SetPending(u, e)'
        <3>1. CASE k \in 1 .. Len(mainQueue) /\ mainQueue'[k] = mainQueue[k]
            BY <1>2, <2>7, <3>1 DEF Reports, ReportedOnce
        <3>2. CASE mainQueue'[k].doc = queue[user][1].doc
            BY <1>1, <1>2, <2>1, <2>7, <3>2
        <3> QED BY <2>3, <2>7, <3>1, <3>2
    <2>8. ASSUME NEW k \in 1 .. Len(mainQueue'), NEW l \in 1 .. Len(mainQueue'),
                 mainQueue'[k].kind = "written", mainQueue'[l].kind = "written",
                 mainQueue'[l].doc = mainQueue'[k].doc
          PROVE  l = k
        <3>1. CASE k \in 1 .. Len(mainQueue) /\ l \in 1 .. Len(mainQueue)
            BY <2>3, <2>8, <3>1, <1>6 DEF Reports, ReportedOnce
        <3>2. CASE k \notin 1 .. Len(mainQueue) \/ l \notin 1 .. Len(mainQueue)
            BY <2>3, <2>4, <2>8, <3>2
        <3> QED BY <3>1, <3>2
    <2>9. ReportedOnce'
        <3>1. \A k \in 1 .. Len(mainQueue') :
                  mainQueue'[k].kind = "written" => mainQueue'[k].doc \in Docs
            BY <1>1, <1>a, <2>3
        <3> QED BY <2>7, <2>8, <3>1 DEF ReportedOnce, SetPending
    <2> QED BY <2>5, <2>6, <2>9 DEF Reports
<1> QED BY <1>3, <1>5, <1>6

(* A step that leaves the waiting closures, or takes one away, or adds one     *)
(* that is no completion, and writes nothing that was written before.          *)
LEMMA ReportsKept ==
    ASSUME NEW S, Closures(S), mainQueue \in Seq(S), Reports,
           NEW k0 \in {0, 1}, Len(mainQueue') \in Nat,
           \A k \in 1 .. Len(mainQueue') :
               \/ mainQueue'[k].kind # "written"
               \/ k + k0 \in 1 .. Len(mainQueue) /\ mainQueue'[k] = mainQueue[k + k0],
           \A d \in Docs : author[d] # None => author'[d] # None,
           \A d \in Docs : server[d] # <<>> => server'[d] # <<>>,
           \A u \in Users : \A e \in Docs :
               SetPending(u, e)' => SetPending(u, e) \/ author[e] = None,
           \A u \in Users : \A i \in 1 .. Len(queue'[u]) :
               queue'[u][i].op = "delete" => queue'[u][i].caller = NoCaller
    PROVE  Reports'
<1> DEFINE Written(k) == mainQueue'[k].kind = "written"
<1>1. ASSUME NEW k \in 1 .. Len(mainQueue'), Written(k)
      PROVE  /\ k + k0 \in 1 .. Len(mainQueue) /\ mainQueue'[k] = mainQueue[k + k0]
             /\ mainQueue[k + k0].kind = "written" /\ mainQueue'[k].doc \in Docs
             /\ author[mainQueue'[k].doc] # None
    <2>1. k + k0 \in 1 .. Len(mainQueue) /\ mainQueue'[k] = mainQueue[k + k0]
        BY <1>1
    <2> QED BY <1>1, <2>1, CompletionTypes DEF Reports, CallersOfSets
<1>2. CallersOfSets'
    BY <1>1 DEF CallersOfSets
<1>3. SuccessMeansStored'
    <2> SUFFICES ASSUME NEW k \in 1 .. Len(mainQueue'), Written(k), mainQueue'[k].ok
                 PROVE  server'[mainQueue'[k].doc] # <<>>
        BY DEF SuccessMeansStored
    <2>1. server[mainQueue'[k].doc] # <<>>
        BY <1>1 DEF Reports, SuccessMeansStored
    <2> QED BY <1>1, <2>1
<1>4. ASSUME NEW k \in 1 .. Len(mainQueue'), Written(k), NEW u \in Users
      PROVE  ~SetPending(u, mainQueue[k].doc)'
    <2> DEFINE e == mainQueue'[k].doc
    <2>1. e \in Docs /\ author[e] # None
        BY <1>1, <1>4
    <2>2. ~SetPending(u, e)
        BY <1>1, <1>4 DEF Reports, ReportedOnce
    <2>3. SetPending(u, mainQueue[k].doc)' => \E i \in 1 .. Len(queue'[u]) :
              queue'[u][i].op = "set" /\ queue'[u][i].doc = e
        BY DEF SetPending
    <2>5. \A x \in Docs : SetPending(u, x)' => SetPending(u, x) \/ author[x] = None
        OBVIOUS
    <2>6. \A x \in Docs : (\E i \in 1 .. Len(queue'[u]) :
              queue'[u][i].op = "set" /\ queue'[u][i].doc = x) => SetPending(u, x) \/ author[x] = None
        BY <2>5 DEF SetPending
    <2> HIDE DEF e
    <2> QED BY <2>1, <2>2, <2>3, <2>6
<1>5. ASSUME NEW k \in 1 .. Len(mainQueue'), Written(k),
             NEW l \in 1 .. Len(mainQueue'), Written(l), mainQueue'[l].doc = mainQueue'[k].doc
      PROVE  l = k
    <2>1. /\ k + k0 \in 1 .. Len(mainQueue) /\ l + k0 \in 1 .. Len(mainQueue)
          /\ mainQueue[k + k0].kind = "written" /\ mainQueue[l + k0].kind = "written"
          /\ mainQueue[l + k0].doc = mainQueue[k + k0].doc
        BY <1>1, <1>5
    <2>2. l + k0 = k + k0
        BY <2>1 DEF Reports, ReportedOnce
    <2> QED BY <2>2
<1>6. ReportedOnce'
    BY <1>4, <1>5 DEF ReportedOnce
<1> QED BY <1>2, <1>3, <1>6 DEF Reports

LEMMA ReportsStep ==
    ASSUME NEW S, Closures(S), mainQueue \in Seq(S),
           StoreTypes, ResultsMatch, OneSetEach, DocumentsHaveAuthors, Reports, [Next]_vars
    PROVE  Reports'
<1>1. /\ user \in Users /\ Len(mainQueue) \in Nat
      /\ \A u \in Users : Len(queue[u]) \in Nat
    BY QueueTypes, CompletionTypes DEF StoreTypes
<1>2. /\ \A d \in Docs : author[d] # None => author'[d] # None
      /\ \A d \in Docs : server[d] # <<>> => server'[d] # <<>>
    BY AuthorsStep, StoredStays
<1>3. ASSUME mainQueue' = mainQueue,
             \A u \in Users : \A e \in Docs :
                 SetPending(u, e)' => SetPending(u, e) \/ author[e] = None,
             \A u \in Users : \A i \in 1 .. Len(queue'[u]) :
                 queue'[u][i].op = "delete" => queue'[u][i].caller = NoCaller
      PROVE  Reports'
    <2>1. \A k \in 1 .. Len(mainQueue') :
              k + 0 \in 1 .. Len(mainQueue) /\ mainQueue'[k] = mainQueue[k + 0]
        BY <1>1, <1>3
    <2>2. Len(mainQueue') \in Nat
        BY <1>1, <1>3
    <2> QED BY <1>2, <1>3, <2>1, <2>2, ReportsKept
<1>4. ASSUME NEW op \in {"set", "delete"}, NEW d \in Docs, NEW caller \in Callers \cup {NoCaller},
             WriteMutations(op, d, caller), mainQueue' = mainQueue,
             op = "set" => author[d] = None, op = "delete" => caller = NoCaller
      PROVE  Reports'
    <2>1. \A u \in Users : \A e \in Docs : SetPending(u, e)' => SetPending(u, e) \/ author[e] = None
        BY <1>4, PendingAfterWrite
    <2>2. /\ \A u \in Users : u # user => queue'[u] = queue[u]
          /\ Len(queue'[user]) = Len(queue[user]) + 1
          /\ \A i \in 1 .. Len(queue[user]) : queue'[user][i] = queue[user][i]
          /\ queue'[user][Len(queue[user]) + 1] = [op |-> op, doc |-> d, caller |-> caller]
        BY <1>4, WriteFacts
    <2>3. ASSUME NEW u \in Users, NEW i \in 1 .. Len(queue'[u]), queue'[u][i].op = "delete"
          PROVE  queue'[u][i].caller = NoCaller
        <3>1. CASE i \in 1 .. Len(queue[u])
            BY <2>2, <2>3, <3>1 DEF Reports, CallersOfSets
        <3>2. CASE u = user /\ i = Len(queue[user]) + 1
            BY <1>4, <2>2, <2>3, <3>2
        <3> QED BY <1>1, <2>2, <2>3, <3>1, <3>2
    <2> QED BY <1>3, <1>4, <2>1, <2>3
<1>5. ASSUME NEW d \in Docs, NEW caller \in Callers, AddDocument(d, caller) PROVE Reports'
    BY <1>4, <1>5 DEF AddDocument
<1>6. ASSUME NEW d \in Docs, DeleteDocument(d) PROVE Reports'
    BY <1>4, <1>6 DEF DeleteDocument
<1>7. CASE RunCompletion
    <2>1. /\ Len(mainQueue') \in Nat
          /\ \A k \in 1 .. Len(mainQueue') :
                k + 1 \in 1 .. Len(mainQueue) /\ mainQueue'[k] = mainQueue[k + 1]
        <3>1. mainQueue # <<>> /\ mainQueue' = Tail(mainQueue)
            BY <1>7 DEF RunCompletion
        <3> QED BY <1>1, <3>1, HeadTailProperties, EmptySeq
    <2>2. UNCHANGED queue
        BY <1>7 DEF RunCompletion
    <2>3. \A u \in Users : \A e \in Docs : SetPending(u, e)' => SetPending(u, e)
        BY <2>2 DEF SetPending
    <2>4. \A u \in Users : \A i \in 1 .. Len(queue'[u]) :
              queue'[u][i].op = "delete" => queue'[u][i].caller = NoCaller
        BY <2>2 DEF Reports, CallersOfSets
    <2> QED BY <1>2, <2>1, <2>3, <2>4, ReportsKept
<1>8. CASE HandleSuccessfulWrite
    <2>1. /\ results # <<>> /\ Head(results) # Refused /\ NotifyUser(TRUE) /\ RemoveBatch
          /\ UNCHANGED <<server, author>>
        BY <1>8 DEF HandleSuccessfulWrite
    <2>2. 1 \in 1 .. Len(results) /\ results[1] # Refused
        BY <2>1, AnswerFacts
    <2>3. results[1] \in 1 .. Len(server[queue[user][1].doc])
        BY <2>2, GrowsStep, ResultsKept
    <2>4. server[queue[user][1].doc] # <<>>
        BY <2>3
    <2> QED BY <2>1, <2>4, ReportsAfterNotify
<1>9. CASE HandleRejectedWrite
    BY <1>9, ReportsAfterNotify DEF HandleRejectedWrite
<1>10. CASE Restart
    <2>1. mainQueue' = <<>>
        BY <1>10 DEF Restart
    <2>2. CallersOfSets'
        BY <1>10, <2>1, RestartFacts DEF CallersOfSets
    <2> QED BY <2>1, <2>2 DEF Reports, SuccessMeansStored, ReportedOnce
<1>11. CASE UNCHANGED <<queue, mainQueue>>
    <2>1. \A u \in Users : \A e \in Docs : SetPending(u, e)' => SetPending(u, e)
        BY <1>11 DEF SetPending
    <2> QED BY <1>3, <1>11, <2>1 DEF Reports, CallersOfSets
<1> QED BY <1>5, <1>6, <1>7, <1>8, <1>9, <1>10, <1>11 DEF Next, vars, Commit, Refuse, OtherDevice,
          SendSnapshot, ApplyRemoteEvent, Connect, LoseConnection, HandleCredentialChange

-----------------------------------------------------------------------------
(* The write at the front of the queue, when it is answered.                   *)
LEMMA FrontFacts ==
    ASSUME StoreTypes, ResultsMatch, DocumentsHaveAuthors, [Next]_vars, results # <<>>
    PROVE  /\ user \in Users /\ queue[user] # <<>>
           /\ 1 \in 1 .. Len(queue[user]) /\ Head(queue[user]) = queue[user][1]
           /\ queue[user][1].doc \in Docs /\ queue[user][1].op \in {"set", "delete"}
           /\ Head(results) = results[1] /\ results[1] \in Nat
           /\ results[1] # Refused =>
                 LET d == queue[user][1].doc IN
                 /\ results[1] \in 1 .. Len(server[d])
                 /\ server[d][results[1]] = Wanted(queue[user][1])
                 /\ server[d] # <<>>
<1>1. /\ user \in Users /\ queue[user] # <<>>
      /\ 1 \in 1 .. Len(results) /\ 1 \in 1 .. Len(queue[user])
      /\ Head(queue[user]) = queue[user][1]
      /\ Head(results) = results[1] /\ results[1] \in Nat
    BY AnswerFacts DEF StoreTypes
<1>2. queue[user][1].doc \in Docs /\ queue[user][1].op \in {"set", "delete"}
    BY <1>1, QueueTypes
<1>3. results[1] # Refused =>
          /\ results[1] \in 1 .. Len(server[queue[user][1].doc])
          /\ server[queue[user][1].doc][results[1]] = Wanted(queue[user][1])
    BY <1>1, GrowsStep, ResultsKept
<1>4. results[1] # Refused => server[queue[user][1].doc] # <<>>
    BY <1>3
<1> QED BY <1>1, <1>2, <1>3, <1>4

LEMMA NothingLostStep ==
    StoreTypes /\ ResultsMatch /\ OneSetEach /\ DocumentsHaveAuthors /\ NothingLost /\ [Next]_vars
        => NothingLost'
<1> SUFFICES ASSUME StoreTypes, ResultsMatch, OneSetEach, DocumentsHaveAuthors, NothingLost,
                    [Next]_vars
             PROVE  NothingLost'
    OBVIOUS
<1> USE DEF Users
<1>1. ASSUME author' = author, refused \subseteq refused',
             \A u \in Users, e \in Docs :
                 SetPending(u, e) => SetPending(u, e)' \/ server'[e] # <<>> \/ e \in refused'
      PROVE  NothingLost'
    BY <1>1, StoredStays DEF NothingLost
<1>2. ASSUME NEW d \in Docs, NEW caller \in Callers, AddDocument(d, caller) PROVE NothingLost'
    <2>1. /\ author' = [author EXCEPT ![d] = user] /\ user \in Users
          /\ WriteMutations("set", d, caller) /\ UNCHANGED <<server, refused>>
        BY <1>2 DEF AddDocument, StoreTypes
    <2>2. \A u \in Users, e \in Docs :
              SetPending(u, e)' <=> SetPending(u, e) \/ (e = d /\ u = user)
        BY <2>1, PendingAfterWrite
    <2>3. \A e \in Docs : author'[e] = IF e = d THEN user ELSE author[e]
        BY <2>1 DEF StoreTypes
    <2> QED BY <2>1, <2>2, <2>3 DEF NothingLost
<1>3. ASSUME NEW d \in Docs, DeleteDocument(d) PROVE NothingLost'
    <2>1. WriteMutations("delete", d, NoCaller) /\ UNCHANGED <<author, server, refused>>
        BY <1>3 DEF DeleteDocument
    <2>2. \A u \in Users, e \in Docs : SetPending(u, e)' <=> SetPending(u, e)
        BY <2>1, PendingAfterWrite
    <2> QED BY <1>1, <2>1, <2>2
<1>4. CASE HandleSuccessfulWrite
    <2>1. /\ results # <<>> /\ Head(results) # Refused /\ RemoveBatch
          /\ UNCHANGED <<server, author, refused>>
        BY <1>4 DEF HandleSuccessfulWrite
    <2>2. \A u \in Users, e \in Docs : SetPending(u, e) => SetPending(u, e)' \/ server'[e] # <<>>
        BY <2>1, FrontFacts, PendingAfterRemove
    <2> QED BY <1>1, <2>1, <2>2
<1>5. CASE HandleRejectedWrite
    <2>1. /\ results # <<>> /\ RemoveBatch /\ UNCHANGED <<server, author>>
          /\ refused' = IF Head(queue[user]).op = "set"
                        THEN refused \cup {Head(queue[user]).doc} ELSE refused
        BY <1>5 DEF HandleRejectedWrite
    <2>2. \A u \in Users, e \in Docs : SetPending(u, e) => SetPending(u, e)' \/ e \in refused'
        BY <2>1, FrontFacts, PendingAfterRemove
    <2> QED BY <1>1, <2>1, <2>2
<1>6. CASE Restart
    <2>1. UNCHANGED <<server, author, refused>>
        BY <1>6 DEF Restart
    <2> QED BY <1>1, <1>6, <2>1, PendingAfterRestart
<1>7. ASSUME NEW d \in Docs, OtherDevice(d) PROVE NothingLost'
    <2>1. UNCHANGED <<queue, refused>>
        BY <1>7 DEF OtherDevice
    <2>2. \A e \in Docs : author'[e] = author[e] \/ author'[e] = Other
        BY <1>7 DEF OtherDevice, StoreTypes
    <2>3. \A u \in Users, e \in Docs : SetPending(u, e)' <=> SetPending(u, e)
        BY <2>1 DEF SetPending
    <2> QED BY <2>1, <2>2, <2>3, StoredStays, StoreAssumption DEF NothingLost
<1>8. CASE UNCHANGED <<queue, author, refused>>
    <2>1. \A u \in Users, e \in Docs : SetPending(u, e)' <=> SetPending(u, e)
        BY <1>8 DEF SetPending
    <2> QED BY <1>1, <1>8, <2>1
<1> QED BY <1>2, <1>3, <1>4, <1>5, <1>6, <1>7, <1>8 DEF Next, vars, RunCompletion, Commit, Refuse,
          SendSnapshot, ApplyRemoteEvent, Connect, LoseConnection, HandleCredentialChange

-----------------------------------------------------------------------------
LEMMA InvInit == Init => IInv
<1> SUFFICES ASSUME Init PROVE IInv
    OBVIOUS
<1>1. StoreTypes
    <2>1. user \in Users /\ online \in BOOLEAN /\ refused \subseteq Docs
        BY DEF Init
    <2>2. /\ queue \in [Users -> Seq(Mutation)] /\ results \in Seq(Nat)
          /\ server \in [Docs -> Seq({"present", "gone"})]
        BY DEF Init
    <2>3. cache \in [Docs -> Nat] /\ watch \in [Docs -> Nat] /\ drops \in 0 .. MaxDrops
        BY StoreAssumption DEF Init, Nothing
    <2>4. author \in [Docs -> Users \cup {Other}]
        BY DEF Init, Users
    <2> QED BY <2>1, <2>2, <2>3, <2>4 DEF StoreTypes
<1>2. \A u \in Users : queue[u] = <<>>
    BY DEF Init
<1>3. user \in Users /\ results = <<>> /\ mainQueue = <<>>
    BY DEF Init
<1>4. ResultsMatch /\ Streams
    BY <1>2, <1>3 DEF Init, ResultsMatch, Streams
<1>5. BehindServer
    BY DEF Init, BehindServer, Nothing
<1>6. OneSetEach /\ CallersOfSets /\ SuccessMeansStored /\ ReportedOnce
    BY <1>2, <1>3 DEF OneSetEach, CallersOfSets, SuccessMeansStored, ReportedOnce
<1>7. DocumentsHaveAuthors
    BY <1>2 DEF Init, DocumentsHaveAuthors
<1>8. NothingLost
    BY StoreAssumption DEF Init, NothingLost
<1>9. mainQueue \in Seq(Completion)
    BY <1>3
<1> QED BY <1>1, <1>4, <1>5, <1>6, <1>7, <1>8, <1>9 DEF IInv

LEMMA InvStep == IInv /\ [Next]_vars => IInv'
<1> SUFFICES ASSUME IInv, [Next]_vars PROVE IInv'
    OBVIOUS
<1>1. Closures(Completion)
    BY DEF Closures
<1>2. mainQueue' \in Seq(Completion)
    BY ClosuresStep DEF IInv
<1>3. Reports'
    BY <1>1, ReportsStep DEF IInv, Reports
<1> QED BY <1>2, <1>3, TypeStep, ResultsStep, StreamsStep, DocumentsStep, NothingLostStep
     DEF IInv, Reports

(* The inductive invariant holds in every reachable state: results fit the    *)
(* queue they are for, nothing the client knows is ahead of the backend, and   *)
(* each document is created by one write.                                      *)
THEOREM Invariant == Spec => []IInv
BY InvInit, InvStep, PTL DEF Spec

(* Every execution is well typed.                                              *)
THEOREM TypeCorrect == Spec => []TypeOK
<1>1. IInv => TypeOK
    BY DEF IInv, TypeOK
<1> QED BY <1>1, Invariant, PTL

(* No write is lost, whatever connections, users and the process do.           *)
THEOREM NothingIsLost == Spec => []NothingLost
BY Invariant, PTL DEF IInv

(* A success is only reported for what reached the backend.                    *)
THEOREM SuccessesAreStored == Spec => []SuccessMeansStored
BY Invariant, PTL DEF IInv

(* However often a write is sent, it is reported once.                         *)
THEOREM WritesAreReportedOnce == Spec => []ReportedOnce
BY Invariant, PTL DEF IInv

-----------------------------------------------------------------------------
(* Action properties                                                           *)

LEMMA NeverOlderStep ==
    IInv /\ [Next]_vars => [\A d \in Docs : cache'[d] >= cache[d]]_vars
<1> SUFFICES ASSUME IInv, [Next]_vars PROVE \A d \in Docs : cache'[d] >= cache[d]
    OBVIOUS
<1>1. cache \in [Docs -> Nat] /\ watch \in [Docs -> Nat]
    BY DEF IInv, StoreTypes
<1>2. CASE HandleSuccessfulWrite
    <2>1. /\ results # <<>> /\ ApplyBatchResult(Head(queue[user]).doc, Head(results))
        BY <1>2 DEF HandleSuccessfulWrite
    <2>2. Head(queue[user]).doc \in Docs /\ Head(results) \in Nat
        BY <2>1, FrontFacts DEF IInv
    <2>3. \/ cache' = cache
          \/ /\ cache[Head(queue[user]).doc] < Head(results)
             /\ cache' = [cache EXCEPT ![Head(queue[user]).doc] = Head(results)]
        BY <2>1 DEF ApplyBatchResult
    <2> QED BY <1>1, <2>2, <2>3
<1>3. CASE ApplyRemoteEvent
    BY <1>1, <1>3 DEF ApplyRemoteEvent
<1>4. CASE UNCHANGED cache
    BY <1>1, <1>4
<1> QED BY <1>2, <1>3, <1>4 DEF Next, vars, AddDocument, DeleteDocument, RunCompletion, Commit,
          Refuse, OtherDevice, SendSnapshot, HandleRejectedWrite, Connect, LoseConnection,
          HandleCredentialChange, Restart, DropStreams

(* What the client knows of a document is never replaced by older knowledge.   *)
THEOREM KnowledgeNeverAges == Spec => NeverOlder
<1>1. IInv /\ [Next]_vars => [\A d \in Docs : cache'[d] >= cache[d]]_vars
    BY NeverOlderStep
<1> QED BY <1>1, Invariant, PTL DEF Spec, NeverOlder

(* What the user sees of a document follows from the writes of it that wait.   *)
LEMMA VisibleAfterRemove ==
    ASSUME StoreTypes, queue[user] # <<>>, RemoveBatch, UNCHANGED user, NEW d \in Docs
    PROVE  \/ /\ Touches(user, d)' # {}
              /\ Visible(d)' <=> Visible(d)
           \/ /\ Touches(user, d)' = {}
              /\ d # queue[user][1].doc
              /\ Touches(user, d) = {}
           \/ /\ Touches(user, d)' = {}
              /\ d = queue[user][1].doc
              /\ Visible(d) <=> queue[user][1].op = "set"
<1>1. /\ user \in Users /\ Len(queue[user]) \in Nat /\ user' = user
      /\ 1 \in 1 .. Len(queue[user])
      /\ Len(queue'[user]) = Len(queue[user]) - 1
      /\ \A i \in 1 .. Len(queue'[user]) :
            i + 1 \in 1 .. Len(queue[user]) /\ queue'[user][i] = queue[user][i + 1]
    BY QueueTypes, RemoveFacts DEF StoreTypes
<1>2. \A i \in 1 .. Len(queue[user]) : i # 1 => i - 1 \in 1 .. Len(queue'[user]) /\ (i - 1) + 1 = i
    BY <1>1
<1>3. \A i \in Touches(user, d)' : i \in Int /\ i + 1 \in Touches(user, d)
    BY <1>1 DEF Touches
<1>4. \A i \in Touches(user, d) : i \in Int /\ (i # 1 => i - 1 \in Touches(user, d)')
    BY <1>1, <1>2 DEF Touches
<1>5. CASE Touches(user, d)' # {}
    <2>1. Touches(user, d) # {}
        BY <1>3, <1>5
    <2>2. ASSUME NEW i \in Touches(user, d)', IsLast(i, Touches(user, d)')
          PROVE  IsLast(i + 1, Touches(user, d))
        <3>1. i + 1 \in Touches(user, d)
            BY <1>3
        <3>2. ASSUME NEW j \in Touches(user, d) PROVE j <= i + 1
            <4>1. i \in Int /\ i >= 1
                BY <1>1 DEF Touches
            <4>2. CASE j = 1
                BY <4>1, <4>2
            <4>3. CASE j # 1
                <5>1. j \in Int /\ j - 1 \in Touches(user, d)'
                    BY <1>4, <4>3
                <5>2. j - 1 <= i
                    BY <2>2, <5>1 DEF IsLast
                <5> QED BY <4>1, <5>1, <5>2
            <4> QED BY <4>2, <4>3
        <3> QED BY <3>1, <3>2 DEF IsLast
    <2>3. ASSUME NEW i \in Touches(user, d), IsLast(i, Touches(user, d))
          PROVE  i # 1 /\ i - 1 \in Touches(user, d)' /\ IsLast(i - 1, Touches(user, d)')
        <3>a. \A j \in Touches(user, d)' : j >= 1
            BY <1>1 DEF Touches
        <3>1. PICK j \in Touches(user, d)' : j \in Int /\ j >= 1 /\ j + 1 \in Touches(user, d)
            BY <1>3, <1>5, <3>a
        <3>2. i \in Int /\ j + 1 <= i
            BY <1>4, <2>3, <3>1 DEF IsLast
        <3>3. i # 1 /\ i - 1 \in Touches(user, d)'
            BY <1>4, <3>1, <3>2
        <3>4. ASSUME NEW k \in Touches(user, d)' PROVE k <= i - 1
            <4>1. k \in Int /\ k + 1 <= i
                BY <1>3, <2>3 DEF IsLast
            <4> QED BY <3>2, <4>1
        <3> QED BY <3>3, <3>4 DEF IsLast
    <2>4. \A i \in Touches(user, d)' : queue'[user][i].op = queue[user][i + 1].op
        BY <1>1 DEF Touches
    <2>5. ASSUME NEW i \in Touches(user, d)', IsLast(i, Touches(user, d)'), queue'[user][i].op = "set"
          PROVE  \E j \in Touches(user, d) : IsLast(j, Touches(user, d)) /\ queue[user][j].op = "set"
        BY <1>3, <2>2, <2>4, <2>5
    <2>6. ASSUME NEW i \in Touches(user, d), IsLast(i, Touches(user, d)), queue[user][i].op = "set"
          PROVE  \E j \in Touches(user, d)' : IsLast(j, Touches(user, d)') /\ queue'[user][j].op = "set"
        <3>1. i - 1 \in Touches(user, d)' /\ IsLast(i - 1, Touches(user, d)') /\ (i - 1) + 1 = i
            BY <1>4, <2>3, <2>6
        <3> QED BY <2>4, <2>6, <3>1
    <2>7. Visible(d)' <=> \E i \in Touches(user, d)' : IsLast(i, Touches(user, d)') /\ queue'[user][i].op = "set"
        BY <1>1, <1>5 DEF Visible, VisibleTo
    <2>8. Visible(d) <=> \E i \in Touches(user, d) : IsLast(i, Touches(user, d)) /\ queue[user][i].op = "set"
        BY <2>1 DEF Visible, VisibleTo
    <2> QED BY <1>5, <2>5, <2>6, <2>7, <2>8
<1>6. CASE Touches(user, d)' = {} /\ d # queue[user][1].doc
    <2>1. 1 \notin Touches(user, d)
        BY <1>6 DEF Touches
    <2> QED BY <1>4, <1>6, <2>1
<1>7. CASE Touches(user, d)' = {} /\ d = queue[user][1].doc
    <2>1. 1 \in Touches(user, d)
        BY <1>1, <1>7 DEF Touches
    <2>2. \A i \in Touches(user, d) : i = 1
        BY <1>4, <1>7
    <2>3. IsLast(1, Touches(user, d))
        BY <2>1, <2>2 DEF IsLast
    <2>4. Visible(d) <=> queue[user][1].op = "set"
        BY <2>1, <2>2, <2>3 DEF Visible, VisibleTo
    <2> QED BY <1>7, <2>4
<1> QED BY <1>5, <1>6, <1>7

LEMMA NoFlickerStep ==
    IInv /\ [Next]_vars =>
        [HandleSuccessfulWrite =>
             \A d \in Docs : Visible(d)' # Visible(d) => cache[d] > Head(results)]_vars
<1> SUFFICES ASSUME IInv, [Next]_vars, HandleSuccessfulWrite, NEW d \in Docs,
                    ~(cache[d] > Head(results))
             PROVE  Visible(d)' <=> Visible(d)
    BY DEF Visible, VisibleTo, ExistsAt
<1>1. /\ results # <<>> /\ Head(results) # Refused /\ RemoveBatch
      /\ ApplyBatchResult(Head(queue[user]).doc, Head(results))
      /\ UNCHANGED <<user, server>>
    BY DEF HandleSuccessfulWrite
<1>2. /\ queue[user] # <<>> /\ Head(queue[user]) = queue[user][1]
      /\ queue[user][1].doc \in Docs /\ Head(results) = results[1]
      /\ results[1] \in 1 .. Len(server[queue[user][1].doc])
      /\ server[queue[user][1].doc][results[1]] = Wanted(queue[user][1])
    BY <1>1, FrontFacts DEF IInv
<1>3. /\ cache \in [Docs -> Nat]
      /\ cache' = IF cache[queue[user][1].doc] < results[1]
                  THEN [cache EXCEPT ![queue[user][1].doc] = results[1]] ELSE cache
    BY <1>1, <1>2 DEF IInv, StoreTypes, ApplyBatchResult
<1>4. \/ /\ Touches(user, d)' # {}
         /\ Visible(d)' <=> Visible(d)
      \/ /\ Touches(user, d)' = {}
         /\ d # queue[user][1].doc
         /\ Touches(user, d) = {}
      \/ /\ Touches(user, d)' = {}
         /\ d = queue[user][1].doc
         /\ Visible(d) <=> queue[user][1].op = "set"
    BY <1>1, <1>2, VisibleAfterRemove DEF IInv
<1>5. CASE Touches(user, d)' = {} /\ d # queue[user][1].doc /\ Touches(user, d) = {}
    <2>1. cache'[d] = cache[d] /\ server' = server /\ user' = user
        BY <1>1, <1>2, <1>3, <1>5
    <2>2. (Visible(d)' <=> ExistsAt(d, cache[d])') /\ (Visible(d) <=> ExistsAt(d, cache[d]))
        BY <1>5, <2>1 DEF Visible, VisibleTo
    <2>3. ExistsAt(d, cache[d])' <=> ExistsAt(d, cache[d])
        BY <2>1 DEF ExistsAt
    <2> QED BY <2>2, <2>3
<1>6. CASE /\ Touches(user, d)' = {} /\ d = queue[user][1].doc
           /\ Visible(d) <=> queue[user][1].op = "set"
    <2>1. cache'[d] = results[1] /\ server' = server /\ user' = user
        BY <1>1, <1>2, <1>3, <1>6
    <2>2. Visible(d)' <=> ExistsAt(d, cache[d])'
        BY <1>6, <2>1 DEF Visible, VisibleTo
    <2>3. ExistsAt(d, cache[d])' <=> queue[user][1].op = "set"
        BY <1>2, <1>6, <2>1 DEF ExistsAt, Wanted
    <2> QED BY <1>6, <2>2, <2>3
<1> QED BY <1>4, <1>5, <1>6

(* An acknowledgement changes nothing on screen, unless later news had come.   *)
THEOREM AcknowledgementsDoNotFlicker == Spec => NoFlicker
<1>1. IInv /\ [Next]_vars =>
          [HandleSuccessfulWrite =>
               \A d \in Docs : Visible(d)' # Visible(d) => cache[d] > Head(results)]_vars
    BY NoFlickerStep
<1> QED BY <1>1, Invariant, PTL DEF Spec, NoFlicker

-----------------------------------------------------------------------------
(* Refinement                                                                  *)

Stored == [d \in Docs |-> StoredAs(d)]

(* What waits and what is stored only change where their parts do.             *)
LEMMA MappedParts ==
    ASSUME StoreTypes, NEW d \in Docs
    PROVE  /\ UNCHANGED queue => UNCHANGED WaitingDocs
           /\ UNCHANGED server => UNCHANGED Stored
           /\ Stored = [e \in Docs |-> StoredAs(e)]
           /\ Stored' = [e \in Docs |-> StoredAs(e)']
           /\ \A u \in Users : SetPending(u, d) => d \in WaitingDocs
<1>1. UNCHANGED queue => UNCHANGED WaitingDocs
    BY DEF WaitingDocs, SetPending
<1>2. UNCHANGED server => UNCHANGED Stored
    BY DEF Stored, StoredAs
<1> QED BY <1>1, <1>2 DEF Stored, WaitingDocs

LEMMA StoredChange ==
    ASSUME StoreTypes, NEW d \in Docs, NEW what \in {"present", "gone"},
           server'[d] # <<>>, server'[d][Len(server'[d])] = what,
           \A e \in Docs : e # d => server'[e] = server[e]
    PROVE  Stored' = [Stored EXCEPT ![d] = what]
<1>1. StoredAs(d)' = what /\ \A e \in Docs : e # d => StoredAs(e)' = StoredAs(e)
    BY DEF StoredAs
<1> QED BY <1>1 DEF Stored

LEMMA LifeInitially == Init => Life!LifeInit
<1> SUFFICES ASSUME Init PROVE Life!LifeInit
    OBVIOUS
<1>1. WaitingDocs = {}
    BY DEF Init, WaitingDocs, SetPending
<1>2. [d \in Docs |-> StoredAs(d)] = [d \in Docs |-> "never"]
    BY DEF Init, StoredAs
<1> QED BY <1>1, <1>2 DEF Init, Life!LifeInit

LEMMA LifeAdds ==
    ASSUME IInv, NEW d \in Docs, NEW caller \in Callers, AddDocument(d, caller)
    PROVE  Life!Add(d)
<1>1. user \in Accounts /\ user \in Users
    BY DEF IInv, StoreTypes, AddDocument, Users
<1>2. \A u \in Users, e \in Docs :
          SetPending(u, e)' <=> SetPending(u, e) \/ (e = d /\ u = user)
    BY PendingAfterWrite DEF IInv, AddDocument
<1>3. WaitingDocs' = WaitingDocs \cup {d}
    BY <1>1, <1>2 DEF WaitingDocs
<1>4. UNCHANGED [e \in Docs |-> StoredAs(e)]
    BY DEF AddDocument, StoredAs
<1> QED BY <1>1, <1>3, <1>4 DEF AddDocument, Life!Add

(* A write that is committed, or committed again, was still waiting.           *)
LEMMA LifeCommits ==
    ASSUME IInv, Commit
    PROVE  \E d \in Docs : Life!Store(d) \/ Life!Delete(d)
<1> DEFINE m == queue[user][Len(results) + 1]
<1>1. /\ Len(results) + 1 \in 1 .. Len(queue[user]) /\ user \in Users
      /\ m \in Mutation /\ m.doc \in Docs /\ m.op \in {"set", "delete"}
    <2>1. user \in Users /\ Len(results) \in Nat /\ Len(queue[user]) \in Nat
        BY QueueTypes, LenProperties DEF IInv, StoreTypes
    <2>2. Len(results) + 1 \in 1 .. Len(queue[user])
        BY <2>1 DEF Commit
    <2> QED BY <2>1, <2>2, QueueTypes DEF IInv
<1>2. /\ server'[m.doc] # <<>> /\ server'[m.doc][Len(server'[m.doc])] = Wanted(m)
      /\ \A e \in Docs : e # m.doc => server'[e] = server[e]
    BY <1>1, CommitFacts, EmptySeq DEF IInv, Commit
<1>3. Stored' = [Stored EXCEPT ![m.doc] = Wanted(m)]
    BY <1>1, <1>2, StoredChange DEF IInv, Wanted
<1>4. UNCHANGED <<author, refused, WaitingDocs>>
    BY <1>1, MappedParts DEF IInv, Commit
<1>5. CASE m.op = "set"
    <2>1. m.doc \in WaitingDocs
        BY <1>1, <1>5 DEF WaitingDocs, SetPending
    <2>2. Stored' = [Stored EXCEPT ![m.doc] = "present"]
        BY <1>3, <1>5 DEF Wanted
    <2>3. Life!Store(m.doc)
        BY <1>4, <2>1, <2>2 DEF Life!Store, Stored
    <2> QED BY <1>1, <2>3
<1>6. CASE m.op = "delete"
    <2>1. author[m.doc] # None
        BY <1>1 DEF IInv, DocumentsHaveAuthors
    <2>2. Stored' = [Stored EXCEPT ![m.doc] = "gone"]
        BY <1>3, <1>6 DEF Wanted
    <2>3. Life!Delete(m.doc)
        BY <1>4, <2>1, <2>2 DEF Life!Delete, Stored
    <2> QED BY <1>1, <2>3
<1> QED BY <1>1, <1>5, <1>6

LEMMA LifeElsewhere ==
    ASSUME IInv, NEW d \in Docs, OtherDevice(d)
    PROVE  Life!AddElsewhere(d) \/ Life!Delete(d)
<1>1. UNCHANGED <<refused, WaitingDocs>> /\ server[d] \in Seq({"present", "gone"})
      /\ server \in [Docs -> Seq({"present", "gone"})]
    BY MappedParts DEF IInv, StoreTypes, OtherDevice
<1>2. CASE /\ author[d] = None
           /\ author' = [author EXCEPT ![d] = Other]
           /\ server' = [server EXCEPT ![d] = <<"present">>]
    <2>1. /\ server'[d] = <<"present">>
          /\ \A e \in Docs : e # d => server'[e] = server[e]
        BY <1>1, <1>2
    <2>2. server'[d] # <<>> /\ server'[d][Len(server'[d])] = "present"
        BY <2>1
    <2>3. Stored' = [Stored EXCEPT ![d] = "present"]
        BY <2>1, <2>2, StoredChange DEF IInv
    <2> QED BY <1>1, <1>2, <2>3 DEF Life!AddElsewhere, Stored
<1>3. CASE /\ Exists(d)
           /\ server' = [server EXCEPT ![d] = Append(@, "gone")]
           /\ UNCHANGED author
    <2>1. /\ server'[d] = Append(server[d], "gone")
          /\ \A e \in Docs : e # d => server'[e] = server[e]
        BY <1>1, <1>3
    <2>2. server'[d] # <<>> /\ server'[d][Len(server'[d])] = "gone"
        <3>1. /\ Len(server[d]) \in Nat
              /\ Append(server[d], "gone") \in Seq({"present", "gone"})
              /\ Len(Append(server[d], "gone")) = Len(server[d]) + 1
              /\ Append(server[d], "gone")[Len(server[d]) + 1] = "gone"
            BY <1>1, LenProperties, AppendProperties
        <3> QED BY <2>1, <3>1, EmptySeq
    <2>3. Stored' = [Stored EXCEPT ![d] = "gone"]
        BY <2>1, <2>2, StoredChange DEF IInv
    <2>4. author[d] # None
        BY <1>1, <1>3, EmptySeq DEF IInv, DocumentsHaveAuthors, Exists, ExistsAt
    <2> QED BY <1>1, <1>3, <2>3, <2>4 DEF Life!Delete, Stored
<1> QED BY <1>2, <1>3 DEF OtherDevice

(* The front of the queue is answered; only a set had the document waiting.    *)
LEMMA LifeAnswers ==
    ASSUME IInv, [Next]_vars, HandleSuccessfulWrite \/ HandleRejectedWrite
    PROVE  \/ \E d \in Docs : Life!Settle(d) \/ Life!Refuse(d)
           \/ UNCHANGED <<author, WaitingDocs, Stored, refused>>
<1> DEFINE m == queue[user][1]
<1>1. /\ results # <<>> /\ RemoveBatch /\ UNCHANGED <<author, Stored>>
      /\ HandleSuccessfulWrite => Head(results) # Refused /\ UNCHANGED refused
      /\ HandleRejectedWrite =>
             refused' = IF Head(queue[user]).op = "set"
                        THEN refused \cup {Head(queue[user]).doc} ELSE refused
    BY MappedParts DEF IInv, HandleSuccessfulWrite, HandleRejectedWrite, Stored, StoredAs
<1>2. /\ user \in Users /\ queue[user] # <<>> /\ 1 \in 1 .. Len(queue[user])
      /\ Head(queue[user]) = m /\ m.doc \in Docs /\ m.op \in {"set", "delete"}
      /\ HandleSuccessfulWrite => server[m.doc] # <<>>
    BY <1>1, FrontFacts DEF IInv
<1>3. \A u \in Users, e \in Docs :
          SetPending(u, e)' <=> SetPending(u, e) /\ ~(m.op = "set" /\ m.doc = e)
    BY <1>1, <1>2, PendingAfterRemove DEF IInv
<1>4. CASE m.op = "set"
    <2>1. m.doc \in WaitingDocs
        BY <1>2, <1>4 DEF WaitingDocs, SetPending
    <2>2. WaitingDocs' = WaitingDocs \ {m.doc}
        BY <1>3, <1>4 DEF WaitingDocs
    <2>3. CASE HandleSuccessfulWrite
        <3>1. Stored[m.doc] # "never"
            <4>1. server[m.doc] \in Seq({"present", "gone"})
                BY <1>2 DEF IInv, StoreTypes
            <4>2. server[m.doc] # <<>> /\ Len(server[m.doc]) \in 1 .. Len(server[m.doc])
                BY <1>2, <2>3, <4>1, LenProperties, EmptySeq
            <4>3. server[m.doc][Len(server[m.doc])] \in {"present", "gone"}
                BY <4>1, <4>2, ElementOfSeq
            <4> QED BY <1>2, <4>2, <4>3 DEF Stored, StoredAs
        <3>2. Life!Settle(m.doc)
            BY <1>1, <2>1, <2>2, <2>3, <3>1 DEF Life!Settle, Stored
        <3> QED BY <1>2, <3>2
    <2>4. CASE HandleRejectedWrite
        <3>1. Life!Refuse(m.doc)
            BY <1>1, <1>2, <1>4, <2>1, <2>2, <2>4 DEF Life!Refuse, Stored
        <3> QED BY <1>2, <3>1
    <2> QED BY <2>3, <2>4
<1>5. CASE m.op = "delete"
    <2>1. WaitingDocs' = WaitingDocs
        BY <1>3, <1>5 DEF WaitingDocs
    <2> QED BY <1>1, <1>2, <1>5, <2>1
<1> QED BY <1>2, <1>4, <1>5

LEMMA LifeStep == IInv /\ [Next]_vars => [Life!LifeNext]_(Life!lifeVars)
<1> SUFFICES ASSUME IInv, [Next]_vars PROVE [Life!LifeNext]_(Life!lifeVars)
    OBVIOUS
<1> DEFINE Stutter == UNCHANGED <<author, WaitingDocs, Stored, refused>>
<1>1. Stutter => [Life!LifeNext]_(Life!lifeVars)
    BY DEF Life!lifeVars, Stored
<1>2. ASSUME NEW d \in Docs, NEW caller \in Callers, AddDocument(d, caller)
      PROVE  Life!LifeNext
    BY <1>2, LifeAdds DEF Life!LifeNext
<1>3. ASSUME NEW d \in Docs, DeleteDocument(d) PROVE Stutter
    <2>1. user \in Users /\ NoCaller \in Callers \cup {NoCaller}
        BY DEF IInv, StoreTypes
    <2>2. \A u \in Users, e \in Docs : SetPending(u, e)' <=> SetPending(u, e)
        BY <1>3, PendingAfterWrite DEF IInv, DeleteDocument
    <2>3. WaitingDocs' = WaitingDocs
        BY <2>2 DEF WaitingDocs
    <2> QED BY <1>3, <2>3 DEF DeleteDocument, Stored, StoredAs
<1>4. CASE Commit
    BY <1>4, LifeCommits DEF Life!LifeNext
<1>5. ASSUME NEW d \in Docs, OtherDevice(d) PROVE Life!LifeNext
    BY <1>5, LifeElsewhere DEF Life!LifeNext
<1>6. CASE HandleSuccessfulWrite \/ HandleRejectedWrite
    BY <1>1, <1>6, LifeAnswers DEF Life!LifeNext
<1>7. CASE Restart
    <2>1. WaitingDocs' = WaitingDocs
        BY <1>7, PendingAfterRestart DEF IInv, WaitingDocs
    <2> QED BY <1>1, <1>7, <2>1 DEF Restart, Stored, StoredAs
<1>8. CASE UNCHANGED <<queue, author, server, refused>>
    <2>1. Stutter
        BY <1>8 DEF WaitingDocs, SetPending, Stored, StoredAs
    <2> QED BY <1>1, <2>1
<1> QED BY <1>1, <1>2, <1>3, <1>4, <1>5, <1>6, <1>7, <1>8
     DEF Next, vars, RunCompletion, Refuse, SendSnapshot, ApplyRemoteEvent, Connect,
         LoseConnection, HandleCredentialChange

(* Every behaviour of the client is, for each document, one that DocumentLife  *)
(* allows.                                                                     *)
THEOREM LivesAsDocumentLife == Spec => ImplementsDocumentLife
<1>1. Init => Life!LifeInit
    BY LifeInitially
<1>2. IInv /\ [Next]_vars => [Life!LifeNext]_(Life!lifeVars)
    BY LifeStep
<1> QED BY <1>1, <1>2, Invariant, PTL DEF Spec, ImplementsDocumentLife, Life!LifeSpec
=============================================================================
